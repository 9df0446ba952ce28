---------------------------- MODULE DomainsProofs ----------------------------
(***************************************************************************)
(* The properties of Domains hold for any number of workspaces, names,     *)
(* requests and rows, whatever the legacy rows are.  The invariant says    *)
(* what an eviction that has read a tree of rows may still rely on while   *)
(* other requests insert, detach and delete rows of it.                    *)
(***************************************************************************)
EXTENDS Domains, TLAPS, FiniteSetTheorems, SequenceTheorems

Asking  == [at : {"taken", "prove", "claim", "count", "upsert"}, ws : Workspaces, name : Names,
            claimed : BOOLEAN, tree : {<<>>}]
Finding == [at : {"find", "parent"}, ws : Workspaces, name : Names, tree : {<<>>}]
Evicting == [at : {"clean", "detach", "parent"}, ws : Workspaces, name : Names,
             tree : Seq(Targets), upto : 0..MaxRows]
Entering == [at : {"insert", "settle", "lose"}, ws : Workspaces, name : Names,
             tree : {<<>>}, parent : 0..MaxRows]
Publishing == [at : {"publish"}, id : Ids]
Handling == [at : {"store", "drop", "unpublish"}, id : Ids, record : 0..MaxRecords]
Request == Asking \cup Finding \cup Evicting \cup Entering \cup Publishing \cup Handling \cup {Idle}

Evictions == {q \in Requests : req[q].at \in {"clean", "detach"}}

\* Ids are given in order.
Given == \A i \in Ids : Exists(i) => i <= inserted

\* The unique index on live names.
Unique == \A i, j \in Ids : Live(i) /\ Live(j) /\ rows[i].name = rows[j].name => i = j

\* A parent holds a name one level up.
ParentNames ==
    \A i \in Ids : Exists(i) /\ rows[i].parent # 0 => rows[rows[i].parent].name \in Parents(rows[i].name)

\* An eviction saw only rows that had been inserted.
Seen == \A i \in Ids : Exists(i) /\ rows[i].evicted => rows[i].upto <= inserted

\* A row that eviction r takes: not the winner's, and unproven at the name itself.
Takes(r, i) ==
    Exists(i) => /\ rows[i].ws # r.ws
                 /\ rows[i].name = r.name => rows[i].via = "legacy"

\* The tree in hand still has every live child that was there when it was read, and
\* before its root only rows that have no children themselves.
Root(r) == r.tree[Len(r.tree)].id
TreeOK(r) ==
    /\ r.upto <= inserted /\ r.tree # <<>>
    /\ \A k \in 1..Len(r.tree) : r.tree[k].id <= inserted /\ Takes(r, r.tree[k].id)
    /\ \A k \in 1..(Len(r.tree) - 1) :
           Exists(r.tree[k].id) => Parents(rows[r.tree[k].id].name) # {}
    /\ \A j \in Ids : Live(j) /\ rows[j].parent = Root(r) /\ j <= r.upto =>
           \E k \in 1..(Len(r.tree) - 1) : r.tree[k].id = j
Trees == \A q \in Evictions : TreeOK(req[q])

\* The parent that an insertion found.
FoundParent(r) ==
    r.parent # 0 =>
        /\ r.parent <= inserted
        /\ Exists(r.parent) => /\ rows[r.parent].ws = r.ws
                               /\ rows[r.parent].name \in Parents(r.name)
Found == \A q \in Requests : req[q].at = "insert" => FoundParent(req[q])

Core ==
    /\ TypeOK
    /\ req \in [Requests -> Request]
    /\ Given /\ Unique /\ ParentNames /\ Seen /\ Trees /\ Found /\ NoStrayChild

-----------------------------------------------------------------------------
(* Shapes                                                                  *)

LEMMA RowsAreNoNoRow == NoRow \notin Row
BY DEF NoRow, Row

\* What a request is by the await it is at.
LEMMA Shape ==
    ASSUME NEW r \in Request
    PROVE  /\ r.at \in {"taken", "prove", "claim", "count", "upsert"} => r \in Asking
           /\ r.at = "find" => r \in Finding
           /\ r.at \in {"clean", "detach"} => r \in Evicting
           /\ r.at = "parent" => r \in Finding \cup Evicting
           /\ r.at \in {"insert", "settle", "lose"} => r \in Entering
           /\ r.at = "publish" => r \in Publishing
           /\ r.at \in {"store", "drop", "unpublish"} => r \in Handling
           /\ r.at = "idle" => r = Idle
           /\ r.at \in {"taken", "prove", "claim", "count", "upsert", "find", "settle", "lose", "clean",
                        "detach", "parent", "insert", "publish", "store", "drop", "unpublish", "idle"}
BY DEF Request, Asking, Finding, Evicting, Entering, Publishing, Handling, Idle

LEMMA Moved ==
    ASSUME Core, NEW q \in Requests, NEW new, req' = [req EXCEPT ![q] = new]
    PROVE  \A p \in Requests : req'[p] = IF p = q THEN new ELSE req[p]
BY DEF Core

LEMMA RowTypes ==
    ASSUME Core
    PROVE  /\ \A i \in Ids : Exists(i) => rows[i] \in Row
           /\ inserted \in Nat /\ inserted <= MaxRows /\ issued \in Nat /\ MaxRows \in Nat /\ MaxRecords \in Nat
           /\ \A i \in Ids : Exists(i) => /\ rows[i].parent \in 0..MaxRows /\ rows[i].upto \in Nat
                                          /\ rows[i].record \in 0..MaxRecords
                                          /\ rows[i].ws \in Workspaces /\ rows[i].name \in Names
                                          /\ rows[i].evicted \in BOOLEAN
                                          /\ rows[i].parent # 0 => rows[i].parent \in Ids
<1>1. \A i \in Ids : Exists(i) => rows[i] \in Row
  BY DEF Core, TypeOK, Exists
<1>2. inserted \in Nat /\ inserted <= MaxRows /\ issued \in Nat /\ MaxRows \in Nat /\ MaxRecords \in Nat
  BY LegacyAssumption DEF Core, TypeOK
<1>3. \A i \in Ids : Exists(i) => /\ rows[i].parent \in 0..MaxRows /\ rows[i].upto \in Nat
                                  /\ rows[i].record \in 0..MaxRecords
                                  /\ rows[i].ws \in Workspaces /\ rows[i].name \in Names
                                  /\ rows[i].evicted \in BOOLEAN
  BY <1>1, <1>2 DEF Row
<1>4. \A i \in Ids : Exists(i) => (rows[i].parent # 0 => rows[i].parent \in Ids)
  BY <1>2, <1>3 DEF Ids
<1> QED
  BY <1>1, <1>2, <1>3, <1>4

LEMMA TreeTypes ==
    ASSUME NEW r \in Evicting, r.tree # <<>>
    PROVE  /\ Len(r.tree) \in Nat /\ Len(r.tree) >= 1
           /\ \A k \in 1..Len(r.tree) : r.tree[k] \in Targets /\ r.tree[k].id \in Ids
                                        /\ r.tree[k].record \in 0..MaxRecords
           /\ Head(r.tree) = r.tree[1] /\ Tail(r.tree) \in Seq(Targets)
           /\ Len(Tail(r.tree)) = Len(r.tree) - 1
           /\ \A k \in 1..(Len(r.tree) - 1) : Tail(r.tree)[k] = r.tree[k + 1]
<1>1. r.tree \in Seq(Targets)
  BY DEF Evicting
<1>2. Len(r.tree) \in Nat /\ Len(r.tree) >= 1
  BY <1>1, EmptySeq, LenProperties
<1>3. \A k \in 1..Len(r.tree) : r.tree[k] \in Targets
  BY <1>1, ElementOfSeq
<1> QED
  BY <1>1, <1>2, <1>3, HeadTailProperties DEF Targets

-----------------------------------------------------------------------------
(* Steps that leave the rows as they are                                   *)

\* What a step may do to everything but the rows and the requests.
TypesMove ==
    /\ claims' \in [Workspaces -> [Names -> {"none", "pending", "lost"}]]
    /\ issued' \in 0..MaxRecords /\ faults' \in 0..MaxFaults
    /\ zone' \subseteq 1..issued' /\ stray' \subseteq 1..issued'
    /\ late' \subseteq Workspaces \X Names

\* A request may come to this.
Sound(r) ==
    /\ r \in Request
    /\ r.at \in {"clean", "detach"} => TreeOK(r)
    /\ r.at = "insert" => FoundParent(r)

LEMMA CoreKept ==
    ASSUME Core, NEW q \in Requests, NEW new, Sound(new),
           req' = [req EXCEPT ![q] = new], UNCHANGED <<rows, inserted>>, TypesMove
    PROVE  Core'
<1>1. \A p \in Requests : req'[p] = IF p = q THEN new ELSE req[p]
  BY Moved
<1>2. \A p \in Requests : Sound(req'[p])
  BY <1>1 DEF Core, Sound, Trees, Found, Evictions
<1>3. req' \in [Requests -> Request]
  BY DEF Core, Sound
<1>4. Trees' /\ Found'
  BY <1>2 DEF Sound, Trees, Found, Evictions, TreeOK, Takes, Root, FoundParent, Exists, Live
<1>5. \A p \in Requests :
           /\ req'[p].at \in {"taken", "prove", "claim", "count", "upsert", "find", "settle", "lose",
                             "clean", "detach", "parent", "insert", "publish", "store", "drop", "unpublish", "idle"}
           /\ req'[p].at \in {"clean", "detach"} => req'[p].tree \in Seq(Targets) /\ req'[p].tree # <<>>
  <2> SUFFICES ASSUME NEW p \in Requests
               PROVE  /\ req'[p].at \in {"taken", "prove", "claim", "count", "upsert", "find", "settle", "lose",
                             "clean", "detach", "parent", "insert", "publish", "store", "drop", "unpublish", "idle"}
                      /\ req'[p].at \in {"clean", "detach"} => req'[p].tree \in Seq(Targets) /\ req'[p].tree # <<>>
    OBVIOUS
  <2>1. req'[p] \in Request /\ (req'[p].at \in {"clean", "detach"} => TreeOK(req'[p]))
    BY <1>2 DEF Sound
  <2> QED
    BY <2>1, Shape DEF Evicting, TreeOK
<1>6. TypeOK'
  BY <1>5 DEF Core, TypeOK, TypesMove, Exists
<1>7. Given' /\ Unique' /\ ParentNames' /\ Seen' /\ NoStrayChild'
  BY DEF Core, Given, Unique, ParentNames, Seen, NoStrayChild, Exists, Live
<1> QED
  BY <1>3, <1>4, <1>6, <1>7 DEF Core

-----------------------------------------------------------------------------
(* Steps that change rows                                                  *)

\* Rows stay what they were: they only disappear, are detached, or lose their parent.
RowsKept ==
    /\ rows' \in [Ids -> Row \cup {NoRow}]
    /\ \A i \in Ids : rows'[i] # NoRow =>
           /\ rows[i] # NoRow
           /\ rows'[i].ws = rows[i].ws /\ rows'[i].name = rows[i].name /\ rows'[i].via = rows[i].via
           /\ rows[i].evicted => rows'[i].evicted
           /\ rows'[i].parent # 0 => rows'[i].parent = rows[i].parent /\ rows'[rows'[i].parent] # NoRow

LEMMA KeptRows ==
    ASSUME Core, RowsKept, UNCHANGED inserted
    PROVE  /\ Given' /\ Unique' /\ ParentNames'
           /\ \A i \in Ids : Exists(i)' /\ rows'[i].parent # 0 =>
                  rows'[rows'[i].parent] # NoRow /\ rows'[rows'[i].parent].ws = rows'[i].ws
           /\ \A r \in Evicting : TreeOK(r) => TreeOK(r)'
           /\ \A r \in Entering : FoundParent(r) => FoundParent(r)'
<1>1. Given' /\ Unique'
  BY DEF Core, RowsKept, Given, Unique, Exists, Live
<1>2. \A i \in Ids : Exists(i)' /\ rows'[i].parent # 0 =>
          /\ rows'[rows[i].parent] # NoRow /\ rows'[i].parent = rows[i].parent /\ rows[i].parent \in Ids
          /\ rows'[rows'[i].parent].ws = rows'[i].ws
          /\ rows'[rows'[i].parent].name \in Parents(rows'[i].name)
  <2> SUFFICES ASSUME NEW i \in Ids, rows'[i] # NoRow, rows'[i].parent # 0
               PROVE  /\ rows'[rows[i].parent] # NoRow /\ rows'[i].parent = rows[i].parent /\ rows[i].parent \in Ids
                      /\ rows'[rows'[i].parent].ws = rows'[i].ws
                      /\ rows'[rows'[i].parent].name \in Parents(rows'[i].name)
    BY DEF Exists
  <2> DEFINE p == rows[i].parent
  <2>1. /\ rows[i] # NoRow /\ rows'[i].parent = p /\ p # 0 /\ rows'[p] # NoRow
        /\ rows'[i].ws = rows[i].ws /\ rows'[i].name = rows[i].name
    BY DEF RowsKept
  <2>2. p \in Ids
    BY <2>1, RowTypes DEF Exists
  <2>3. rows'[p].ws = rows[p].ws /\ rows'[p].name = rows[p].name
    BY <2>1, <2>2 DEF RowsKept
  <2>4. rows[p].ws = rows[i].ws /\ rows[p].name \in Parents(rows[i].name)
    BY <2>1 DEF Core, TypeOK, ParentNames, Exists
  <2> QED
    BY <2>1, <2>2, <2>3, <2>4 DEF Exists
<1>3. ParentNames'
  BY <1>2 DEF ParentNames
<1>4. ASSUME NEW r \in Evicting, TreeOK(r) PROVE TreeOK(r)'
  <2>0. r.tree # <<>> /\ r.upto <= inserted
    BY <1>4 DEF TreeOK
  <2>1. ASSUME NEW k \in 1..Len(r.tree)
        PROVE  r.tree[k].id <= inserted' /\ Takes(r, r.tree[k].id)'
    <3>1. r.tree[k].id \in Ids /\ r.tree[k].id <= inserted /\ Takes(r, r.tree[k].id)
      BY <1>4, <2>0, <2>1, TreeTypes DEF TreeOK
    <3> QED
      BY <3>1 DEF Takes, RowsKept, Exists
  <2>2. ASSUME NEW k \in 1..(Len(r.tree) - 1), Exists(r.tree[k].id)'
        PROVE  Parents(rows'[r.tree[k].id].name) # {}
    <3>1. k \in 1..Len(r.tree)
      BY <2>0, <2>2, TreeTypes
    <3>2. r.tree[k].id \in Ids
      BY <2>0, <3>1, TreeTypes
    <3> QED
      BY <1>4, <2>2, <3>2 DEF TreeOK, RowsKept, Exists
  <2>3. ASSUME NEW j \in Ids, Live(j)', rows'[j].parent = Root(r), j <= r.upto
        PROVE  \E k \in 1..(Len(r.tree) - 1) : r.tree[k].id = j
    <3>1. Root(r) # 0
      <4>1. Root(r) \in Ids
        BY <2>0, TreeTypes DEF Root
      <4> QED
        BY <4>1 DEF Ids
    <3>2. Live(j) /\ rows[j].parent = Root(r)
      BY <2>3, <3>1 DEF Live, Exists, RowsKept
    <3> QED
      BY <1>4, <2>3, <3>2 DEF TreeOK
  <2> QED
    BY <2>0, <2>1, <2>2, <2>3 DEF TreeOK, Root
<1>5. ASSUME NEW r \in Entering, FoundParent(r) PROVE FoundParent(r)'
  <2> SUFFICES ASSUME r.parent # 0
               PROVE  /\ r.parent <= inserted'
                      /\ Exists(r.parent)' => /\ rows'[r.parent].ws = r.ws
                                              /\ rows'[r.parent].name \in Parents(r.name)
    BY DEF FoundParent
  <2>1. r.parent \in Ids
    BY RowTypes DEF Entering, Ids
  <2> QED
    BY <1>5, <2>1 DEF FoundParent, RowsKept, Exists
<1> QED
  BY <1>1, <1>2, <1>3, <1>4, <1>5 DEF Exists

\* As CoreKept, for the steps that change rows.
LEMMA CoreOfKeptRows ==
    ASSUME Core, NEW q \in Requests, NEW new \in Request,
           req' = [req EXCEPT ![q] = new] \/ (req' = req /\ new = req[q]),
           RowsKept, UNCHANGED inserted, TypesMove,
           new.at \in {"clean", "detach"} => TreeOK(new)',
           new.at = "insert" => FoundParent(new)',
           Seen', NoStrayChild'
    PROVE  Core'
<1>1. \A p \in Requests : req'[p] = IF p = q THEN new ELSE req[p]
  BY DEF Core
<1>2. \A p \in Requests : req'[p] \in Request
  BY <1>1 DEF Core
<1>3. req' \in [Requests -> Request]
  BY DEF Core
<1>4. \A p \in Requests : \A r : r = req'[p] =>
           /\ r.at \in {"clean", "detach"} => TreeOK(r)'
           /\ r.at = "insert" => FoundParent(r)'
  <2> SUFFICES ASSUME NEW p \in Requests, NEW r, r = req'[p]
               PROVE  /\ r.at \in {"clean", "detach"} => TreeOK(r)'
                      /\ r.at = "insert" => FoundParent(r)'
    OBVIOUS
  <2>1. CASE p = q
    BY <1>1, <2>1
  <2>2. CASE p # q
    <3>1. r = req[p] /\ r \in Request
      BY <1>1, <2>2 DEF Core
    <3>2. r.at \in {"clean", "detach"} => r \in Evicting /\ TreeOK(r)
      BY <3>1, Shape DEF Core, Trees, Evictions, TreeOK, Takes, Root
    <3>3. r.at = "insert" => r \in Entering /\ FoundParent(r)
      BY <3>1, Shape DEF Core, Found, FoundParent
    <3> QED
      BY <3>2, <3>3, KeptRows
  <2> QED
    BY <2>1, <2>2
<1>5. ASSUME NEW p \in Requests
      PROVE  /\ req'[p].at \in {"clean", "detach"} => TreeOK(req[p])'
             /\ req'[p].at = "insert" => FoundParent(req[p])'
  <2>1. PICK r : r = req'[p]
    OBVIOUS
  <2>2. /\ r.at \in {"clean", "detach"} => TreeOK(r)'
        /\ r.at = "insert" => FoundParent(r)'
    BY <1>4, <2>1
  <2> QED
    BY <2>1, <2>2 DEF TreeOK, Takes, Root, FoundParent
<1>6. \A p \in Requests :
           /\ req'[p].at \in {"taken", "prove", "claim", "count", "upsert", "find", "settle", "lose",
                             "clean", "detach", "parent", "insert", "publish", "store", "drop", "unpublish", "idle"}
           /\ req'[p].at \in {"clean", "detach"} => req'[p].tree \in Seq(Targets) /\ req'[p].tree # <<>>
  <2> SUFFICES ASSUME NEW p \in Requests, NEW r, r = req'[p]
               PROVE  /\ r.at \in {"taken", "prove", "claim", "count", "upsert", "find", "settle", "lose",
                             "clean", "detach", "parent", "insert", "publish", "store", "drop", "unpublish", "idle"}
                      /\ r.at \in {"clean", "detach"} => r.tree \in Seq(Targets) /\ r.tree # <<>>
    OBVIOUS
  <2>1. r \in Request
    BY <1>2
  <2>2. r.at \in {"clean", "detach"} => r.tree # <<>>
    BY <1>4 DEF TreeOK
  <2> QED
    BY <2>1, <2>2, Shape DEF Evicting
<1>7. TypeOK'
  <2>1. \A i \in Ids : rows'[i] # NoRow /\ rows'[i].parent # 0 =>
            rows'[rows'[i].parent] # NoRow /\ rows'[rows'[i].parent].ws = rows'[i].ws
    BY KeptRows DEF Exists
  <2>2. inserted' \in 0..MaxRows
    BY DEF Core, TypeOK
  <2> QED
    BY <1>6, <2>1, <2>2 DEF TypeOK, TypesMove, Exists, RowsKept
<1>8. Given' /\ Unique' /\ ParentNames'
  BY KeptRows
<1>9. Trees'
  BY <1>5 DEF Trees, Evictions
<1>10. Found'
  BY <1>5 DEF Found
<1> QED
  BY <1>3, <1>7, <1>8, <1>9, <1>10 DEF Core

-----------------------------------------------------------------------------
(* Evictions                                                               *)

LEMMA CopyTypes ==
    ASSUME Core, NEW i \in Ids, Exists(i)
    PROVE  Copy(i) \in Targets /\ Copy(i).id = i /\ Copy(i).record = rows[i].record
BY RowTypes DEF Copy, Targets

\* What evictLegacyHolder reads: the live children, then the domain.
LEMMA TreeRead ==
    ASSUME Core, NEW i \in Ids, Live(i), NEW t \in TreesOf(i)
    PROVE  /\ t \in Seq(Targets) /\ t # <<>> /\ Len(t) >= 1 /\ Len(t) \in Nat
           /\ t[Len(t)] = Copy(i)
           /\ \A k \in 1..(Len(t) - 1) : \E j \in Below(i) : t[k] = Copy(j)
           /\ \A j \in Below(i) : \E k \in 1..(Len(t) - 1) : t[k].id = j
<1> DEFINE n == Cardinality(Below(i))
<1>1. n \in Nat
  <2>1. IsFiniteSet(Ids)
    BY FS_Interval, RowTypes DEF Ids
  <2> QED
    BY <2>1, FS_Subset, FS_CardinalityType DEF Below
<1>2. PICK s \in Orders(Below(i)) : t = [k \in 1..(Len(s) + 1) |-> IF k > Len(s) THEN Copy(i) ELSE Copy(s[k])]
  BY DEF TreesOf
<1>3. s \in [1..n -> Below(i)] /\ \A j \in Below(i) : \E k \in 1..n : s[k] = j
  BY DEF Orders
<1>4. s \in Seq(Below(i)) /\ Len(s) = n
  BY <1>1, <1>3
<1>5. t = [k \in 1..(n + 1) |-> IF k > n THEN Copy(i) ELSE Copy(s[k])]
  BY <1>2, <1>4
<1> HIDE DEF n
<1>6. \A j \in Below(i) : j \in Ids /\ Exists(j)
  BY DEF Below, Live
<1>7. \A k \in 1..(n + 1) : t[k] \in Targets
  <2> SUFFICES ASSUME NEW k \in 1..(n + 1) PROVE t[k] \in Targets
    OBVIOUS
  <2>1. CASE k > n
    BY <1>5, <2>1, CopyTypes DEF Live
  <2>2. CASE ~(k > n)
    <3>1. k \in 1..n
      BY <1>1, <2>2
    <3>2. s[k] \in Below(i)
      BY <1>3, <3>1
    <3> QED
      BY <1>5, <1>6, <2>2, <3>2, CopyTypes
  <2> QED
    BY <2>1, <2>2
<1>8. t \in Seq(Targets) /\ Len(t) = n + 1
  BY <1>1, <1>5, <1>7
<1>9. t # <<>>
  BY <1>1, <1>8, EmptySeq
<1>10. t[Len(t)] = Copy(i)
  BY <1>1, <1>5, <1>8
<1>11. \A k \in 1..(Len(t) - 1) : k \in 1..n /\ k \in 1..(n + 1) /\ ~(k > n)
  BY <1>1, <1>8
<1>12. \A k \in 1..n : t[k] = Copy(s[k]) /\ k \in 1..(Len(t) - 1) /\ s[k] \in Below(i)
  BY <1>1, <1>3, <1>5, <1>8
<1>13. \A k \in 1..(Len(t) - 1) : \E j \in Below(i) : t[k] = Copy(j)
  BY <1>11, <1>12
<1>14. \A j \in Below(i) : \E k \in 1..(Len(t) - 1) : t[k].id = j
  <2> SUFFICES ASSUME NEW j \in Below(i) PROVE \E k \in 1..(Len(t) - 1) : t[k].id = j
    OBVIOUS
  <2>1. PICK k \in 1..n : s[k] = j
    BY <1>3
  <2>2. t[k] = Copy(j) /\ k \in 1..(Len(t) - 1)
    BY <1>12, <2>1
  <2> QED
    BY <2>2 DEF Copy
<1> QED
  BY <1>1, <1>8, <1>9, <1>10, <1>13, <1>14

LEMMA FoundTree ==
    ASSUME Core, NEW w \in Workspaces, NEW n \in Names, NEW i \in Victims(w, n), NEW t \in TreesOf(i),
           NEW r, r = [at |-> "clean", ws |-> w, name |-> n, tree |-> t, upto |-> inserted]
    PROVE  Sound(r)
<1>1. /\ i \in Ids /\ Live(i) /\ Exists(i)
      /\ rows[i].name = n /\ rows[i].ws # w /\ rows[i].via = "legacy"
  BY DEF Victims, Live
<1>2. /\ t \in Seq(Targets) /\ t # <<>> /\ Len(t) >= 1 /\ Len(t) \in Nat
      /\ t[Len(t)] = Copy(i)
      /\ \A k \in 1..(Len(t) - 1) : \E j \in Below(i) : t[k] = Copy(j)
      /\ \A j \in Below(i) : \E k \in 1..(Len(t) - 1) : t[k].id = j
  BY <1>1, TreeRead
<1>3. \A j \in Below(i) : /\ j \in Ids /\ Live(j) /\ Exists(j) /\ rows[j].parent = i /\ rows[j].ws = rows[i].ws
                          /\ rows[i].name \in Parents(rows[j].name) /\ rows[j].name # n
  <2> SUFFICES ASSUME NEW j \in Below(i)
               PROVE  /\ j \in Ids /\ Live(j) /\ Exists(j) /\ rows[j].parent = i /\ rows[j].ws = rows[i].ws
                      /\ rows[i].name \in Parents(rows[j].name) /\ rows[j].name # n
    OBVIOUS
  <2>1. j \in Ids /\ Live(j) /\ Exists(j) /\ rows[j].parent = i /\ rows[j].ws = rows[i].ws
    BY DEF Below, Live
  <2>2. rows[i].name \in Parents(rows[j].name)
    <3>1. i # 0
      BY <1>1 DEF Ids
    <3> QED
      BY <2>1, <3>1 DEF Core, ParentNames
  <2>3. rows[j].name # n
    <3>1. Parents(rows[i].name) = {}
      BY <2>1, <2>2, RowTypes, LegacyAssumption
    <3> QED
      BY <1>1, <2>2, <3>1
  <2> QED
    BY <2>1, <2>2, <2>3
<1>4. r \in Evicting /\ r.at = "clean" /\ r.tree = t /\ r.ws = w /\ r.name = n /\ r.upto = inserted
  <2>1. inserted \in 0..MaxRows
    BY DEF Core, TypeOK
  <2> QED
    BY <1>2, <2>1 DEF Evicting
<1>5. \A k \in 1..Len(t) : \E j \in Below(i) \cup {i} : t[k].id = j
  <2> SUFFICES ASSUME NEW k \in 1..Len(t) PROVE \E j \in Below(i) \cup {i} : t[k].id = j
    OBVIOUS
  <2>1. CASE k = Len(t)
    BY <1>2, <2>1 DEF Copy
  <2>2. CASE k # Len(t)
    <3>1. k \in 1..(Len(t) - 1)
      BY <1>2, <2>2
    <3>2. PICK j \in Below(i) : t[k] = Copy(j)
      BY <1>2, <3>1
    <3> QED
      BY <3>2 DEF Copy
  <2> QED
    BY <2>1, <2>2
<1>6. \A j \in Below(i) \cup {i} : j <= inserted /\ Takes(r, j)
  BY <1>1, <1>3, <1>4 DEF Core, Given, Takes
<1>7. \A k \in 1..Len(t) : t[k].id <= inserted /\ Takes(r, t[k].id)
  BY <1>5, <1>6
<1>8. \A k \in 1..(Len(t) - 1) : Parents(rows[t[k].id].name) # {}
  <2> SUFFICES ASSUME NEW k \in 1..(Len(t) - 1) PROVE Parents(rows[t[k].id].name) # {}
    OBVIOUS
  <2>1. PICK j \in Below(i) : t[k] = Copy(j)
    BY <1>2
  <2>2. t[k].id = j
    BY <2>1 DEF Copy
  <2> QED
    BY <1>3, <2>2
<1>9. \A j \in Ids : Live(j) /\ rows[j].parent = Root(r) => \E k \in 1..(Len(t) - 1) : t[k].id = j
  <2> SUFFICES ASSUME NEW j \in Ids, Live(j), rows[j].parent = i PROVE j \in Below(i)
    BY <1>2, <1>4 DEF Root, Copy
  <2>1. i # 0 /\ Exists(j)
    BY <1>1 DEF Ids, Live
  <2>2. rows[j].ws = rows[i].ws
    BY <2>1 DEF Core, TypeOK
  <2> QED
    BY <2>2 DEF Below
<1>10. inserted <= inserted
  BY RowTypes
<1>11. TreeOK(r)
  BY <1>2, <1>4, <1>7, <1>8, <1>9, <1>10 DEF TreeOK
<1> QED
  BY <1>4, <1>11 DEF Sound, Request

\* The rest of a tree, once its first row is detached.
LEMMA TreeGoesOn ==
    ASSUME Core, NEW r \in Evicting, TreeOK(r)', Len(r.tree) > 1, ~Live(r.tree[1].id)', UNCHANGED inserted,
           NEW new, new = [r EXCEPT !.tree = Tail(r.tree), !.at = "clean"]
    PROVE  new \in Evicting /\ TreeOK(new)'
<1> DEFINE n == Len(r.tree)
<1>1. /\ n \in Nat /\ n > 1 /\ r.tree # <<>>
      /\ Tail(r.tree) \in Seq(Targets) /\ Len(Tail(r.tree)) = n - 1
      /\ \A k \in 1..(n - 1) : Tail(r.tree)[k] = r.tree[k + 1]
  BY TreeTypes DEF TreeOK
<1>2. /\ new \in Evicting /\ new.tree = Tail(r.tree) /\ new.upto = r.upto /\ new.ws = r.ws /\ new.name = r.name
      /\ Len(new.tree) = n - 1 /\ new.tree # <<>>
  <2>1. /\ new \in Evicting /\ new.tree = Tail(r.tree) /\ new.upto = r.upto
        /\ new.ws = r.ws /\ new.name = r.name
    BY <1>1 DEF Evicting
  <2>2. Len(new.tree) = n - 1
    BY <1>1, <2>1
  <2>4. n - 1 # 0
    <3> HIDE DEF n
    <3> QED
      BY <1>1
  <2>3. Len(<<>>) = 0
    BY EmptySeq
  <2> HIDE DEF n
  <2> QED
    BY <2>1, <2>2, <2>3, <2>4
<1>3. \A k \in 1..(n - 1) : new.tree[k] = r.tree[k + 1] /\ k + 1 \in 1..n
  BY <1>1, <1>2
<1> HIDE DEF n
<1>4. \A k \in 1..(n - 1) : new.tree[k].id <= inserted' /\ Takes(new, new.tree[k].id)'
  <2> SUFFICES ASSUME NEW k \in 1..(n - 1), NEW i, i = new.tree[k].id
               PROVE  i <= inserted' /\ Takes(new, i)'
    OBVIOUS
  <2>1. k + 1 \in 1..n /\ i = r.tree[k + 1].id
    BY <1>3
  <2>2. i <= inserted' /\ Takes(r, i)'
    BY <2>1 DEF TreeOK, n
  <2> QED
    BY <1>2, <2>2 DEF Takes
<1>5. \A k \in 1..(n - 2) : Exists(new.tree[k].id)' => Parents(rows'[new.tree[k].id].name) # {}
  <2> SUFFICES ASSUME NEW k \in 1..(n - 2), NEW i, i = new.tree[k].id, Exists(i)'
               PROVE  Parents(rows'[i].name) # {}
    OBVIOUS
  <2>1. k + 1 \in 1..(n - 1) /\ k \in 1..(n - 1)
    BY <1>1
  <2>2. i = r.tree[k + 1].id
    BY <1>3, <2>1
  <2> QED
    BY <2>1, <2>2 DEF TreeOK, n
<1>6. Root(new) = Root(r)
  <2>1. n - 1 \in 1..(n - 1) /\ (n - 1) + 1 = n
    BY <1>1
  <2> QED
    BY <1>2, <1>3, <2>1 DEF Root, n
<1>7. \A j \in Ids : Live(j)' /\ rows'[j].parent = Root(new) /\ j <= new.upto =>
          \E k \in 1..(n - 2) : new.tree[k].id = j
  <2> SUFFICES ASSUME NEW j \in Ids, Live(j)', rows'[j].parent = Root(r), j <= r.upto
               PROVE  \E k \in 1..(n - 2) : new.tree[k].id = j
    BY <1>2, <1>6
  <2>1. PICK k \in 1..(n - 1) : r.tree[k].id = j
    BY DEF TreeOK, n
  <2>2. k # 1
    BY <2>1
  <2>3. k - 1 \in 1..(n - 2) /\ k - 1 \in 1..(n - 1) /\ (k - 1) + 1 = k
    BY <1>1, <2>2
  <2>4. new.tree[k - 1].id = j
    BY <1>3, <2>1, <2>3
  <2> QED
    BY <2>3, <2>4
<1>8. Len(new.tree) - 1 = n - 2 /\ Root(new)' = Root(new)
  BY <1>1, <1>2 DEF Root
<1>9. new.upto <= inserted'
  BY <1>2 DEF TreeOK
<1> QED
  BY <1>2, <1>4, <1>5, <1>7, <1>8, <1>9 DEF TreeOK

LEMMA DetachCore == ASSUME Core, NEW q \in Requests, Detach(q) PROVE Core'
<1>1. PICK r : r = req[q]
  OBVIOUS
<1>2. r \in Evicting /\ r.at = "detach" /\ TreeOK(r) /\ r.tree # <<>>
  <2>1. r \in Request /\ r.at = "detach"
    BY <1>1 DEF Detach, Core
  <2>2. TreeOK(req[q])
    BY <1>1, <2>1 DEF Core, Trees, Evictions
  <2>3. TreeOK(r)
    BY <1>1, <2>2
  <2> QED
    BY <2>1, <2>3, Shape DEF TreeOK
<1> DEFINE i == r.tree[1].id
           n == Len(r.tree)
           new == [r EXCEPT !.tree = Tail(r.tree), !.at = IF n = 1 THEN "parent" ELSE "clean"]
<1>3. /\ i \in Ids /\ n \in Nat /\ n >= 1 /\ Head(r.tree) = r.tree[1]
      /\ Tail(r.tree) \in Seq(Targets) /\ r.tree[1].record \in 0..MaxRecords
  BY <1>2, TreeTypes
<1>4. /\ rows' = IF Exists(i) THEN [rows EXCEPT ![i] = [rows[i] EXCEPT !.evicted = TRUE, !.record = 0, !.upto = r.upto]]
                 ELSE rows
      /\ req' = [req EXCEPT ![q] = new]
      /\ stray' = IF Exists(i) THEN stray \cup (zone \cap ({rows[i].record} \ {r.tree[1].record})) ELSE stray
      /\ UNCHANGED <<inserted, claims, zone, issued, late, faults>>
  BY <1>1, <1>2, <1>3 DEF Detach, Target, Core, TypeOK
<1>5. r.upto <= inserted /\ r.upto \in Nat /\ r.upto \in 0..MaxRows
  BY <1>2, RowTypes DEF TreeOK, Evicting
<1>6. \A j \in Ids : Exists(j) => /\ Exists(j)'
                                  /\ rows'[j].ws = rows[j].ws /\ rows'[j].name = rows[j].name
                                  /\ rows'[j].via = rows[j].via /\ rows'[j].parent = rows[j].parent
                                  /\ rows'[j] \in Row
                                  /\ j # i => rows'[j] = rows[j]
                                  /\ j = i => rows'[j].evicted /\ rows'[j].upto = r.upto
  <2> SUFFICES ASSUME NEW j \in Ids, Exists(j)
               PROVE  /\ rows'[j] # NoRow
                      /\ rows'[j].ws = rows[j].ws /\ rows'[j].name = rows[j].name
                      /\ rows'[j].via = rows[j].via /\ rows'[j].parent = rows[j].parent
                      /\ rows'[j] \in Row
                      /\ j # i => rows'[j] = rows[j]
                      /\ j = i => rows'[j].evicted /\ rows'[j].upto = r.upto
    BY DEF Exists
  <2>1. rows[j] \in Row
    BY RowTypes
  <2>2. CASE j = i
    <3>1. rows'[j] = [rows[j] EXCEPT !.evicted = TRUE, !.record = 0, !.upto = r.upto]
      BY <1>4, <2>2 DEF Core, TypeOK
    <3>2. 0 \in 0..MaxRecords
      BY RowTypes
    <3>3. rows'[j] \in Row
      BY <1>5, <2>1, <3>1, <3>2 DEF Row
    <3> QED
      BY <2>1, <2>2, <3>1, <3>3, RowsAreNoNoRow DEF Row
  <2>3. CASE j # i
    BY <1>4, <2>1, <2>3 DEF Exists, Core, TypeOK
  <2> QED
    BY <2>2, <2>3
<1>7. \A j \in Ids : ~Exists(j) => rows'[j] = NoRow
  BY <1>4 DEF Exists, Core, TypeOK
<1>8. rows' \in [Ids -> Row \cup {NoRow}]
  <2>1. DOMAIN rows' = Ids /\ rows' = [j \in Ids |-> rows'[j]]
    BY <1>4 DEF Core, TypeOK
  <2>2. \A j \in Ids : rows'[j] \in Row \cup {NoRow}
    BY <1>6, <1>7
  <2> QED
    BY <2>1, <2>2
<1>9. RowsKept
  <2> SUFFICES ASSUME NEW j \in Ids, rows'[j] # NoRow
               PROVE  /\ rows[j] # NoRow
                      /\ rows'[j].ws = rows[j].ws /\ rows'[j].name = rows[j].name /\ rows'[j].via = rows[j].via
                      /\ rows[j].evicted => rows'[j].evicted
                      /\ rows'[j].parent # 0 => rows'[j].parent = rows[j].parent /\ rows'[rows'[j].parent] # NoRow
    BY <1>8 DEF RowsKept
  <2>1. Exists(j)
    BY <1>7
  <2>2. rows[j].evicted => rows'[j].evicted
    BY <1>6, <2>1
  <2>3. rows[j].parent # 0 => rows[j].parent \in Ids /\ Exists(rows[j].parent)
    BY <2>1, RowTypes DEF Core, TypeOK
  <2>4. rows'[j].parent = rows[j].parent
    BY <1>6, <2>1
  <2> QED
    BY <1>6, <2>1, <2>2, <2>3, <2>4 DEF Exists
<1>10. Seen'
  <2> SUFFICES ASSUME NEW j \in Ids, rows'[j] # NoRow, rows'[j].evicted PROVE rows'[j].upto <= inserted
    BY <1>4 DEF Seen, Exists
  <2>1. Exists(j)
    BY <1>7
  <2> QED
    BY <1>5, <1>6, <2>1 DEF Core, Seen
<1>11. NoStrayChild'
  <2> SUFFICES ASSUME NEW j \in Ids, Live(j)', NEW p, p = rows'[j].parent, p # 0, rows'[p].evicted
               PROVE  j > rows'[p].upto
    BY DEF NoStrayChild
  <2>1. Exists(j) /\ Live(j) /\ rows[j].parent = p /\ j \in Int
    BY <1>6, <1>7 DEF Live, Exists, Ids
  <2>2. p \in Ids /\ Exists(p)
    BY <2>1, RowTypes DEF Core, TypeOK
  <2>3. CASE p # i
    BY <1>6, <2>1, <2>2, <2>3 DEF Core, NoStrayChild
  <2>4. CASE p = i
    <3>1. rows'[p].upto = r.upto
      BY <1>6, <2>2, <2>4
    <3>2. SUFFICES ASSUME j <= r.upto PROVE FALSE
      BY <1>5, <2>1, <3>1
    <3>3. CASE n = 1
      <4>1. Root(r) = i
        BY <3>3 DEF Root
      <4>2. \A b \in Ids : Live(b) /\ rows[b].parent = Root(r) /\ b <= r.upto =>
                \E k \in 1..(n - 1) : r.tree[k].id = b
        BY <1>2 DEF TreeOK
      <4>3. \E k \in 1..(n - 1) : TRUE
        BY <2>1, <2>4, <3>2, <4>1, <4>2
      <4> QED
        BY <3>3, <4>3
    <3>4. CASE n # 1
      <4>1. 1 \in 1..(n - 1)
        <5> HIDE DEF n
        <5> QED
          BY <1>3, <3>4
      <4>2. Parents(rows[i].name) # {}
        BY <1>2, <2>2, <2>4, <4>1 DEF TreeOK
      <4>3. rows[i].name \in Parents(rows[j].name) /\ rows[j].name \in Names
        BY <2>1, <2>4, RowTypes DEF Core, ParentNames
      <4> QED
        BY <4>2, <4>3, LegacyAssumption
    <3> QED
      BY <3>3, <3>4
  <2> QED
    BY <2>3, <2>4
<1>12. new \in Evicting /\ (new.at \in {"clean", "detach"} => TreeOK(new)') /\ new.at # "insert"
  <2>1. TreeOK(r)'
    BY <1>2, <1>4, <1>9, KeptRows
  <2>2. CASE n = 1
    <3>1. new = [r EXCEPT !.tree = Tail(r.tree), !.at = "parent"]
      BY <2>2
    <3>2. new \in Evicting /\ new.at = "parent"
      <4> HIDE DEF new
      <4> QED
        BY <1>2, <1>3, <3>1 DEF Evicting
    <3> QED
      BY <3>2
  <2>3. CASE n # 1
    <3>1. ~Live(i)'
      BY <1>3, <1>6, <1>7 DEF Live, Exists
    <3>2. n > 1
      <4> HIDE DEF n, new
      <4> QED
        BY <1>3, <2>3
    <3>3. new = [r EXCEPT !.tree = Tail(r.tree), !.at = "clean"]
      BY <2>3
    <3>4. new.at = "clean"
      BY <1>2, <3>3 DEF Evicting
    <3> HIDE DEF new
    <3> QED
      BY <1>2, <1>4, <2>1, <3>1, <3>2, <3>3, <3>4, TreeGoesOn
  <2> QED
    BY <2>2, <2>3
<1>13. TypesMove
  BY <1>4 DEF TypesMove, Core, TypeOK
<1>14. new \in Request
  BY <1>12 DEF Request
<1> HIDE DEF new
<1> QED
  BY <1>4, <1>9, <1>10, <1>11, <1>12, <1>13, <1>14, CoreOfKeptRows

-----------------------------------------------------------------------------
(* Deletions, and the record a row names                                   *)

\* A row that goes, and one that stays.
LEMMA RowsWithout ==
    ASSUME Core, NEW i \in Ids, rows' = Without(i), UNCHANGED inserted
    PROVE  /\ RowsKept /\ Seen' /\ NoStrayChild'
           /\ \A j \in Ids : Exists(j)' => /\ j # i /\ Exists(j)
                                           /\ rows'[j].record = rows[j].record
                                           /\ rows'[j].evicted = rows[j].evicted
           /\ \A j \in Ids : Exists(j) /\ j # i => Exists(j)'
<1>1. \A j \in Ids : rows'[j] = IF j = i THEN NoRow
                                ELSE IF Exists(j) /\ rows[j].parent = i THEN [rows[j] EXCEPT !.parent = 0]
                                ELSE rows[j]
  BY DEF Without
<1>2. \A j \in Ids : rows'[j] # NoRow =>
           /\ j # i /\ rows[j] # NoRow /\ rows'[j] \in Row
           /\ rows'[j].ws = rows[j].ws /\ rows'[j].name = rows[j].name /\ rows'[j].via = rows[j].via
           /\ rows'[j].evicted = rows[j].evicted /\ rows'[j].upto = rows[j].upto
           /\ rows'[j].record = rows[j].record
           /\ rows'[j].parent # 0 => rows'[j].parent = rows[j].parent /\ rows[j].parent # i
  <2> SUFFICES ASSUME NEW j \in Ids, rows'[j] # NoRow
               PROVE  /\ j # i /\ rows[j] # NoRow /\ rows'[j] \in Row
                      /\ rows'[j].ws = rows[j].ws /\ rows'[j].name = rows[j].name /\ rows'[j].via = rows[j].via
                      /\ rows'[j].evicted = rows[j].evicted /\ rows'[j].upto = rows[j].upto
                      /\ rows'[j].record = rows[j].record
                      /\ rows'[j].parent # 0 => rows'[j].parent = rows[j].parent /\ rows[j].parent # i
    OBVIOUS
  <2>1. j # i
    BY <1>1
  <2>2. CASE Exists(j) /\ rows[j].parent = i
    <3>1. rows'[j] = [rows[j] EXCEPT !.parent = 0]
      BY <1>1, <2>1, <2>2
    <3>2. rows[j] \in Row /\ 0 \in 0..MaxRows
      BY <2>2, RowTypes
    <3> QED
      BY <2>1, <2>2, <3>1, <3>2 DEF Row, Exists
  <2>3. CASE ~(Exists(j) /\ rows[j].parent = i)
    <3>1. rows'[j] = rows[j]
      BY <1>1, <2>1, <2>3
    <3> QED
      BY <2>1, <2>3, <3>1, RowTypes DEF Exists
  <2> QED
    BY <2>2, <2>3
<1>3. \A j \in Ids : rows[j] # NoRow /\ j # i => rows'[j] # NoRow
  <2> SUFFICES ASSUME NEW j \in Ids, rows[j] # NoRow, j # i PROVE rows'[j] # NoRow
    OBVIOUS
  <2>1. rows[j] \in Row
    BY RowTypes DEF Exists
  <2>2. [rows[j] EXCEPT !.parent = 0] \in Row
    BY <2>1, RowTypes DEF Row
  <2> QED
    BY <1>1, <2>2, RowsAreNoNoRow
<1>4. rows' \in [Ids -> Row \cup {NoRow}]
  <2>1. \A j \in Ids : rows'[j] \in Row \cup {NoRow}
    BY <1>2
  <2> QED
    BY <2>1 DEF Without
<1>5. RowsKept
  <2>1. ASSUME NEW j \in Ids, rows'[j] # NoRow, rows'[j].parent # 0 PROVE rows'[rows'[j].parent] # NoRow
    <3>1. rows[j] # NoRow /\ rows'[j].parent = rows[j].parent /\ rows[j].parent # i
      BY <1>2, <2>1
    <3>2. rows[j].parent \in Ids /\ rows[rows[j].parent] # NoRow
      BY <2>1, <3>1, RowTypes DEF Core, TypeOK, Exists
    <3> QED
      BY <1>3, <3>1, <3>2
  <2> QED
    BY <1>2, <1>4, <2>1 DEF RowsKept
<1>6. Seen'
  BY <1>2 DEF Core, Seen, Exists
<1>7. NoStrayChild'
  <2> SUFFICES ASSUME NEW j \in Ids, rows'[j] # NoRow, ~rows'[j].evicted,
                      NEW p, p = rows'[j].parent, p # 0, rows'[p].evicted
               PROVE  j > rows'[p].upto
    BY DEF NoStrayChild, Live, Exists
  <2>1. Live(j) /\ rows[j].parent = p
    BY <1>2 DEF Live, Exists
  <2>2. p \in Ids /\ rows'[p] # NoRow
    BY <1>5, <2>1, RowTypes DEF RowsKept, Live
  <2> QED
    BY <1>2, <2>1, <2>2 DEF Core, NoStrayChild
<1> QED
  BY <1>2, <1>3, <1>5, <1>6, <1>7 DEF Exists

LEMMA SoundNow == ASSUME Core, NEW p \in Requests, NEW r, r = req[p] PROVE Sound(r)
<1>1. r \in Request
  BY DEF Core
<1>2. r.at \in {"clean", "detach"} => TreeOK(r)
  <2> SUFFICES ASSUME r.at \in {"clean", "detach"} PROVE TreeOK(r)
    OBVIOUS
  <2>1. TreeOK(req[p])
    BY DEF Core, Trees, Evictions
  <2> QED
    BY <2>1
<1>3. r.at = "insert" => FoundParent(r)
  <2> SUFFICES ASSUME r.at = "insert" PROVE FoundParent(r)
    OBVIOUS
  <2>1. FoundParent(req[p])
    BY DEF Core, Found
  <2> QED
    BY <2>1
<1> QED
  BY <1>1, <1>2, <1>3 DEF Sound

LEMMA DropCore == ASSUME Core, NEW q \in Requests, Drop(q) PROVE Core'
<1>1. PICK r : r = req[q]
  OBVIOUS
<1>2. r \in Handling /\ r.at = "drop"
  BY <1>1, Shape DEF Drop, DropRow, Core
<1> DEFINE new == [r EXCEPT !.at = "unpublish"]
<1>3. /\ rows' = Without(r.id) /\ req' = [req EXCEPT ![q] = new] /\ r.id \in Ids
      /\ stray \subseteq stray' /\ stray' \subseteq stray \cup zone
      /\ UNCHANGED <<inserted, claims, zone, issued, late, faults>>
  BY <1>1, <1>2 DEF Drop, DropRow, Goto, Handling
<1>4. RowsKept /\ Seen' /\ NoStrayChild'
  BY <1>3, RowsWithout
<1>5. new \in Request /\ new.at = "unpublish"
  BY <1>2 DEF Request, Handling
<1>6. TypesMove
  BY <1>3 DEF TypesMove, Core, TypeOK
<1> HIDE DEF new
<1> QED
  BY <1>3, <1>4, <1>5, <1>6, CoreOfKeptRows

LEMMA PurgeCore == ASSUME Core, NEW i \in Ids, Purge(i), NEW q \in Requests PROVE Core'
<1>1. PICK r : r = req[q]
  OBVIOUS
<1>2. rows' = Without(i) /\ UNCHANGED <<inserted, claims, zone, issued, req, stray, late, faults>>
  BY DEF Purge
<1>3. RowsKept /\ Seen' /\ NoStrayChild'
  BY <1>2, RowsWithout
<1>4. Sound(r)
  BY <1>1, SoundNow
<1>5. r \in Request /\ (r.at \in {"clean", "detach"} => r \in Evicting) /\ (r.at = "insert" => r \in Entering)
  BY <1>4, Shape DEF Sound
<1>6. (r.at \in {"clean", "detach"} => TreeOK(r)') /\ (r.at = "insert" => FoundParent(r)')
  BY <1>2, <1>3, <1>4, <1>5, KeptRows DEF Sound
<1>7. TypesMove
  BY <1>2 DEF TypesMove, Core, TypeOK
<1> QED
  BY <1>1, <1>2, <1>3, <1>5, <1>6, <1>7, CoreOfKeptRows

LEMMA StoreCore == ASSUME Core, NEW q \in Requests, Store(q) PROVE Core'
<1>1. PICK r : r = req[q]
  OBVIOUS
<1>2. r \in Handling /\ r.at = "store"
  BY <1>1, Shape DEF Store, Core
<1>3. /\ rows' = IF Exists(r.id) THEN [rows EXCEPT ![r.id] = [rows[r.id] EXCEPT !.record = r.record]] ELSE rows
      /\ stray' = stray \cup (zone \cap IF Live(r.id) THEN {rows[r.id].record} ELSE {r.record})
      /\ req' = [req EXCEPT ![q] = Idle]
      /\ r.id \in Ids /\ r.record \in 0..MaxRecords
      /\ UNCHANGED <<inserted, claims, zone, issued, late, faults>>
  BY <1>1, <1>2 DEF Store, Over, Handling, Core, TypeOK
<1>4. \A j \in Ids : /\ rows'[j] # NoRow <=> rows[j] # NoRow
                     /\ rows[j] # NoRow => 
                           /\ rows'[j] \in Row
                           /\ rows'[j].ws = rows[j].ws /\ rows'[j].name = rows[j].name
                           /\ rows'[j].via = rows[j].via /\ rows'[j].parent = rows[j].parent
                           /\ rows'[j].evicted = rows[j].evicted /\ rows'[j].upto = rows[j].upto
  <2> SUFFICES ASSUME NEW j \in Ids
               PROVE  /\ rows'[j] # NoRow <=> rows[j] # NoRow
                      /\ rows[j] # NoRow => 
                           /\ rows'[j] \in Row
                           /\ rows'[j].ws = rows[j].ws /\ rows'[j].name = rows[j].name
                           /\ rows'[j].via = rows[j].via /\ rows'[j].parent = rows[j].parent
                           /\ rows'[j].evicted = rows[j].evicted /\ rows'[j].upto = rows[j].upto
    OBVIOUS
  <2>1. CASE j = r.id /\ Exists(j)
    <3>1. rows'[j] = [rows[j] EXCEPT !.record = r.record] /\ rows[j] \in Row
      BY <1>3, <2>1, RowTypes DEF Core, TypeOK
    <3>2. rows'[j] \in Row
      BY <1>3, <3>1 DEF Row
    <3> QED
      BY <2>1, <3>1, <3>2, RowsAreNoNoRow DEF Row, Exists
  <2>2. CASE ~(j = r.id /\ Exists(j))
    <3>1. rows'[j] = rows[j]
      BY <1>3, <2>2 DEF Core, TypeOK
    <3> QED
      BY <3>1, RowTypes DEF Exists
  <2> QED
    BY <2>1, <2>2
<1>5. rows' \in [Ids -> Row \cup {NoRow}]
  <2>1. DOMAIN rows' = Ids /\ rows' = [j \in Ids |-> rows'[j]]
    BY <1>3 DEF Core, TypeOK
  <2>2. \A j \in Ids : rows'[j] \in Row \cup {NoRow}
    BY <1>4
  <2> QED
    BY <2>1, <2>2
<1>6. RowsKept
  <2>1. ASSUME NEW j \in Ids, rows'[j] # NoRow, rows'[j].parent # 0 PROVE rows'[rows'[j].parent] # NoRow
    <3>1. rows[j] # NoRow /\ rows'[j].parent = rows[j].parent
      BY <1>4, <2>1
    <3>2. rows[j].parent \in Ids /\ rows[rows[j].parent] # NoRow
      BY <2>1, <3>1, RowTypes DEF Core, TypeOK, Exists
    <3> QED
      BY <1>4, <3>1, <3>2
  <2> QED
    BY <1>4, <1>5, <2>1 DEF RowsKept
<1>7. Seen'
  BY <1>3, <1>4 DEF Core, Seen, Exists
<1>8. NoStrayChild'
  <2> SUFFICES ASSUME NEW j \in Ids, rows'[j] # NoRow, ~rows'[j].evicted,
                      NEW p, p = rows'[j].parent, p # 0, rows'[p].evicted
               PROVE  j > rows'[p].upto
    BY DEF NoStrayChild, Live, Exists
  <2>1. Live(j) /\ rows[j].parent = p
    BY <1>4 DEF Live, Exists
  <2>2. p \in Ids /\ rows[p] # NoRow
    BY <2>1, RowTypes DEF Core, TypeOK, Exists, Live
  <2> QED
    BY <1>4, <2>1, <2>2 DEF Core, NoStrayChild
<1>9. Idle \in Request /\ Idle.at = "idle"
  BY DEF Request, Idle
<1>10. TypesMove
  BY <1>3 DEF TypesMove, Core, TypeOK
<1> QED
  BY <1>3, <1>6, <1>7, <1>8, <1>9, <1>10, CoreOfKeptRows

-----------------------------------------------------------------------------
(* Insertions                                                              *)

\* A step to a request that says no more than where it is.
LEMMA Quiet ==
    ASSUME NEW r \in Request, r.at \notin {"clean", "detach", "insert"}
    PROVE  Sound(r)
BY DEF Sound

LEMMA InsertCore == ASSUME Core, NEW q \in Requests, Insert(q) PROVE Core'
<1>1. PICK r : r = req[q]
  OBVIOUS
<1>2. r \in Entering /\ r.at = "insert" /\ FoundParent(r) /\ r \in Request
  BY <1>1, Shape, SoundNow DEF Insert, Core, Sound
<1> DEFINE k == inserted + 1
           up == r.parent
           new == [r EXCEPT !.at = "settle"]
           row == [ws |-> r.ws, name |-> r.name, via |-> "proven", parent |-> up,
                   record |-> 0, evicted |-> FALSE, upto |-> 0]
           fits == /\ \A i \in Ids : Live(i) => rows[i].name # r.name
                   /\ up # 0 => Exists(up)
<1>3. /\ IF fits THEN inserted < MaxRows /\ inserted' = k /\ rows' = [rows EXCEPT ![k] = row]
                      /\ req' = [req EXCEPT ![q] = new]
                 ELSE req' = [req EXCEPT ![q] = Idle] /\ UNCHANGED <<rows, inserted>>
      /\ UNCHANGED <<claims, zone, issued, stray, late, faults>>
  BY <1>1 DEF Insert, Goto, Over
<1>4. TypesMove
  BY <1>3 DEF TypesMove, Core, TypeOK
<1>5. CASE ~fits
  <2>1. Sound(Idle)
    BY Quiet DEF Request, Idle
  <2> QED
    BY <1>3, <1>4, <1>5, <2>1, CoreKept
<1>6. CASE fits
  <2>1. /\ k \in Ids /\ k \in Nat /\ inserted \in Nat /\ k = inserted + 1 /\ k # 0
        /\ up \in 0..MaxRows /\ r.ws \in Workspaces /\ r.name \in Names
    BY <1>2, <1>3, <1>6, RowTypes DEF Ids, Entering
  <2> HIDE DEF k
  <2>2. rows[k] = NoRow /\ \A i \in Ids : Exists(i) => i # k
    BY <2>1 DEF Core, Given, Exists
  <2>3. row \in Row /\ row # NoRow
    <3>1. 0 \in 0..MaxRows /\ 0 \in 0..MaxRecords
      BY RowTypes
    <3>2. row \in Row
      BY <2>1, <3>1 DEF Row
    <3> QED
      BY <3>2, RowsAreNoNoRow
  <2>4. /\ rows'[k] = row /\ \A i \in Ids : i # k => rows'[i] = rows[i]
        /\ rows' \in [Ids -> Row \cup {NoRow}]
    BY <1>3, <1>6, <2>1, <2>3 DEF Core, TypeOK
  <2>5. /\ row.ws = r.ws /\ row.name = r.name /\ row.parent = up /\ ~row.evicted
    OBVIOUS
  <2> HIDE DEF row
  <2>6. up # 0 => /\ up \in Ids /\ up # k /\ up <= inserted /\ rows[up] # NoRow
                  /\ rows[up].ws = r.ws /\ rows[up].name \in Parents(r.name)
    <3> SUFFICES ASSUME up # 0
                 PROVE  /\ up \in Ids /\ up # k /\ up <= inserted /\ rows[up] # NoRow
                        /\ rows[up].ws = r.ws /\ rows[up].name \in Parents(r.name)
      OBVIOUS
    <3>1. up \in Ids
      BY <2>1 DEF Ids
    <3>2. Exists(up) /\ up <= inserted /\ rows[up].ws = r.ws /\ rows[up].name \in Parents(r.name)
      BY <1>2, <1>6 DEF FoundParent
    <3> QED
      BY <2>2, <3>1, <3>2 DEF Exists
  <2>7. \A i \in Ids : rows'[i] # NoRow => i = k \/ (i # k /\ rows[i] # NoRow /\ rows'[i] = rows[i])
    BY <2>4
  <2>8. \A i \in Ids : rows[i] # NoRow => rows'[i] = rows[i] /\ i # k
    BY <2>2, <2>4 DEF Exists
  <2>9. \A i \in Ids : rows'[i] # NoRow /\ rows'[i].parent # 0 =>
            /\ rows'[rows'[i].parent] # NoRow
            /\ rows'[rows'[i].parent].ws = rows'[i].ws
            /\ rows'[rows'[i].parent].name \in Parents(rows'[i].name)
    <3> SUFFICES ASSUME NEW i \in Ids, rows'[i] # NoRow, NEW p, p = rows'[i].parent, p # 0
                 PROVE  /\ rows'[p] # NoRow /\ rows'[p].ws = rows'[i].ws
                        /\ rows'[p].name \in Parents(rows'[i].name)
      OBVIOUS
    <3>1. CASE i = k
      BY <2>4, <2>5, <2>6, <2>8, <3>1
    <3>2. CASE i # k
      <4>1. Exists(i) /\ rows'[i] = rows[i]
        BY <2>7, <3>2 DEF Exists
      <4>2. p \in Ids /\ rows[p] # NoRow /\ rows[p].ws = rows[i].ws /\ rows[p].name \in Parents(rows[i].name)
        BY <4>1, RowTypes DEF Core, TypeOK, ParentNames, Exists
      <4> QED
        BY <2>8, <4>1, <4>2
    <3> QED
      BY <3>1, <3>2
  <2>10. Given' /\ ParentNames'
    <3>1. inserted' = k /\ inserted < k
      BY <1>3, <1>6, <2>1 DEF k
    <3>2. \A i \in Ids : rows'[i] # NoRow => i <= k
      <4> SUFFICES ASSUME NEW i \in Ids, rows'[i] # NoRow PROVE i <= k
        OBVIOUS
      <4>1. i = k \/ i <= inserted
        BY <2>7 DEF Core, Given, Exists
      <4> QED
        BY <2>1, <4>1 DEF Ids
    <3> QED
      BY <2>9, <3>1, <3>2 DEF Given, ParentNames, Exists
  <2>11. Unique'
    BY <1>6, <2>4, <2>5, <2>7 DEF Core, Unique, Live, Exists
  <2>12. inserted' = k /\ inserted <= k /\ inserted' \in 0..MaxRows
    <3>1. inserted' = k /\ k <= MaxRows
      BY <1>3, <1>6, <2>1, RowTypes DEF k
    <3> QED
      BY <2>1, <3>1, RowTypes
  <2>13. Seen'
    <3> SUFFICES ASSUME NEW i \in Ids, rows'[i] # NoRow, rows'[i].evicted PROVE rows'[i].upto <= k
      BY <2>12 DEF Seen, Exists
    <3>1. Exists(i) /\ rows'[i] = rows[i] /\ rows[i].upto <= inserted /\ rows[i].upto \in Nat
      BY <2>4, <2>5, <2>7, RowTypes DEF Core, Seen, Exists
    <3> QED
      BY <2>1, <3>1
  <2>14. NoStrayChild'
    <3> SUFFICES ASSUME NEW i \in Ids, rows'[i] # NoRow, ~rows'[i].evicted,
                        NEW p, p = rows'[i].parent, p # 0, rows'[p].evicted
                 PROVE  i > rows'[p].upto
      BY DEF NoStrayChild, Live, Exists
    <3>1. CASE i = k
      <4>1. p = up /\ p \in Ids /\ rows[p] # NoRow /\ rows'[p] = rows[p]
        BY <2>4, <2>5, <2>6, <2>8, <3>1
      <4>2. rows[p].upto <= inserted /\ rows[p].upto \in Nat
        BY <4>1, RowTypes DEF Core, Seen, Exists
      <4> QED
        BY <2>1, <3>1, <4>1, <4>2
    <3>2. CASE i # k
      <4>1. Exists(i) /\ Live(i) /\ rows[i].parent = p
        BY <2>7, <3>2 DEF Live, Exists
      <4>2. p \in Ids /\ rows[p] # NoRow
        BY <4>1, RowTypes DEF Core, TypeOK, Exists
      <4> QED
        BY <2>8, <4>1, <4>2 DEF Core, NoStrayChild
    <3> QED
      BY <3>1, <3>2
  <2>15. ASSUME NEW t, Sound(t) PROVE /\ t.at \in {"clean", "detach"} => TreeOK(t)'
                                      /\ t.at = "insert" => FoundParent(t)'
    <3>1. ASSUME t.at \in {"clean", "detach"} PROVE TreeOK(t)'
      <4>1. t \in Evicting /\ TreeOK(t) /\ t.tree # <<>> /\ t.upto <= inserted /\ t.upto \in Nat
        BY <2>15, <3>1, Shape, RowTypes DEF Sound, TreeOK, Evicting
      <4>2. /\ Len(t.tree) \in Nat /\ Len(t.tree) >= 1
            /\ \A m \in 1..Len(t.tree) : t.tree[m].id \in Ids
        BY <4>1, TreeTypes
      <4>3. ASSUME NEW m \in 1..Len(t.tree), NEW i, i = t.tree[m].id
            PROVE  /\ i <= inserted' /\ Takes(t, i)' /\ rows'[i] = rows[i]
        <5>1. i \in Ids /\ i <= inserted /\ Takes(t, i)
          BY <4>1, <4>2, <4>3 DEF TreeOK
        <5>2. i # k /\ i <= k
          BY <2>1, <5>1 DEF Ids
        <5> QED
          BY <2>4, <2>12, <5>1, <5>2 DEF Takes, Exists
      <4>4. ASSUME NEW m \in 1..(Len(t.tree) - 1), NEW i, i = t.tree[m].id, Exists(i)'
            PROVE  Parents(rows'[i].name) # {}
        <5>1. m \in 1..Len(t.tree)
          BY <4>2
        <5>2. rows'[i] = rows[i]
          BY <4>3, <4>4, <5>1
        <5> QED
          BY <4>1, <4>4, <5>2 DEF TreeOK, Exists
      <4>5. ASSUME NEW j \in Ids, Live(j)', rows'[j].parent = Root(t), j <= t.upto
            PROVE  \E m \in 1..(Len(t.tree) - 1) : t.tree[m].id = j
        <5>1. j # k
          BY <2>1, <4>1, <4>5 DEF Ids
        <5>2. Live(j) /\ rows[j].parent = Root(t)
          BY <2>4, <4>5, <5>1 DEF Live, Exists
        <5> QED
          BY <4>1, <4>5, <5>2 DEF TreeOK
      <4>6. t.upto <= inserted'
        BY <2>1, <2>12, <4>1
      <4> QED
        BY <4>1, <4>3, <4>4, <4>5, <4>6 DEF TreeOK, Root
    <3>2. ASSUME t.at = "insert" PROVE FoundParent(t)'
      <4> SUFFICES ASSUME t.parent # 0
                   PROVE  /\ t.parent <= inserted'
                          /\ rows'[t.parent] # NoRow => rows'[t.parent].ws = t.ws
                                                        /\ rows'[t.parent].name \in Parents(t.name)
        BY DEF FoundParent, Exists
      <4>1. t \in Entering /\ FoundParent(t)
        BY <2>15, <3>2, Shape DEF Sound
      <4>2. t.parent \in Ids /\ t.parent <= inserted
        BY <4>1, RowTypes DEF FoundParent, Entering, Ids
      <4>3. t.parent # k /\ t.parent <= k
        BY <2>1, <4>2 DEF Ids
      <4> QED
        BY <2>4, <2>12, <4>1, <4>2, <4>3 DEF FoundParent, Exists
    <3> QED
      BY <3>1, <3>2
  <2>16. /\ new \in Request /\ new.at = "settle"
    BY <1>2 DEF Request, Entering
  <2>17. ASSUME NEW p \in Requests, NEW t, t = req'[p]
         PROVE  /\ t \in Request
                /\ t.at \in {"clean", "detach"} => TreeOK(t)'
                /\ t.at = "insert" => FoundParent(t)'
    <3>1. t = IF p = q THEN new ELSE req[p]
      BY <1>3, <1>6, <2>17 DEF Core
    <3>2. CASE p = q
      BY <2>16, <3>1, <3>2
    <3>3. CASE p # q
      <4>1. Sound(t)
        BY <3>1, <3>3, SoundNow
      <4> QED
        BY <2>15, <4>1 DEF Sound
    <3> QED
      BY <3>2, <3>3
  <2>18. req' \in [Requests -> Request]
    BY <1>3, <1>6, <2>16 DEF Core
  <2>19. ASSUME NEW p \in Requests
         PROVE  /\ req'[p].at \in {"clean", "detach"} => TreeOK(req[p])'
                /\ req'[p].at = "insert" => FoundParent(req[p])'
    <3>1. PICK t : t = req'[p]
      OBVIOUS
    <3>2. /\ t.at \in {"clean", "detach"} => TreeOK(t)'
          /\ t.at = "insert" => FoundParent(t)'
      BY <2>17, <3>1
    <3> QED
      BY <3>1, <3>2 DEF TreeOK, Takes, Root, FoundParent
  <2>20. Trees'
    BY <2>19 DEF Trees, Evictions
  <2>21. Found'
    BY <2>19 DEF Found
  <2>22. \A p \in Requests :
           /\ req'[p].at \in {"taken", "prove", "claim", "count", "upsert", "find", "settle", "lose",
                             "clean", "detach", "parent", "insert", "publish", "store", "drop", "unpublish", "idle"}
           /\ req'[p].at \in {"clean", "detach"} => req'[p].tree \in Seq(Targets) /\ req'[p].tree # <<>>
    <3> SUFFICES ASSUME NEW p \in Requests, NEW t, t = req'[p]
               PROVE  /\ t.at \in {"taken", "prove", "claim", "count", "upsert", "find", "settle", "lose",
                             "clean", "detach", "parent", "insert", "publish", "store", "drop", "unpublish", "idle"}
                      /\ t.at \in {"clean", "detach"} => t.tree \in Seq(Targets) /\ t.tree # <<>>
      OBVIOUS
    <3>1. t \in Request /\ (t.at \in {"clean", "detach"} => t.tree # <<>>)
      BY <2>17 DEF TreeOK
    <3> QED
      BY <3>1, Shape DEF Evicting
  <2>23. TypeOK'
    BY <1>4, <2>4, <2>9, <2>12, <2>22 DEF TypeOK, TypesMove, Exists
  <2> QED
    BY <2>10, <2>11, <2>13, <2>14, <2>18, <2>20, <2>21, <2>23 DEF Core
<1> QED
  BY <1>5, <1>6

-----------------------------------------------------------------------------
(* The other steps                                                         *)

\* A request ends, or goes on in place.
LEMMA Ends == Sound(Idle) /\ Idle.at = "idle"
BY Quiet DEF Request, Idle

LEMMA GoesOn ==
    ASSUME NEW r \in Asking, NEW place \in {"claim", "count", "upsert"}
    PROVE  Sound([r EXCEPT !.at = place])
<1> DEFINE new == [r EXCEPT !.at = place]
<1>1. new \in Asking /\ new.at = place
  BY DEF Asking
<1> HIDE DEF new
<1>2. new \in Request
  BY <1>1 DEF Request
<1> QED
  BY <1>1, <1>2, Quiet DEF new

LEMMA AskCore ==
    ASSUME Core, NEW q \in Requests,
           Taken(q) \/ Proven(q) \/ Unproven(q) \/ ReadClaim(q) \/ CountClaims(q) \/ Upsert(q)
    PROVE  Core'
<1>1. PICK r : r = req[q]
  OBVIOUS
<1>2. r \in Asking
  BY <1>1, Shape DEF Core, Taken, Proven, Unproven, ReadClaim, CountClaims, Upsert
<1>3. UNCHANGED <<rows, inserted>>
  BY DEF Taken, Proven, Unproven, ReadClaim, CountClaims, Upsert
<1>4. \E new : Sound(new) /\ req' = [req EXCEPT ![q] = new]
  <2>1. CASE Proven(q)
    <3> DEFINE new == [at |-> "find", ws |-> r.ws, name |-> r.name, tree |-> <<>>]
    <3>1. req' = [req EXCEPT ![q] = new]
      BY <1>1, <2>1 DEF Proven
    <3>2. new \in Request /\ new.at = "find"
      BY <1>2 DEF Asking, Finding, Request
    <3> HIDE DEF new
    <3> QED
      BY <3>1, <3>2, Quiet
  <2>2. CASE Taken(q) \/ Upsert(q)
    BY <2>2, Ends DEF Taken, Upsert, Over
  <2>3. CASE Unproven(q) \/ ReadClaim(q) \/ CountClaims(q)
    <3>1. \/ req' = [req EXCEPT ![q] = Idle]
          \/ \E place \in {"claim", "count", "upsert"} : req' = [req EXCEPT ![q] = [r EXCEPT !.at = place]]
      BY <1>1, <2>3 DEF Unproven, ReadClaim, CountClaims, Over, Goto
    <3> QED
      BY <1>2, <3>1, Ends, GoesOn
  <2> QED
    BY <2>1, <2>2, <2>3
<1>5. r.ws \in Workspaces /\ r.name \in Names
  BY <1>2 DEF Asking
<1>6. claims' \in [Workspaces -> [Names -> {"none", "pending", "lost"}]]
  BY <1>1, <1>5 DEF Taken, Proven, Unproven, ReadClaim, CountClaims, Upsert, Core, TypeOK
<1>7. late' \subseteq Workspaces \X Names /\ UNCHANGED <<zone, issued, stray, faults>>
  BY <1>1, <1>5 DEF Taken, Proven, Unproven, ReadClaim, CountClaims, Upsert, Core, TypeOK
<1>8. TypesMove
  BY <1>6, <1>7 DEF TypesMove, Core, TypeOK
<1> QED
  BY <1>3, <1>4, <1>8, CoreKept

LEMMA EnterCore ==
    ASSUME Core, NEW q \in Requests,
           FindHolder(q) \/ Clean(q) \/ CleanFails(q) \/ NotSetUp(q) \/ FindParent(q) \/ Settle(q) \/ Lose(q)
    PROVE  Core'
<1>1. PICK r : r = req[q]
  OBVIOUS
<1>2. r \in Request /\ Sound(r)
  BY <1>1, SoundNow DEF Core
<1>3. UNCHANGED <<rows, inserted>>
  BY DEF FindHolder, FindAmong, Clean, CleanFails, NotSetUp, FindParent, Settle, Lose
<1>4. \E new : Sound(new) /\ req' = [req EXCEPT ![q] = new]
  <2>1. CASE FindHolder(q)
    <3>1. r \in Finding /\ r.at = "find"
      BY <1>1, <1>2, <2>1, Shape DEF FindHolder, FindAmong
    <3>2. r.ws \in Workspaces /\ r.name \in Names
      BY <3>1 DEF Finding
    <3>3. CASE req' = [req EXCEPT ![q] = [r EXCEPT !.at = "parent"]]
      <4> DEFINE new == [r EXCEPT !.at = "parent"]
      <4>1. new \in Request /\ new.at = "parent"
        BY <3>1 DEF Finding, Request
      <4> HIDE DEF new
      <4> QED
        BY <3>3, <4>1, Quiet DEF new
    <3>4. CASE \E t \in UNION {TreesOf(i) : i \in Victims(r.ws, r.name)} :
                   req' = [req EXCEPT ![q] = [at |-> "clean", ws |-> r.ws, name |-> r.name, tree |-> t, upto |-> inserted]]
      <4>1. PICK t \in UNION {TreesOf(i) : i \in Victims(r.ws, r.name)} :
                     req' = [req EXCEPT ![q] = [at |-> "clean", ws |-> r.ws, name |-> r.name, tree |-> t, upto |-> inserted]]
        BY <3>4
      <4>2. PICK i \in Victims(r.ws, r.name) : t \in TreesOf(i)
        OBVIOUS
      <4>3. PICK new : new = [at |-> "clean", ws |-> r.ws, name |-> r.name, tree |-> t, upto |-> inserted]
        OBVIOUS
      <4>4. Sound(new)
        BY <3>2, <4>2, <4>3, FoundTree
      <4> QED
        BY <4>1, <4>3, <4>4
    <3> QED
      BY <1>1, <2>1, <3>3, <3>4 DEF FindHolder, FindAmong, Goto
  <2>2. CASE Clean(q) \/ CleanFails(q)
    <3> DEFINE new == [r EXCEPT !.at = "detach"]
    <3>1. r \in Evicting /\ TreeOK(r)
      BY <1>1, <1>2, <2>2, Shape DEF Clean, CleanFails, Sound
    <3>2. req' = [req EXCEPT ![q] = new]
      BY <1>1, <2>2 DEF Clean, CleanFails, Goto
    <3>3. /\ new \in Evicting /\ new.at = "detach" /\ new.tree = r.tree /\ new.upto = r.upto
          /\ new.ws = r.ws /\ new.name = r.name
      BY <3>1 DEF Evicting
    <3> HIDE DEF new
    <3>4. TreeOK(new)
      BY <3>1, <3>3 DEF TreeOK, Takes, Root
    <3> QED
      BY <3>2, <3>3, <3>4 DEF Sound, Request
  <2>3. CASE NotSetUp(q) \/ Lose(q)
    BY <2>3, Ends DEF NotSetUp, Lose, Over
  <2>4. CASE FindParent(q)
    <3> DEFINE own == {i \in Ids : \E p \in Parents(r.name) : Holds(i, r.ws, p)}
    <3>1. r \in Finding \cup Evicting
      BY <1>1, <1>2, <2>4, Shape DEF FindParent
    <3>2. r.ws \in Workspaces /\ r.name \in Names
      BY <3>1 DEF Finding, Evicting
    <3>3. PICK up : up = IF own = {} THEN 0 ELSE CHOOSE i \in own : TRUE
      OBVIOUS
    <3>4. PICK new : new = [at |-> "insert", ws |-> r.ws, name |-> r.name, tree |-> <<>>, parent |-> up]
      OBVIOUS
    <3>5. req' = [req EXCEPT ![q] = new]
      BY <1>1, <2>4, <3>3, <3>4 DEF FindParent
    <3>6. up = 0 \/ up \in own
      BY <3>3
    <3>7. up \in 0..MaxRows
      BY <3>6, RowTypes DEF Ids
    <3>8. new \in Entering /\ new.at = "insert" /\ new.parent = up /\ new.ws = r.ws /\ new.name = r.name
      BY <3>2, <3>4, <3>7 DEF Entering
    <3>9. FoundParent(new)
      <4> SUFFICES ASSUME up \in own PROVE FoundParent(new)
        BY <3>6, <3>8 DEF FoundParent
      <4>1. up \in Ids /\ Exists(up) /\ rows[up].ws = r.ws /\ rows[up].name \in Parents(r.name)
        BY DEF Holds, Live
      <4>2. up <= inserted
        BY <4>1 DEF Core, Given
      <4> QED
        BY <3>8, <4>1, <4>2 DEF FoundParent
    <3> QED
      BY <3>5, <3>8, <3>9 DEF Sound, Request
  <2>5. CASE Settle(q)
    <3> DEFINE new == [r EXCEPT !.at = "lose"]
    <3>1. r \in Entering
      BY <1>1, <1>2, <2>5, Shape DEF Settle
    <3>2. req' = [req EXCEPT ![q] = new]
      BY <1>1, <2>5 DEF Settle, Goto
    <3>3. new \in Request /\ new.at = "lose"
      BY <3>1 DEF Entering, Request
    <3> HIDE DEF new
    <3> QED
      BY <3>2, <3>3, Quiet
  <2> QED
    BY <2>1, <2>2, <2>3, <2>4, <2>5
<1>5. claims' \in [Workspaces -> [Names -> {"none", "pending", "lost"}]]
  <2>1. CASE Settle(q)
    BY <2>1 DEF Settle, Core, TypeOK
  <2>2. CASE Lose(q)
    BY <2>2 DEF Lose, Core, TypeOK
  <2> QED
    BY <2>1, <2>2 DEF FindHolder, FindAmong, Clean, CleanFails, NotSetUp, FindParent, Core, TypeOK
<1>6. issued' = issued /\ late' = late /\ zone' \subseteq zone /\ stray \subseteq stray' /\ stray' \subseteq stray \cup zone
  BY DEF FindHolder, FindAmong, Clean, CleanFails, NotSetUp, FindParent, Settle, Lose
<1>7. faults' \in 0..MaxFaults
  BY LegacyAssumption DEF FindHolder, FindAmong, Clean, CleanFails, NotSetUp, FindParent, Settle, Lose, Core, TypeOK
<1>8. TypesMove
  BY <1>5, <1>6, <1>7 DEF TypesMove, Core, TypeOK
<1> QED
  BY <1>3, <1>4, <1>8, CoreKept

LEMMA RecordCore ==
    ASSUME Core, NEW q \in Requests,
           Publish(q) \/ PublishFails(q) \/ Unpublish(q) \/ UnpublishFails(q) \/ Die(q)
    PROVE  Core'
<1>1. PICK r : r = req[q]
  OBVIOUS
<1>2. r \in Request
  BY <1>1 DEF Core
<1>3. UNCHANGED <<rows, inserted>>
  BY DEF Publish, PublishFails, Unpublish, UnpublishFails, Die
<1>4. \E new : Sound(new) /\ req' = [req EXCEPT ![q] = new]
  <2>1. CASE Publish(q)
    <3> DEFINE new == [at |-> "store", id |-> r.id, record |-> issued + 1]
    <3>1. r \in Publishing /\ issued < MaxRecords /\ req' = [req EXCEPT ![q] = new]
      BY <1>1, <1>2, <2>1, Shape DEF Publish
    <3>2. issued + 1 \in 0..MaxRecords
      BY <3>1, RowTypes
    <3>3. new \in Request /\ new.at = "store"
      BY <3>1, <3>2 DEF Publishing, Handling, Request
    <3> HIDE DEF new
    <3> QED
      BY <3>1, <3>3, Quiet
  <2>2. CASE PublishFails(q) \/ Unpublish(q) \/ UnpublishFails(q) \/ Die(q)
    BY <2>2, Ends DEF PublishFails, Unpublish, UnpublishFails, Die, Over
  <2> QED
    BY <2>1, <2>2
<1>5. claims' = claims /\ late' = late
  BY DEF Publish, PublishFails, Unpublish, UnpublishFails, Die
<1>6. faults' \in 0..MaxFaults
  BY LegacyAssumption DEF Publish, PublishFails, Unpublish, UnpublishFails, Die, Core, TypeOK
<1>7. issued' \in 0..MaxRecords /\ zone' \subseteq 1..issued' /\ stray' \subseteq 1..issued'
  <2>1. CASE Publish(q)
    <3>1. issued' = issued + 1 /\ zone' = zone \cup {issued + 1} /\ stray' = stray /\ issued < MaxRecords
      BY <2>1 DEF Publish
    <3>2. 1..issued \subseteq 1..(issued + 1) /\ issued + 1 \in 1..(issued + 1) /\ issued + 1 \in 0..MaxRecords
      BY <3>1, RowTypes
    <3> QED
      BY <3>1, <3>2 DEF Core, TypeOK
  <2>2. CASE PublishFails(q) \/ Unpublish(q) \/ UnpublishFails(q) \/ Die(q)
    <3>1. issued' = issued /\ zone' \subseteq zone /\ stray' \subseteq stray \cup zone
      BY <2>2 DEF PublishFails, Unpublish, UnpublishFails, Die
    <3> QED
      BY <3>1 DEF Core, TypeOK
  <2> QED
    BY <2>1, <2>2
<1>8. TypesMove
  BY <1>5, <1>6, <1>7 DEF TypesMove, Core, TypeOK
<1> QED
  BY <1>3, <1>4, <1>8, CoreKept

LEMMA StartCore ==
    ASSUME Core, NEW q \in Requests,
           \/ \E w \in Workspaces, n \in Names : StartAdd(q, w, n) \/ StartVerify(q, w, n)
           \/ \E i \in Ids : StartProvision(q, i) \/ StartDelete(q, i)
    PROVE  Core'
<1>1. UNCHANGED <<rows, inserted, claims, zone, issued, stray, late, faults>>
  BY DEF StartAdd, StartVerify, StartProvision, StartDelete
<1>2. \E new : Sound(new) /\ req' = [req EXCEPT ![q] = new]
  <2>1. ASSUME NEW w \in Workspaces, NEW n \in Names, StartAdd(q, w, n) \/ StartVerify(q, w, n)
        PROVE  \E new : Sound(new) /\ req' = [req EXCEPT ![q] = new]
    <3> DEFINE ours == [at |-> "parent", ws |-> w, name |-> n, tree |-> <<>>]
               asked(place, claimed) == [at |-> place, ws |-> w, name |-> n, claimed |-> claimed, tree |-> <<>>]
    <3>1. \/ req' = [req EXCEPT ![q] = ours]
          \/ \E place \in {"prove", "taken"}, claimed \in BOOLEAN : req' = [req EXCEPT ![q] = asked(place, claimed)]
      BY <2>1 DEF StartAdd, StartVerify
    <3>2. CASE req' = [req EXCEPT ![q] = ours]
      <4>1. ours \in Request /\ ours.at = "parent"
        BY DEF Finding, Request
      <4> HIDE DEF ours
      <4> QED
        BY <3>2, <4>1, Quiet
    <3>3. ASSUME NEW place \in {"prove", "taken"}, NEW claimed \in BOOLEAN, req' = [req EXCEPT ![q] = asked(place, claimed)]
          PROVE  \E new : Sound(new) /\ req' = [req EXCEPT ![q] = new]
      <4> DEFINE new == asked(place, claimed)
      <4>1. new \in Request /\ new.at = place
        BY DEF Asking, Request
      <4>2. req' = [req EXCEPT ![q] = new]
        BY <3>3
      <4> HIDE DEF new
      <4> QED
        BY <4>1, <4>2, Quiet
    <3> QED
      BY <3>1, <3>2, <3>3
  <2>2. ASSUME NEW i \in Ids, StartProvision(q, i) PROVE \E new : Sound(new) /\ req' = [req EXCEPT ![q] = new]
    <3> DEFINE new == [at |-> "publish", id |-> i]
    <3>1. req' = [req EXCEPT ![q] = new]
      BY <2>2 DEF StartProvision
    <3>2. new \in Request /\ new.at = "publish"
      BY DEF Publishing, Request
    <3> HIDE DEF new
    <3> QED
      BY <3>1, <3>2, Quiet
  <2>3. ASSUME NEW i \in Ids, StartDelete(q, i) PROVE \E new : Sound(new) /\ req' = [req EXCEPT ![q] = new]
    <3> DEFINE new == [at |-> "drop", id |-> i, record |-> rows[i].record]
    <3>1. req' = [req EXCEPT ![q] = new] /\ Exists(i)
      BY <2>3 DEF StartDelete, Live
    <3>2. new \in Request /\ new.at = "drop"
      BY <3>1, RowTypes DEF Handling, Request
    <3> HIDE DEF new
    <3> QED
      BY <3>1, <3>2, Quiet
  <2> QED
    BY <2>1, <2>2, <2>3
<1>3. TypesMove
  BY <1>1 DEF TypesMove, Core, TypeOK
<1> QED
  BY <1>1, <1>2, <1>3, CoreKept

LEMMA GiveUpCore == ASSUME Core, NEW w \in Workspaces, NEW n \in Names, GiveUp(w, n) PROVE Core'
<1>1. PICK q \in Requests : TRUE
  BY LegacyAssumption
<1>2. PICK r : r = req[q]
  OBVIOUS
<1>3. Sound(r) /\ req' = [req EXCEPT ![q] = r] /\ UNCHANGED <<rows, inserted, zone, issued, stray, late, faults>>
  BY <1>2, SoundNow DEF GiveUp, Core
<1>4. claims' \in [Workspaces -> [Names -> {"none", "pending", "lost"}]]
  BY DEF GiveUp, Core, TypeOK
<1>5. TypesMove
  BY <1>3, <1>4 DEF TypesMove, Core, TypeOK
<1> QED
  BY <1>3, <1>5, CoreKept

LEMMA NextCore == ASSUME Core, Next PROVE Core'
<1>1. ASSUME NEW q \in Requests, Step(q) PROVE Core'
  BY <1>1, AskCore, EnterCore, RecordCore, DetachCore, InsertCore, StoreCore, DropCore DEF Step
<1>2. ASSUME NEW i \in Ids, Purge(i) PROVE Core'
  BY <1>2, PurgeCore, LegacyAssumption
<1> QED
  BY <1>1, <1>2, StartCore, GiveUpCore DEF Next

LEMMA InitCore == ASSUME Init PROVE Core
<1> DEFINE n == Len(Legacy)
<1>1. /\ n \in Nat /\ n <= MaxRows /\ MaxRows \in Nat /\ MaxRecords \in Nat /\ MaxFaults \in Nat
      /\ \A i \in 1..n : Legacy[i] \in Row
  BY LegacyAssumption, LenProperties
<1> HIDE DEF n
<1>2. /\ \A i \in Ids : rows[i] = IF i <= n THEN Legacy[i] ELSE NoRow
      /\ \A i \in Ids : i <= n => i \in 1..n
      /\ \A i \in 1..n : i \in Ids
  BY <1>1 DEF Init, Ids, n
<1>3. \A i \in Ids : Exists(i) <=> i \in 1..n
  <2>1. \A i \in 1..n : Legacy[i] # NoRow
    BY <1>1, RowsAreNoNoRow
  <2> QED
    BY <1>2, <2>1 DEF Exists
<1>4. \A i \in 1..n : rows[i] = Legacy[i] /\ Exists(i) /\ i \in Ids /\ i <= n
  BY <1>2, <1>3 DEF Ids
<1>5. rows \in [Ids -> Row \cup {NoRow}]
  BY <1>1, <1>2 DEF Init
<1>6. \A i \in 1..n : rows[i].parent # 0 =>
          /\ rows[i].parent \in 1..n /\ Exists(rows[i].parent)
          /\ rows[rows[i].parent].ws = rows[i].ws
          /\ rows[rows[i].parent].name \in Parents(rows[i].name)
  <2> SUFFICES ASSUME NEW i \in 1..n, NEW p, p = Legacy[i].parent, p # 0
               PROVE  /\ p \in 1..n /\ Exists(p)
                      /\ rows[p].ws = Legacy[i].ws /\ rows[p].name \in Parents(Legacy[i].name)
    BY <1>4
  <2>1. /\ p <= n /\ Legacy[p].ws = Legacy[i].ws /\ Legacy[p].name \in Parents(Legacy[i].name)
    BY LegacyAssumption DEF n
  <2>2. p \in 0..MaxRows
    BY <1>1 DEF Row
  <2>3. p \in 1..n
    BY <1>1, <2>1, <2>2
  <2> QED
    BY <1>4, <2>1, <2>3
<1>7. req = [q \in Requests |-> Idle] /\ inserted = n
  BY DEF Init, n
<1>8. req \in [Requests -> Request] /\ \A q \in Requests : req[q] = Idle
  BY <1>7, Ends DEF Sound
<1>9. issued \in 0..MaxRecords /\ zone = 1..issued
  BY LegacyAssumption DEF Init
<1>10. TypeOK
  <2>1. \A i \in Ids : Exists(i) /\ rows[i].parent # 0 =>
           Exists(rows[i].parent) /\ rows[rows[i].parent].ws = rows[i].ws
    BY <1>3, <1>6
  <2>2. inserted \in 0..MaxRows
    BY <1>1, <1>7
  <2>3. claims \in [Workspaces -> [Names -> {"none", "pending", "lost"}]]
    BY DEF Init
  <2>4. faults \in 0..MaxFaults /\ stray = {} /\ late = {}
    BY <1>1 DEF Init
  <2> QED
    BY <1>5, <1>8, <1>9, <2>1, <2>2, <2>3, <2>4, Ends DEF TypeOK
<1>11. Given
  BY <1>3, <1>4, <1>7 DEF Given
<1>12. Unique
  <2>1. \A i, j \in 1..n : Legacy[i].name = Legacy[j].name => i = j
    BY LegacyAssumption DEF n
  <2> QED
    BY <1>3, <1>4, <2>1 DEF Unique, Live
<1>13. ParentNames
  BY <1>3, <1>6 DEF ParentNames
<1>14. \A i \in Ids : Exists(i) => ~rows[i].evicted
  BY <1>3, <1>4, LegacyAssumption DEF n
<1>15. Seen
  BY <1>14 DEF Seen
<1>16. NoStrayChild
  <2> SUFFICES ASSUME NEW i \in Ids, Live(i), rows[i].parent # 0 PROVE ~rows[rows[i].parent].evicted
    BY DEF NoStrayChild
  <2>1. rows[i].parent \in 1..n /\ Exists(rows[i].parent)
    BY <1>3, <1>6 DEF Live
  <2> QED
    BY <1>4, <1>14, <2>1
<1>17. Trees /\ Found
  BY <1>8, Ends DEF Trees, Found, Evictions
<1> QED
  BY <1>8, <1>10, <1>11, <1>12, <1>13, <1>15, <1>16, <1>17 DEF Core

\* The rows and the requests stay in order in every reachable state.
LEMMA CoreHolds == Spec => []Core
<1>1. Core /\ [Next]_vars => Core'
  <2> SUFFICES ASSUME Core, [Next]_vars PROVE Core'
    OBVIOUS
  <2>1. CASE Next
    BY <2>1, NextCore
  <2>2. CASE UNCHANGED vars
    <3>1. PICK q \in Requests : TRUE
      BY LegacyAssumption
    <3>2. PICK r : r = req[q]
      OBVIOUS
    <3>3. Sound(r) /\ req' = [req EXCEPT ![q] = r] /\ UNCHANGED <<rows, inserted>>
      BY <2>2, <3>2, SoundNow DEF vars, Core
    <3>4. TypesMove
      BY <2>2 DEF vars, TypesMove, Core, TypeOK
    <3> QED
      BY <3>3, <3>4, CoreKept
  <2> QED
    BY <2>1, <2>2
<1> QED
  BY <1>1, InitCore, PTL DEF Spec

-----------------------------------------------------------------------------
(* What a step does to the rows, in the words of the properties            *)

LEMMA DetachedRow ==
    ASSUME Core, NEW q \in Requests, Detach(q), NEW r, r = req[q], NEW i, i = r.tree[1].id
    PROVE  /\ r \in Evicting /\ r.at = "detach" /\ r.tree # <<>> /\ i \in Ids /\ Takes(r, i)
           /\ Target(q) = r.tree[1] /\ r.tree[1].record \in 0..MaxRecords
           /\ \A j \in Ids : j # i => rows'[j] = rows[j]
           /\ Exists(i) => /\ rows'[i] = [rows[i] EXCEPT !.evicted = TRUE, !.record = 0, !.upto = r.upto]
                           /\ rows'[i] # NoRow /\ rows'[i].evicted /\ rows'[i].record = 0
           /\ ~Exists(i) => rows' = rows
           /\ stray' = IF Exists(i) THEN stray \cup (zone \cap ({rows[i].record} \ {r.tree[1].record})) ELSE stray
<1>1. Sound(r) /\ r.at = "detach"
  BY SoundNow DEF Detach
<1>2. r \in Evicting /\ TreeOK(r) /\ r.tree # <<>>
  BY <1>1, Shape DEF Sound, TreeOK
<1>3. /\ Len(r.tree) >= 1 /\ Len(r.tree) \in Nat /\ i \in Ids /\ r.tree[1].record \in 0..MaxRecords
      /\ Head(r.tree) = r.tree[1]
  BY <1>2, TreeTypes
<1>4. Takes(r, i)
  BY <1>2, <1>3 DEF TreeOK
<1>5. Target(q) = r.tree[1]
  BY <1>3 DEF Target
<1>6. /\ rows' = IF Exists(i) THEN [rows EXCEPT ![i] = [rows[i] EXCEPT !.evicted = TRUE, !.record = 0, !.upto = r.upto]]
                 ELSE rows
      /\ stray' = IF Exists(i) THEN stray \cup (zone \cap ({rows[i].record} \ {r.tree[1].record})) ELSE stray
  BY <1>3, <1>5 DEF Detach, Core, TypeOK
<1>7. \A j \in Ids : j # i => rows'[j] = rows[j]
  BY <1>6 DEF Core, TypeOK
<1>8. ASSUME Exists(i)
      PROVE  /\ rows'[i] = [rows[i] EXCEPT !.evicted = TRUE, !.record = 0, !.upto = r.upto]
             /\ rows'[i] # NoRow /\ rows'[i].evicted /\ rows'[i].record = 0
  <2>1. rows'[i] = [rows[i] EXCEPT !.evicted = TRUE, !.record = 0, !.upto = r.upto]
    BY <1>3, <1>6, <1>8 DEF Core, TypeOK
  <2>2. rows[i] \in Row /\ r.upto \in 0..MaxRows /\ 0 \in 0..MaxRecords
    BY <1>2, <1>3, <1>8, RowTypes DEF Evicting
  <2>3. rows'[i] \in Row
    BY <2>1, <2>2 DEF Row
  <2> QED
    BY <2>1, <2>2, <2>3, RowsAreNoNoRow DEF Row
<1> QED
  BY <1>1, <1>2, <1>3, <1>4, <1>5, <1>6, <1>7, <1>8

LEMMA DetachedOnly ==
    ASSUME Core, NEW q \in Requests, Detach(q), NEW j \in Ids, j # Target(q).id
    PROVE  rows'[j] = rows[j]
BY DEF Detach, Core, TypeOK

LEMMA StoredRow ==
    ASSUME Core, NEW q \in Requests, Store(q), NEW r, r = req[q]
    PROVE  /\ r \in Handling /\ r.at = "store" /\ r.id \in Ids
           /\ \A j \in Ids : j # r.id => rows'[j] = rows[j]
           /\ \A j \in Ids : /\ Exists(j)' <=> Exists(j)
                             /\ Exists(j) => /\ rows'[j].ws = rows[j].ws /\ rows'[j].name = rows[j].name
                                             /\ rows'[j].via = rows[j].via /\ rows'[j].evicted = rows[j].evicted
           /\ Exists(r.id) => rows'[r.id].record = r.record
<1>1. r \in Handling /\ r.at = "store" /\ r.id \in Ids /\ r.record \in 0..MaxRecords
  <2>1. r \in Request /\ r.at = "store"
    BY DEF Store, Core
  <2>2. r \in Handling
    BY <2>1, Shape
  <2> QED
    BY <2>1, <2>2 DEF Handling
<1>2. rows' = IF Exists(r.id) THEN [rows EXCEPT ![r.id] = [rows[r.id] EXCEPT !.record = r.record]] ELSE rows
  BY <1>1 DEF Store, Core, TypeOK
<1>3. \A j \in Ids : j # r.id => rows'[j] = rows[j]
  BY <1>2 DEF Core, TypeOK
<1>4. ~Exists(r.id) => rows' = rows
  BY <1>2
<1>5. ASSUME Exists(r.id)
      PROVE  /\ rows'[r.id] # NoRow
             /\ rows'[r.id].ws = rows[r.id].ws /\ rows'[r.id].name = rows[r.id].name
             /\ rows'[r.id].via = rows[r.id].via /\ rows'[r.id].evicted = rows[r.id].evicted
             /\ rows'[r.id].record = r.record
  <2>1. rows'[r.id] = [rows[r.id] EXCEPT !.record = r.record] /\ rows[r.id] \in Row
    BY <1>1, <1>2, <1>5, RowTypes DEF Core, TypeOK
  <2>2. rows'[r.id] \in Row
    BY <1>1, <2>1 DEF Row
  <2> QED
    BY <2>1, <2>2, RowsAreNoNoRow DEF Row
<1> QED
  BY <1>1, <1>3, <1>4, <1>5 DEF Exists

\* The row that an insertion adds was not there; the others stay.
LEMMA InsertedRow ==
    ASSUME Core, NEW q \in Requests, Insert(q), NEW r, r = req[q]
    PROVE  /\ r \in Entering /\ r.at = "insert"
           /\ \/ rows' = rows /\ req' = [req EXCEPT ![q] = Idle]
              \/ /\ inserted + 1 \in Ids /\ ~Exists(inserted + 1)
                 /\ rows'[inserted + 1] = [ws |-> r.ws, name |-> r.name, via |-> "proven", parent |-> r.parent,
                                           record |-> 0, evicted |-> FALSE, upto |-> 0]
                 /\ \A j \in Ids : j # inserted + 1 => rows'[j] = rows[j]
                 /\ req' = [req EXCEPT ![q] = [r EXCEPT !.at = "settle"]]
<1>1. r \in Entering /\ r.at = "insert"
  <2>1. r \in Request /\ r.at = "insert"
    BY DEF Insert, Core
  <2> QED
    BY <2>1, Shape
<1>2. CASE rows' = rows /\ req' = [req EXCEPT ![q] = Idle]
  BY <1>1, <1>2
<1>3. CASE /\ inserted < MaxRows /\ req' = [req EXCEPT ![q] = [r EXCEPT !.at = "settle"]]
           /\ rows' = [rows EXCEPT ![inserted + 1] =
                  [ws |-> r.ws, name |-> r.name, via |-> "proven", parent |-> r.parent,
                   record |-> 0, evicted |-> FALSE, upto |-> 0]]
  <2>1. inserted + 1 \in Ids /\ inserted \in Nat
    BY <1>3, RowTypes DEF Ids
  <2>2. ~Exists(inserted + 1)
    BY <2>1 DEF Core, Given
  <2> QED
    BY <1>1, <1>3, <2>1, <2>2 DEF Core, TypeOK
<1> QED
  BY <1>2, <1>3 DEF Insert, Over, Goto

-----------------------------------------------------------------------------
(* Who loses a domain                                                      *)

LEMMA LosingStep ==
    ASSUME Core, [Next]_vars, NEW i \in Ids, Live(i), ~(Live(i))'
    PROVE  \E q \in Requests :
              \/ req[q].at = "drop" /\ req[q].id = i
              \/ /\ req[q].at = "detach" /\ Target(q).id = i /\ req[q].ws # rows[i].ws
                 /\ rows[i].name = req[q].name => rows[i].via = "legacy"
<1> DEFINE Goal(q) == \/ req[q].at = "drop" /\ req[q].id = i
                      \/ /\ req[q].at = "detach" /\ Target(q).id = i /\ req[q].ws # rows[i].ws
                         /\ rows[i].name = req[q].name => rows[i].via = "legacy"
<1>1. rows' # rows
  BY DEF Live, Exists
<1>2. ASSUME NEW q \in Requests, Detach(q) PROVE Goal(q)
  <2>0. PICK r : r = req[q]
    OBVIOUS
  <2>1. PICK k : k = r.tree[1].id
    OBVIOUS
  <2>2. r.at = "detach" /\ Takes(r, k) /\ Target(q) = r.tree[1]
    BY <1>2, <2>0, <2>1, DetachedRow
  <2>4. i # k => rows'[i] = rows[i]
    BY <1>2, <2>1, <2>2, DetachedOnly
  <2>3. i = k
    BY <2>4 DEF Live, Exists
  <2> QED
    BY <2>0, <2>1, <2>2, <2>3 DEF Takes, Live
<1>3. ASSUME NEW q \in Requests, Drop(q) PROVE Goal(q)
  <2>1. PICK r : r = req[q]
    OBVIOUS
  <2>2. r \in Handling /\ r.at = "drop"
    BY <1>3, <2>1, Shape DEF Drop, DropRow, Core
  <2>3. rows' = Without(r.id) /\ inserted' = inserted /\ r.id \in Ids
    BY <1>3, <2>1, <2>2 DEF Drop, DropRow, Handling
  <2>4. i = r.id
    BY <2>3, RowsWithout DEF Live
  <2> QED
    BY <2>1, <2>2, <2>4
<1>4. ASSUME NEW q \in Requests, Store(q) PROVE FALSE
  <2>1. PICK r : r = req[q]
    OBVIOUS
  <2> QED
    BY <1>4, <2>1, StoredRow DEF Live
<1>5. ASSUME NEW q \in Requests, Insert(q) PROVE FALSE
  <2>1. PICK r : r = req[q]
    OBVIOUS
  <2> QED
    BY <1>1, <1>5, <2>1, InsertedRow DEF Live, Exists
<1>6. ASSUME NEW k \in Ids, Purge(k) PROVE FALSE
  <2>1. rows' = Without(k) /\ inserted' = inserted /\ rows[k].evicted
    BY <1>6 DEF Purge
  <2> QED
    BY <2>1, RowsWithout DEF Live
<1>7. \/ \E q \in Requests : Detach(q) \/ Drop(q) \/ Store(q) \/ Insert(q)
      \/ \E k \in Ids : Purge(k)
  BY <1>1 DEF Next, Step, vars, Taken, Proven, Unproven, ReadClaim, CountClaims, Upsert, FindHolder, FindAmong,
              Clean, CleanFails, NotSetUp, FindParent, Settle, Lose, Publish, PublishFails, Unpublish,
              UnpublishFails, Die, StartAdd, StartVerify, StartProvision, StartDelete, GiveUp
<1> QED
  BY <1>2, <1>3, <1>4, <1>5, <1>6, <1>7

-----------------------------------------------------------------------------
(* The claims of the others                                                *)

\* Live rows only go; whose they were and how they were proven stays.
Fades == \A i \in Ids : Live(i)' => /\ Live(i) /\ rows'[i].ws = rows[i].ws
                                     /\ rows'[i].name = rows[i].name /\ rows'[i].via = rows[i].via
ClaimsFade == \A w \in Workspaces, n \in Names : claims'[w][n] = "pending" => claims[w][n] = "pending"

LEMMA OwnersFade ==
    ASSUME Fades, NEW w \in Workspaces, NEW n \in Names, OwnedByOther(w, n)'
    PROVE  OwnedByOther(w, n)
<1>1. PICK i \in Ids : \E v \in Workspaces \ {w} :
          Live(i)' /\ rows'[i].ws = v /\ rows'[i].name = n /\ rows'[i].via # "legacy"
  BY DEF OwnedByOther, Holds
<1> QED
  BY <1>1 DEF Fades, OwnedByOther, Holds

LEMMA OthersKept ==
    ASSUME Core, OthersLost, NEW q \in Requests, req[q].at \notin {"settle", "lose"},
           NEW new, req' = [req EXCEPT ![q] = new],
           Fades, ClaimsFade, late \subseteq late', faults > 0 => faults' > 0
    PROVE  OthersLost'
<1> SUFFICES ASSUME NEW w \in Workspaces, NEW n \in Names, claims'[w][n] = "pending", OwnedByOther(w, n)'
             PROVE  \/ faults' > 0 \/ <<w, n>> \in late'
                    \/ \E p \in Requests : req'[p].at \in {"settle", "lose"} /\ req'[p].name = n /\ req'[p].ws # w
  BY DEF OthersLost
<1>1. claims[w][n] = "pending" /\ OwnedByOther(w, n)
  BY OwnersFade DEF ClaimsFade
<1>2. \/ faults > 0 \/ <<w, n>> \in late
      \/ \E p \in Requests : req[p].at \in {"settle", "lose"} /\ req[p].name = n /\ req[p].ws # w
  BY <1>1 DEF OthersLost
<1>3. \A p \in Requests : p # q => req'[p] = req[p]
  BY Moved
<1> QED
  BY <1>2, <1>3

LEMMA DetachFades == ASSUME Core, NEW q \in Requests, Detach(q) PROVE Fades
<1>1. PICK r : r = req[q]
  OBVIOUS
<1>2. PICK i : i = r.tree[1].id
  OBVIOUS
<1>3. /\ Target(q).id = i /\ (~Exists(i) => rows' = rows) /\ (Exists(i) => rows'[i].evicted)
  BY <1>1, <1>2, DetachedRow
<1>4. ASSUME NEW j \in Ids, Live(j)' PROVE j # i \/ rows' = rows
  BY <1>3, <1>4 DEF Live, Exists
<1> QED
  BY <1>3, <1>4, DetachedOnly DEF Fades, Live, Exists

LEMMA RowFades ==
    ASSUME Core, NEW q \in Requests, Store(q) \/ Drop(q)
    PROVE  Fades
<1>1. PICK r : r = req[q]
  OBVIOUS
<1>2. CASE Store(q)
  BY <1>1, <1>2, StoredRow DEF Fades, Live
<1>3. CASE Drop(q)
  <2>1. r \in Handling /\ r.at = "drop"
    BY <1>1, <1>3, Shape DEF Drop, DropRow, Core
  <2>2. rows' = Without(r.id) /\ inserted' = inserted /\ r.id \in Ids
    BY <1>1, <1>3, <2>1 DEF Drop, DropRow, Handling
  <2> QED
    BY <2>2, RowsWithout DEF Fades, Live, RowsKept, Exists
<1> QED
  BY <1>2, <1>3

LEMMA PurgeFades == ASSUME Core, NEW i \in Ids, Purge(i) PROVE Fades
<1>1. rows' = Without(i) /\ inserted' = inserted
  BY DEF Purge
<1> QED
  BY <1>1, RowsWithout DEF Fades, Live, RowsKept, Exists

\* A workspace enters its claim: late, if another one has the name by now.
LEMMA UpsertLost == ASSUME Core, OthersLost, NEW q \in Requests, Upsert(q) PROVE OthersLost'
<1>1. PICK r : r = req[q]
  OBVIOUS
<1>2. r \in Asking /\ r.at = "upsert"
  BY <1>1, Shape DEF Core, Upsert
<1>3. /\ claims' = [claims EXCEPT ![r.ws] = [claims[r.ws] EXCEPT ![r.name] = IF claims[r.ws][r.name] = "none" THEN "pending" ELSE claims[r.ws][r.name]]]
      /\ late' = IF OwnedByOther(r.ws, r.name) THEN late \cup {<<r.ws, r.name>>} ELSE late
      /\ rows' = rows /\ faults' = faults /\ req' = [req EXCEPT ![q] = Idle]
      /\ r.ws \in Workspaces /\ r.name \in Names
  BY <1>1, <1>2 DEF Upsert, Over, Core, TypeOK, Asking
<1> SUFFICES ASSUME NEW w \in Workspaces, NEW n \in Names, claims'[w][n] = "pending", OwnedByOther(w, n)'
             PROVE  \/ faults' > 0 \/ <<w, n>> \in late'
                    \/ \E p \in Requests : req'[p].at \in {"settle", "lose"} /\ req'[p].name = n /\ req'[p].ws # w
  BY DEF OthersLost
<1>4. OwnedByOther(w, n)
  BY <1>3 DEF OwnedByOther, Holds, Live, Exists
<1>5. CASE w = r.ws /\ n = r.name
  BY <1>3, <1>4, <1>5
<1>6. CASE ~(w = r.ws /\ n = r.name)
  <2>1. claims[w][n] = "pending"
    BY <1>3, <1>6 DEF Core, TypeOK
  <2>2. \/ faults > 0 \/ <<w, n>> \in late
        \/ \E p \in Requests : req[p].at \in {"settle", "lose"} /\ req[p].name = n /\ req[p].ws # w
    BY <1>4, <2>1 DEF OthersLost
  <2>3. \A p \in Requests : p # q => req'[p] = req[p]
    BY <1>3, Moved
  <2> QED
    BY <1>1, <1>2, <1>3, <2>2, <2>3
<1> QED
  BY <1>5, <1>6

\* A workspace gets the name: the claims of the others are to be settled.
LEMMA InsertLost == ASSUME Core, OthersLost, NEW q \in Requests, Insert(q) PROVE OthersLost'
<1>1. PICK r : r = req[q]
  OBVIOUS
<1>2. UNCHANGED <<claims, late, faults>> /\ req[q].at = "insert"
  BY DEF Insert
<1>3. CASE rows' = rows /\ req' = [req EXCEPT ![q] = Idle]
  <2>1. Fades /\ ClaimsFade
    BY <1>2, <1>3 DEF Fades, ClaimsFade, Live, Exists
  <2>2. PICK new : new = Idle
    OBVIOUS
  <2>3. req' = [req EXCEPT ![q] = new]
    BY <1>3, <2>2
  <2> QED
    BY <1>2, <2>1, <2>3, OthersKept
<1>4. CASE /\ inserted + 1 \in Ids
           /\ rows'[inserted + 1] = [ws |-> r.ws, name |-> r.name, via |-> "proven", parent |-> r.parent,
                                     record |-> 0, evicted |-> FALSE, upto |-> 0]
           /\ \A j \in Ids : j # inserted + 1 => rows'[j] = rows[j]
           /\ req' = [req EXCEPT ![q] = [r EXCEPT !.at = "settle"]]
  <2>1. r \in Entering
    BY <1>1, InsertedRow
  <2>2. \A p \in Requests : req'[p] = IF p = q THEN [r EXCEPT !.at = "settle"] ELSE req[p]
    <3>1. PICK new : new = [r EXCEPT !.at = "settle"]
      OBVIOUS
    <3>2. req' = [req EXCEPT ![q] = new]
      BY <1>4, <3>1
    <3> QED
      BY <3>1, <3>2, Moved
  <2>3. req'[q].at = "settle" /\ req'[q].ws = r.ws /\ req'[q].name = r.name
    BY <2>1, <2>2 DEF Entering
  <2> SUFFICES ASSUME NEW w \in Workspaces, NEW n \in Names, claims'[w][n] = "pending", OwnedByOther(w, n)'
               PROVE  \/ faults' > 0 \/ <<w, n>> \in late'
                      \/ \E p \in Requests : req'[p].at \in {"settle", "lose"} /\ req'[p].name = n /\ req'[p].ws # w
    BY DEF OthersLost
  <2>4. PICK i \in Ids : Live(i)' /\ rows'[i].ws # w /\ rows'[i].ws \in Workspaces /\ rows'[i].name = n /\ rows'[i].via # "legacy"
    BY DEF OwnedByOther, Holds
  <2>5. CASE i = inserted + 1
    BY <1>4, <2>3, <2>4, <2>5
  <2>6. CASE i # inserted + 1
    <3>1. OwnedByOther(w, n)
      BY <1>4, <2>4, <2>6 DEF OwnedByOther, Holds, Live, Exists
    <3>2. \/ faults > 0 \/ <<w, n>> \in late
          \/ \E p \in Requests : req[p].at \in {"settle", "lose"} /\ req[p].name = n /\ req[p].ws # w
      BY <1>2, <3>1 DEF OthersLost
    <3>3. \A p \in Requests : req[p].at \in {"settle", "lose"} => req'[p] = req[p]
      BY <1>2, <2>2
    <3> QED
      BY <1>2, <3>2, <3>3
  <2> QED
    BY <2>5, <2>6
<1> QED
  BY <1>1, <1>3, <1>4, InsertedRow

LEMMA SettleLost == ASSUME Core, OthersLost, NEW q \in Requests, Settle(q) \/ Lose(q) PROVE OthersLost'
<1>1. PICK r : r = req[q]
  OBVIOUS
<1>2. r \in Entering /\ r.at \in {"settle", "lose"}
  BY <1>1, Shape DEF Core, Settle, Lose
<1>3. UNCHANGED <<rows, late, faults>> /\ r.ws \in Workspaces /\ r.name \in Names
  BY <1>2 DEF Settle, Lose, Entering
<1> SUFFICES ASSUME NEW w \in Workspaces, NEW n \in Names, claims'[w][n] = "pending", OwnedByOther(w, n)'
             PROVE  \/ faults' > 0 \/ <<w, n>> \in late'
                    \/ \E p \in Requests : req'[p].at \in {"settle", "lose"} /\ req'[p].name = n /\ req'[p].ws # w
  BY DEF OthersLost
<1>4. OwnedByOther(w, n)
  BY <1>3 DEF OwnedByOther, Holds, Live, Exists
<1>5. CASE Settle(q)
  <2>1. claims[w][n] = "pending"
    BY <1>1, <1>3, <1>5 DEF Settle, Core, TypeOK
  <2>2. PICK new : new = [r EXCEPT !.at = "lose"]
    OBVIOUS
  <2>3. req' = [req EXCEPT ![q] = new]
    BY <1>1, <1>5, <2>2 DEF Settle, Goto
  <2>4. new.at = "lose" /\ new.ws = r.ws /\ new.name = r.name
    BY <1>2, <2>2 DEF Entering
  <2>5. \A p \in Requests : req'[p] = IF p = q THEN new ELSE req[p]
    BY <2>3, Moved
  <2>6. \/ faults > 0 \/ <<w, n>> \in late
        \/ \E p \in Requests : req[p].at \in {"settle", "lose"} /\ req[p].name = n /\ req[p].ws # w
    BY <1>4, <2>1 DEF OthersLost
  <2> QED
    BY <1>1, <1>3, <2>4, <2>5, <2>6
<1>6. CASE Lose(q)
  <2>1. claims' = [v \in Workspaces |->
           IF v = r.ws THEN claims[v]
           ELSE [claims[v] EXCEPT ![r.name] = IF claims[v][r.name] = "none" THEN "none" ELSE "lost"]]
    BY <1>1, <1>6 DEF Lose
  <2>2. claims[w] \in [Names -> {"none", "pending", "lost"}]
    BY DEF Core, TypeOK
  <2>3. claims[w][n] = "pending" /\ (w = r.ws \/ n # r.name)
    BY <1>3, <2>1, <2>2
  <2>4. \/ faults > 0 \/ <<w, n>> \in late
        \/ \E p \in Requests : req[p].at \in {"settle", "lose"} /\ req[p].name = n /\ req[p].ws # w
    BY <1>4, <2>3 DEF OthersLost
  <2>5. \A p \in Requests : p # q => req'[p] = req[p]
    BY <1>6, Moved DEF Lose, Over
  <2> QED
    BY <1>1, <1>3, <2>3, <2>4, <2>5
<1> QED
  BY <1>5, <1>6

\* The steps that enter no claim, give no name away and settle nothing.
LEMMA OtherLost ==
    ASSUME Core, OthersLost, NEW q \in Requests,
           \/ Taken(q) \/ Proven(q) \/ Unproven(q) \/ ReadClaim(q) \/ CountClaims(q)
           \/ FindHolder(q) \/ Clean(q) \/ CleanFails(q) \/ Detach(q) \/ NotSetUp(q) \/ FindParent(q)
           \/ Publish(q) \/ PublishFails(q) \/ Store(q) \/ Drop(q) \/ Unpublish(q) \/ UnpublishFails(q)
           \/ \E w \in Workspaces, n \in Names : StartAdd(q, w, n) \/ StartVerify(q, w, n)
           \/ \E i \in Ids : StartProvision(q, i) \/ StartDelete(q, i)
    PROVE  OthersLost'
<1>0. \/ req[q] = Idle
      \/ req[q].at \in {"taken", "prove", "claim", "count", "find", "clean", "detach", "parent",
                        "publish", "store", "drop", "unpublish"}
  <2>1. CASE \/ \E w \in Workspaces, n \in Names : StartAdd(q, w, n) \/ StartVerify(q, w, n)
             \/ \E i \in Ids : StartProvision(q, i) \/ StartDelete(q, i)
    BY <2>1 DEF StartAdd, StartVerify, StartProvision, StartDelete
  <2>2. CASE \/ Taken(q) \/ Proven(q) \/ Unproven(q) \/ ReadClaim(q) \/ CountClaims(q) \/ FindHolder(q)
    BY <2>2 DEF Taken, Proven, Unproven, ReadClaim, CountClaims, FindHolder, FindAmong
  <2>3. CASE \/ Clean(q) \/ CleanFails(q) \/ Detach(q) \/ NotSetUp(q) \/ FindParent(q)
             \/ Publish(q) \/ PublishFails(q) \/ Store(q) \/ Drop(q) \/ Unpublish(q) \/ UnpublishFails(q)
    BY <2>3 DEF Clean, CleanFails, Detach, NotSetUp, FindParent, Publish, PublishFails, Store, Drop, DropRow,
                Unpublish, UnpublishFails
  <2> QED
    BY <2>1, <2>2, <2>3
<1>1. req[q].at \notin {"settle", "lose"}
  BY <1>0 DEF Idle
<1>2. \E new : req' = [req EXCEPT ![q] = new]
  <2>1. CASE FindHolder(q)
    BY <2>1 DEF FindHolder, FindAmong, Goto
  <2>2. CASE Detach(q)
    <3> DEFINE new == [req[q] EXCEPT !.tree = Tail(req[q].tree),
                                     !.at = IF Len(req[q].tree) = 1 THEN "parent" ELSE "clean"]
    <3>1. req' = [req EXCEPT ![q] = new]
      BY <2>2 DEF Detach, Core
    <3> HIDE DEF new
    <3> QED
      BY <3>1
  <2>3. CASE \/ Taken(q) \/ Proven(q) \/ Unproven(q) \/ ReadClaim(q) \/ CountClaims(q)
             \/ Clean(q) \/ CleanFails(q) \/ NotSetUp(q)
    BY <2>3 DEF Taken, Proven, Unproven, ReadClaim, CountClaims, Clean, CleanFails, NotSetUp, Over, Goto
  <2>4. CASE FindParent(q)
    BY <2>4 DEF FindParent
  <2>5. CASE \/ Publish(q) \/ PublishFails(q) \/ Store(q) \/ Drop(q) \/ Unpublish(q) \/ UnpublishFails(q)
    BY <2>5 DEF Publish, PublishFails, Store, Drop, DropRow, Unpublish, UnpublishFails, Over, Goto
  <2>6. CASE \/ \E w \in Workspaces, n \in Names : StartAdd(q, w, n) \/ StartVerify(q, w, n)
             \/ \E i \in Ids : StartProvision(q, i) \/ StartDelete(q, i)
    BY <2>6 DEF StartAdd, StartVerify, StartProvision, StartDelete
  <2> QED
    BY <2>1, <2>2, <2>3, <2>4, <2>5, <2>6
<1>3. Fades
  <2>1. CASE UNCHANGED rows
    BY <2>1 DEF Fades, Live, Exists
  <2> QED
    BY <2>1, DetachFades, RowFades
       DEF Taken, Proven, Unproven, ReadClaim, CountClaims, FindHolder, FindAmong, Clean, CleanFails,
           NotSetUp, FindParent, Publish, PublishFails, Unpublish, UnpublishFails,
           StartAdd, StartVerify, StartProvision, StartDelete
<1>4. ClaimsFade
  <2>1. CASE UNCHANGED claims
    BY <2>1 DEF ClaimsFade
  <2>2. CASE Taken(q) \/ ReadClaim(q)
    <3>1. PICK r : r = req[q]
      OBVIOUS
    <3>2. r \in Asking
      BY <2>2, <3>1, Shape DEF Core, Taken, ReadClaim
    <3>3. r.ws \in Workspaces /\ r.name \in Names
      BY <3>2 DEF Asking
    <3> QED
      BY <2>2, <3>1, <3>3 DEF Taken, ReadClaim, ClaimsFade, Core, TypeOK
  <2> QED
    BY <2>1, <2>2
       DEF Proven, Unproven, CountClaims, FindHolder, FindAmong, Clean, CleanFails, Detach, NotSetUp, FindParent,
           Publish, PublishFails, Store, Drop, DropRow, Unpublish, UnpublishFails,
           StartAdd, StartVerify, StartProvision, StartDelete
<1>5. late' = late /\ (faults' = faults \/ faults' = faults + 1)
  BY DEF Taken, Proven, Unproven, ReadClaim, CountClaims, FindHolder, FindAmong, Clean, CleanFails, Detach,
         NotSetUp, FindParent, Publish, PublishFails, Store, Drop, DropRow, Unpublish, UnpublishFails,
         StartAdd, StartVerify, StartProvision, StartDelete
<1>6. faults > 0 => faults' > 0
  <2>1. faults \in Nat
    BY LegacyAssumption DEF Core, TypeOK
  <2> QED
    BY <1>5, <2>1
<1> QED
  BY <1>1, <1>2, <1>3, <1>4, <1>5, <1>6, OthersKept

LEMMA NextLost == ASSUME Core, OthersLost, [Next]_vars PROVE OthersLost'
<1>1. ASSUME NEW q \in Requests, Die(q) PROVE OthersLost'
  <2>1. faults' = faults + 1 /\ faults \in 0..MaxFaults /\ MaxFaults \in Nat
    BY <1>1, LegacyAssumption DEF Die, Core, TypeOK
  <2>2. faults' > 0
    BY <2>1
  <2> QED
    BY <2>2 DEF OthersLost
<1>2. ASSUME NEW w \in Workspaces, NEW n \in Names, GiveUp(w, n) PROVE OthersLost'
  <2>1. claims' = [claims EXCEPT ![w][n] = "none"] /\ UNCHANGED <<rows, req, late, faults>>
    BY <1>2 DEF GiveUp
  <2>2. ClaimsFade
    BY <2>1 DEF ClaimsFade, Core, TypeOK
  <2> QED
    BY <2>1, <2>2 DEF ClaimsFade, OthersLost, OwnedByOther, Holds, Live, Exists
<1>3. ASSUME NEW i \in Ids, Purge(i) PROVE OthersLost'
  <2>1. Fades /\ UNCHANGED <<claims, req, late, faults>>
    BY <1>3, PurgeFades DEF Purge
  <2> QED
    BY <2>1, OwnersFade DEF OthersLost
<1>4. CASE UNCHANGED vars
  BY <1>4 DEF vars, OthersLost, OwnedByOther, Holds, Live, Exists
<1> QED
  BY <1>1, <1>2, <1>3, <1>4, UpsertLost, InsertLost, SettleLost, OtherLost DEF Next, Step

-----------------------------------------------------------------------------
(* The records                                                             *)

\* Records that must be accounted for.
Owed == zone \ stray

\* What request r knows of records: none is still to be created, and the one it has
\* cleaned up before it detaches the row is no longer owed.
Listed(r) ==
    /\ r.at \in {"store", "drop", "unpublish"} => r.record <= issued
    /\ r.at \in {"clean", "detach"} => \A k \in 1..Len(r.tree) : r.tree[k].record <= issued
    /\ r.at = "detach" => r.tree[1].record \notin Owed
Books ==
    /\ \A i \in Ids : Exists(i) => rows[i].record <= issued
    /\ \A q \in Requests : Listed(req[q])

InHandOf(r) == IF r.at \in {"store", "unpublish"} THEN {r.record} ELSE {}

LEMMA OwedTypes == ASSUME Core PROVE Owed \subseteq 1..issued /\ 0 \notin Owed /\ issued \in Nat
BY RowTypes DEF Core, TypeOK, Owed

\* What was in order stays so when nothing but newly created records comes to be owed.
LEMMA ListedStays ==
    ASSUME Core, NEW p \in Requests, NEW r, r = req[p], Listed(r), issued' \in Nat, issued <= issued',
           \A k \in Owed' : k \in Owed \/ k > issued
    PROVE  Listed(r)'
<1>1. Listed(r) /\ Sound(r)
  BY SoundNow
<1>2. r.at \in {"store", "drop", "unpublish"} => r.record \in Nat
  BY <1>1, Shape, RowTypes DEF Sound, Handling
<1>3. r.at \in {"clean", "detach"} =>
          /\ \A k \in 1..Len(r.tree) : r.tree[k].record \in Nat
          /\ 1 \in 1..Len(r.tree)
  <2>1. SUFFICES ASSUME r.at \in {"clean", "detach"}
                 PROVE  /\ \A k \in 1..Len(r.tree) : r.tree[k].record \in Nat
                        /\ 1 \in 1..Len(r.tree)
    OBVIOUS
  <2>2. r \in Evicting /\ r.tree # <<>>
    BY <1>1, <2>1, Shape DEF Sound, TreeOK
  <2> QED
    BY <2>2, TreeTypes, RowTypes
<1>4. issued \in Nat
  BY RowTypes
<1>5. r.at \in {"store", "drop", "unpublish"} => r.record <= issued'
  BY <1>1, <1>2, <1>4 DEF Listed
<1>6. r.at \in {"clean", "detach"} => \A k \in 1..Len(r.tree) : r.tree[k].record <= issued'
  BY <1>1, <1>3, <1>4 DEF Listed
<1>7. r.at = "detach" => r.tree[1].record \notin Owed'
  <2> SUFFICES ASSUME r.at = "detach" PROVE r.tree[1].record \notin Owed'
    OBVIOUS
  <2>1. r.tree[1].record \in Nat /\ r.tree[1].record <= issued /\ r.tree[1].record \notin Owed
    BY <1>1, <1>3 DEF Listed
  <2> QED
    BY <1>4, <2>1
<1> QED
  BY <1>5, <1>6, <1>7 DEF Listed

\* The records of the rows do not change, and request q goes on as new.
LEMMA BooksKept ==
    ASSUME Core, Books, NEW q \in Requests, NEW new, req' = [req EXCEPT ![q] = new], Listed(new)',
           issued' \in Nat, issued <= issued', \A k \in Owed' : k \in Owed \/ k > issued,
           \A i \in Ids : Exists(i)' => rows'[i].record <= issued'
    PROVE  Books'
<1>1. \A p \in Requests : req'[p] = IF p = q THEN new ELSE req[p]
  BY Moved
<1>2. ASSUME NEW p \in Requests PROVE Listed(req[p])'
  <2>1. PICK r : r = req[p]
    OBVIOUS
  <2>2. Listed(r)
    BY <2>1 DEF Books
  <2>3. Listed(r)'
    BY <2>1, <2>2, ListedStays
  <2> QED
    BY <1>1, <2>1, <2>3
<1> QED
  BY <1>2 DEF Books

\* Every record that is owed afterwards is named by a row, or was in another hand
\* already, or is in the hand of request q.
LEMMA AccountKept ==
    ASSUME Core, RecordsAccounted, NEW q \in Requests, NEW new, req' = [req EXCEPT ![q] = new],
           \A k \in Owed' : k \in Owed \/ k \in InHandOf(new),
           \A k \in Owed' \cap InHandOf(req[q]) :
               k \in InHandOf(new) \/ \E i \in Ids : Live(i)' /\ rows'[i].record = k,
           \A i \in Ids : Live(i) /\ rows[i].record \in Owed' =>
               rows[i].record \in InHandOf(new) \/ (Live(i)' /\ rows'[i].record = rows[i].record)
    PROVE  RecordsAccounted'
<1>1. \A p \in Requests : req'[p] = IF p = q THEN new ELSE req[p]
  BY DEF Core
<1> SUFFICES ASSUME NEW k \in Owed'
             PROVE  \/ \E i \in Ids : Live(i)' /\ rows'[i].record = k
                    \/ \E p \in Requests : k \in InHandOf(req'[p])
  BY DEF RecordsAccounted, Owed, InHand, InHandOf
<1>2. CASE k \in InHandOf(new)
  BY <1>1, <1>2
<1>3. CASE k \notin InHandOf(new)
  <2>1. \/ \E i \in Ids : Live(i) /\ rows[i].record = k
        \/ \E p \in Requests : k \in InHandOf(req[p])
    BY <1>3 DEF RecordsAccounted, Owed, InHand, InHandOf
  <2> QED
    BY <1>1, <1>3, <2>1
<1> QED
  BY <1>2, <1>3

Ledger == Books /\ RecordsAccounted

\* A step that leaves the rows alone and lets go of no owed record.
LEMMA LedgerKept ==
    ASSUME Core, Ledger, NEW q \in Requests, NEW new, req' = [req EXCEPT ![q] = new],
           UNCHANGED <<rows, issued>>, Owed' \subseteq Owed, Owed' \cap InHandOf(req[q]) = {}, Listed(new)'
    PROVE  Ledger'
<1>1. issued' \in Nat /\ issued <= issued'
  BY RowTypes
<1>2. \A i \in Ids : Exists(i)' => rows'[i].record <= issued'
  BY DEF Ledger, Books, Exists
<1>3. Books'
  BY <1>1, <1>2, BooksKept DEF Ledger
<1>4. RecordsAccounted'
  BY AccountKept DEF Ledger, Live, Exists
<1> QED
  BY <1>3, <1>4 DEF Ledger

\* A request that holds no record and has read none.
Plain(r) == r.at \notin {"clean", "detach", "store", "drop", "unpublish"}

LEMMA PlainLedger ==
    ASSUME Core, Ledger, NEW q \in Requests, Plain(req[q]), NEW new, Plain(new), req' = [req EXCEPT ![q] = new],
           UNCHANGED <<rows, issued>>, Owed' \subseteq Owed
    PROVE  Ledger'
<1>1. Listed(new)' /\ InHandOf(req[q]) = {}
  BY DEF Plain, Listed, InHandOf
<1> QED
  BY <1>1, LedgerKept

LEMMA AskLedger ==
    ASSUME Core, Ledger, NEW q \in Requests,
           \/ Taken(q) \/ Proven(q) \/ Unproven(q) \/ ReadClaim(q) \/ CountClaims(q) \/ Upsert(q)
           \/ NotSetUp(q) \/ FindParent(q) \/ Settle(q) \/ Lose(q) \/ PublishFails(q)
           \/ \E w \in Workspaces, n \in Names : StartAdd(q, w, n) \/ StartVerify(q, w, n)
           \/ \E i \in Ids : StartProvision(q, i)
    PROVE  Ledger'
<1>1. UNCHANGED <<rows, issued, zone, stray>>
  BY DEF Taken, Proven, Unproven, ReadClaim, CountClaims, Upsert, NotSetUp, FindParent, Settle, Lose,
         PublishFails, StartAdd, StartVerify, StartProvision
<1>2. Plain(req[q])
  <2>1. CASE \/ \E w \in Workspaces, n \in Names : StartAdd(q, w, n) \/ StartVerify(q, w, n)
             \/ \E i \in Ids : StartProvision(q, i)
    <3>1. req[q] = Idle
      BY <2>1 DEF StartAdd, StartVerify, StartProvision
    <3> QED
      BY <3>1 DEF Idle, Plain
  <2>2. CASE \/ Taken(q) \/ Proven(q) \/ Unproven(q) \/ ReadClaim(q) \/ CountClaims(q) \/ Upsert(q)
    BY <2>2 DEF Taken, Proven, Unproven, ReadClaim, CountClaims, Upsert, Plain
  <2>3. CASE \/ NotSetUp(q) \/ FindParent(q) \/ Settle(q) \/ Lose(q) \/ PublishFails(q)
    BY <2>3 DEF NotSetUp, FindParent, Settle, Lose, PublishFails, Plain
  <2> QED
    BY <2>1, <2>2, <2>3
<1>3. PICK r : r = req[q]
  OBVIOUS
<1>4. \E new : Plain(new) /\ req' = [req EXCEPT ![q] = new]
  <2>1. CASE \/ Taken(q) \/ Upsert(q) \/ NotSetUp(q) \/ Lose(q) \/ PublishFails(q)
    BY <2>1, Ends DEF Taken, Upsert, NotSetUp, Lose, PublishFails, Over, Plain
  <2>2. CASE Proven(q)
    <3>1. PICK new : new = [at |-> "find", ws |-> r.ws, name |-> r.name, tree |-> <<>>]
      OBVIOUS
    <3> QED
      BY <1>3, <2>2, <3>1 DEF Proven, Plain
  <2>3. CASE Unproven(q) \/ ReadClaim(q) \/ CountClaims(q) \/ Settle(q)
    <3>1. r \in Asking \cup Entering
      BY <1>3, <2>3, Shape DEF Core, Unproven, ReadClaim, CountClaims, Settle
    <3>2. \/ req' = [req EXCEPT ![q] = Idle]
          \/ \E place \in {"claim", "count", "upsert", "lose"} : req' = [req EXCEPT ![q] = [r EXCEPT !.at = place]]
      BY <1>3, <2>3 DEF Unproven, ReadClaim, CountClaims, Settle, Over, Goto
    <3>3. ASSUME NEW place \in {"claim", "count", "upsert", "lose"} PROVE Plain([r EXCEPT !.at = place])
      BY <3>1 DEF Plain, Asking, Entering
    <3> QED
      BY <3>2, <3>3, Ends DEF Plain
  <2>4. CASE FindParent(q)
    <3>1. PICK up : req' = [req EXCEPT ![q] = [at |-> "insert", ws |-> r.ws, name |-> r.name, tree |-> <<>>, parent |-> up]]
      BY <1>3, <2>4 DEF FindParent
    <3>2. PICK new : new = [at |-> "insert", ws |-> r.ws, name |-> r.name, tree |-> <<>>, parent |-> up]
      OBVIOUS
    <3> QED
      BY <3>1, <3>2 DEF Plain
  <2>5. ASSUME NEW w \in Workspaces, NEW n \in Names, StartAdd(q, w, n) \/ StartVerify(q, w, n)
        PROVE  \E new : Plain(new) /\ req' = [req EXCEPT ![q] = new]
    <3>1. \/ req' = [req EXCEPT ![q] = [at |-> "parent", ws |-> w, name |-> n, tree |-> <<>>]]
          \/ \E place \in {"prove", "taken"}, claimed \in BOOLEAN :
                 req' = [req EXCEPT ![q] = [at |-> place, ws |-> w, name |-> n, claimed |-> claimed, tree |-> <<>>]]
      BY <2>5 DEF StartAdd, StartVerify
    <3>2. CASE req' = [req EXCEPT ![q] = [at |-> "parent", ws |-> w, name |-> n, tree |-> <<>>]]
      <4>1. PICK new : new = [at |-> "parent", ws |-> w, name |-> n, tree |-> <<>>]
        OBVIOUS
      <4> QED
        BY <3>2, <4>1 DEF Plain
    <3>3. ASSUME NEW place \in {"prove", "taken"}, NEW claimed \in BOOLEAN,
                 req' = [req EXCEPT ![q] = [at |-> place, ws |-> w, name |-> n, claimed |-> claimed, tree |-> <<>>]]
          PROVE  \E new : Plain(new) /\ req' = [req EXCEPT ![q] = new]
      <4>1. PICK new : new = [at |-> place, ws |-> w, name |-> n, claimed |-> claimed, tree |-> <<>>]
        OBVIOUS
      <4> QED
        BY <3>3, <4>1 DEF Plain
    <3> QED
      BY <3>1, <3>2, <3>3
  <2>6. ASSUME NEW i \in Ids, StartProvision(q, i) PROVE \E new : Plain(new) /\ req' = [req EXCEPT ![q] = new]
    <3>1. PICK new : new = [at |-> "publish", id |-> i]
      OBVIOUS
    <3> QED
      BY <2>6, <3>1 DEF StartProvision, Plain
  <2> QED
    BY <2>1, <2>2, <2>3, <2>4, <2>5, <2>6
<1>5. Owed' = Owed
  BY <1>1 DEF Owed
<1> QED
  BY <1>1, <1>2, <1>4, <1>5, PlainLedger

LEMMA FindLedger == ASSUME Core, Ledger, NEW q \in Requests, FindHolder(q) PROVE Ledger'
<1>1. PICK r : r = req[q]
  OBVIOUS
<1>2. r \in Finding /\ r.at = "find"
  BY <1>1, Shape DEF Core, FindHolder, FindAmong
<1>3. UNCHANGED <<rows, issued, zone, stray>> /\ Owed' = Owed
  BY DEF FindHolder, FindAmong, Owed
<1>4. CASE req' = [req EXCEPT ![q] = [r EXCEPT !.at = "parent"]]
  <2>1. PICK new : new = [r EXCEPT !.at = "parent"]
    OBVIOUS
  <2>2. Plain(new) /\ Plain(req[q])
    BY <1>1, <1>2, <2>1 DEF Plain, Finding
  <2> QED
    BY <1>3, <1>4, <2>1, <2>2, PlainLedger
<1>5. CASE \E t \in UNION {TreesOf(i) : i \in Victims(r.ws, r.name)} :
               req' = [req EXCEPT ![q] = [at |-> "clean", ws |-> r.ws, name |-> r.name, tree |-> t, upto |-> inserted]]
  <2>1. PICK t \in UNION {TreesOf(i) : i \in Victims(r.ws, r.name)} :
                 req' = [req EXCEPT ![q] = [at |-> "clean", ws |-> r.ws, name |-> r.name, tree |-> t, upto |-> inserted]]
    BY <1>5
  <2>2. PICK i \in Victims(r.ws, r.name) : t \in TreesOf(i)
    OBVIOUS
  <2>3. i \in Ids /\ Live(i) /\ Exists(i)
    BY DEF Victims, Live
  <2>4. /\ Len(t) \in Nat /\ t[Len(t)] = Copy(i)
        /\ \A k \in 1..(Len(t) - 1) : \E j \in Below(i) : t[k] = Copy(j)
    BY <2>2, <2>3, TreeRead
  <2>5. ASSUME NEW k \in 1..Len(t) PROVE t[k].record <= issued
    <3>1. k = Len(t) \/ k \in 1..(Len(t) - 1)
      BY <2>4
    <3>2. PICK j \in Ids : Exists(j) /\ t[k] = Copy(j)
      BY <2>3, <2>4, <3>1 DEF Below, Live
    <3> QED
      BY <3>2 DEF Copy, Ledger, Books
  <2>6. PICK new : new = [at |-> "clean", ws |-> r.ws, name |-> r.name, tree |-> t, upto |-> inserted]
    OBVIOUS
  <2>7. new.at = "clean" /\ new.tree = t
    BY <2>6
  <2>8. Listed(new)'
    BY <1>3, <2>5, <2>7 DEF Listed
  <2>9. InHandOf(req[q]) = {}
    BY <1>1, <1>2 DEF InHandOf
  <2> QED
    BY <1>3, <2>1, <2>6, <2>8, <2>9, LedgerKept
<1> QED
  BY <1>1, <1>4, <1>5 DEF FindHolder, FindAmong, Goto

LEMMA CleanLedger == ASSUME Core, Ledger, NEW q \in Requests, Clean(q) \/ CleanFails(q) PROVE Ledger'
<1>1. PICK r : r = req[q]
  OBVIOUS
<1>2. Sound(r) /\ r.at = "clean"
  BY <1>1, SoundNow DEF Clean, CleanFails
<1>3. r \in Evicting /\ r.tree # <<>>
  BY <1>2, Shape DEF Sound, TreeOK
<1>4. Target(q) = r.tree[1]
  BY <1>1, <1>3, TreeTypes DEF Target
<1>5. PICK new : new = [r EXCEPT !.at = "detach"]
  OBVIOUS
<1>6. new.at = "detach" /\ new.tree = r.tree
  BY <1>3, <1>5 DEF Evicting
<1>7. req' = [req EXCEPT ![q] = new] /\ UNCHANGED <<rows, issued>>
  BY <1>1, <1>5 DEF Clean, CleanFails, Goto
<1>8. Owed' \subseteq Owed \ {r.tree[1].record}
  BY <1>4 DEF Clean, CleanFails, Owed
<1>9. Listed(r)
  BY <1>1 DEF Ledger, Books
<1>10. Listed(new)'
  BY <1>2, <1>6, <1>7, <1>8, <1>9 DEF Listed
<1>11. InHandOf(req[q]) = {}
  BY <1>1, <1>2 DEF InHandOf
<1> QED
  BY <1>7, <1>8, <1>10, <1>11, LedgerKept

\* A request ends: the record it had in its hands is gone, or is owed no longer.
LEMMA EndLedger ==
    ASSUME Core, Ledger, NEW q \in Requests, Unpublish(q) \/ UnpublishFails(q) \/ Die(q)
    PROVE  Ledger'
<1>1. PICK new : new = Idle
  OBVIOUS
<1>2. req' = [req EXCEPT ![q] = new] /\ UNCHANGED <<rows, issued>>
  BY <1>1 DEF Unpublish, UnpublishFails, Die, Over
<1>3. Listed(new)'
  BY <1>1, Ends DEF Listed
<1>4. Owed' \subseteq Owed /\ Owed' \cap InHandOf(req[q]) = {}
  BY DEF Unpublish, UnpublishFails, Die, InHand, InHandOf, Owed
<1> QED
  BY <1>2, <1>3, <1>4, LedgerKept

LEMMA DeletionLedger == ASSUME Core, Ledger, NEW q \in Requests, NEW i \in Ids, StartDelete(q, i) PROVE Ledger'
<1>1. PICK new : new = [at |-> "drop", id |-> i, record |-> rows[i].record]
  OBVIOUS
<1>2. /\ req' = [req EXCEPT ![q] = new] /\ UNCHANGED <<rows, issued, zone, stray>>
      /\ Exists(i) /\ req[q] = Idle
  BY <1>1 DEF StartDelete, Live
<1>3. rows[i].record <= issued'
  BY <1>2 DEF Ledger, Books
<1>4. Listed(new)'
  BY <1>1, <1>3 DEF Listed
<1>5. InHandOf(req[q]) = {} /\ Owed' = Owed
  BY <1>2 DEF InHandOf, Owed, Idle
<1> QED
  BY <1>2, <1>4, <1>5, LedgerKept

\* The row that is detached gives up its record: the one that was cleaned up before,
\* or a newer one, which strays.
LEMMA DetachLedger == ASSUME Core, Ledger, NEW q \in Requests, Detach(q) PROVE Ledger'
<1>1. PICK r : r = req[q]
  OBVIOUS
<1>2. PICK i : i = r.tree[1].id
  OBVIOUS
<1>3. /\ r \in Evicting /\ r.at = "detach" /\ r.tree # <<>> /\ i \in Ids /\ Target(q) = r.tree[1]
      /\ (~Exists(i) => rows' = rows)
      /\ Exists(i) => rows'[i].evicted /\ rows'[i].record = 0
      /\ stray' = IF Exists(i) THEN stray \cup (zone \cap ({rows[i].record} \ {r.tree[1].record})) ELSE stray
  BY <1>1, <1>2, DetachedRow
<1>4. \A j \in Ids : j # i => rows'[j] = rows[j]
  BY <1>2, <1>3, DetachedOnly
<1>5. PICK new : new = [r EXCEPT !.tree = Tail(r.tree), !.at = IF Len(r.tree) = 1 THEN "parent" ELSE "clean"]
  OBVIOUS
<1>6. req' = [req EXCEPT ![q] = new] /\ UNCHANGED <<zone, issued>>
  BY <1>1, <1>5 DEF Detach, Core
<1>7. /\ new.tree = Tail(r.tree)
      /\ new.at = IF Len(r.tree) = 1 THEN "parent" ELSE "clean"
  BY <1>3, <1>5 DEF Evicting
<1>8. Listed(r)
  BY <1>1 DEF Ledger, Books
<1>9. Owed' \subseteq Owed /\ r.tree[1].record \notin Owed /\ (Exists(i) => rows[i].record \notin Owed')
  BY <1>3, <1>6, <1>8 DEF Owed, Listed
<1>10. Listed(new)'
  <2>1. \A k \in 1..Len(r.tree) : r.tree[k].record <= issued
    BY <1>3, <1>8 DEF Listed
  <2>2. \A k \in 1..(Len(r.tree) - 1) : k + 1 \in 1..Len(r.tree)
    BY <1>3, TreeTypes
  <2>3. \A k \in 1..Len(new.tree) : new.tree[k].record <= issued'
    BY <1>3, <1>6, <1>7, <2>1, <2>2, TreeTypes
  <2> QED
    BY <1>7, <2>3 DEF Listed
<1>11. \A j \in Ids : Exists(j)' => rows'[j].record <= issued'
  <2>1. 0 <= issued
    BY RowTypes
  <2>2. \A j \in Ids : rows'[j] = rows[j] \/ rows'[j].record = 0
    BY <1>3, <1>4
  <2> QED
    BY <1>6, <2>1, <2>2 DEF Ledger, Books, Exists
<1>12. Books'
  <2>1. issued' \in Nat /\ issued <= issued'
    BY <1>6, RowTypes
  <2>2. \A k \in Owed' : k \in Owed \/ k > issued
    BY <1>9
  <2> QED
    BY <1>6, <1>10, <1>11, <2>1, <2>2, BooksKept DEF Ledger
<1>13. \A j \in Ids : Live(j) /\ rows[j].record \in Owed' => Live(j)' /\ rows'[j].record = rows[j].record
  <2> SUFFICES ASSUME NEW j \in Ids, Live(j), rows[j].record \in Owed'
               PROVE  rows'[j] = rows[j]
    BY DEF Live, Exists
  <2>1. j # i
    BY <1>9 DEF Live
  <2> QED
    BY <1>4, <2>1
<1>14. InHandOf(req[q]) = {}
  BY <1>1, <1>3 DEF InHandOf
<1>15. RecordsAccounted'
  BY <1>6, <1>9, <1>13, <1>14, AccountKept DEF Ledger
<1> QED
  BY <1>12, <1>15 DEF Ledger

LEMMA InsertLedger == ASSUME Core, Ledger, NEW q \in Requests, Insert(q) PROVE Ledger'
<1>1. PICK r : r = req[q]
  OBVIOUS
<1>2. UNCHANGED <<zone, issued, stray>> /\ req[q].at = "insert" /\ Owed' = Owed
  BY DEF Insert, Owed
<1>3. CASE rows' = rows /\ req' = [req EXCEPT ![q] = Idle]
  <2>1. PICK new : new = Idle
    OBVIOUS
  <2>2. Plain(new) /\ Plain(req[q])
    BY <1>2, <2>1, Ends DEF Plain
  <2> QED
    BY <1>2, <1>3, <2>1, <2>2, PlainLedger
<1>4. CASE /\ inserted + 1 \in Ids /\ ~Exists(inserted + 1)
           /\ rows'[inserted + 1] = [ws |-> r.ws, name |-> r.name, via |-> "proven", parent |-> r.parent,
                                     record |-> 0, evicted |-> FALSE, upto |-> 0]
           /\ \A j \in Ids : j # inserted + 1 => rows'[j] = rows[j]
           /\ req' = [req EXCEPT ![q] = [r EXCEPT !.at = "settle"]]
  <2>1. r \in Entering
    BY <1>1, InsertedRow
  <2>2. PICK new : new = [r EXCEPT !.at = "settle"]
    OBVIOUS
  <2>3. new.at = "settle"
    BY <2>1, <2>2 DEF Entering
  <2>4. Listed(new)' /\ InHandOf(req[q]) = {}
    BY <1>2, <2>3 DEF Listed, InHandOf
  <2>5. \A j \in Ids : Exists(j)' => rows'[j].record <= issued'
    <3>1. 0 <= issued
      BY RowTypes
    <3>2. \A j \in Ids : rows'[j] = rows[j] \/ rows'[j].record = 0
      BY <1>4
    <3> QED
      BY <1>2, <3>1, <3>2 DEF Ledger, Books, Exists
  <2>6. Books'
    <3>1. issued' \in Nat /\ issued <= issued'
      BY <1>2, RowTypes
    <3>2. \A k \in Owed' : k \in Owed \/ k > issued
      BY <1>2
    <3> QED
      BY <1>4, <2>2, <2>4, <2>5, <3>1, <3>2, BooksKept DEF Ledger
  <2>7. \A j \in Ids : Live(j) => Live(j)' /\ rows'[j].record = rows[j].record
    BY <1>4 DEF Live, Exists
  <2>8. RecordsAccounted'
    BY <1>2, <1>4, <2>2, <2>4, <2>7, AccountKept DEF Ledger
  <2> QED
    BY <2>6, <2>8 DEF Ledger
<1> QED
  BY <1>1, <1>3, <1>4, InsertedRow

\* A new record comes into the hands of the request that created it.
LEMMA PublishLedger == ASSUME Core, Ledger, NEW q \in Requests, Publish(q) PROVE Ledger'
<1>1. PICK new : new = [at |-> "store", id |-> req[q].id, record |-> issued + 1]
  OBVIOUS
<1>2. /\ req' = [req EXCEPT ![q] = new] /\ UNCHANGED <<rows, stray>> /\ req[q].at = "publish"
      /\ issued' = issued + 1 /\ zone' = zone \cup {issued + 1} /\ issued \in Nat
  BY <1>1, RowTypes DEF Publish
<1>3. issued' \in Nat /\ issued <= issued' /\ issued + 1 > issued
  BY <1>2
<1>4. Listed(new)' /\ InHandOf(new) = {issued + 1} /\ InHandOf(req[q]) = {}
  BY <1>1, <1>2, <1>3 DEF Listed, InHandOf
<1>5. \A k \in Owed' : k \in Owed \/ k = issued + 1
  BY <1>2 DEF Owed
<1>6. \A j \in Ids : Exists(j)' => rows'[j].record <= issued'
  <2> SUFFICES ASSUME NEW j \in Ids, Exists(j) PROVE rows[j].record <= issued'
    BY <1>2 DEF Exists
  <2>1. rows[j].record \in Nat /\ rows[j].record <= issued
    BY RowTypes DEF Ledger, Books
  <2> QED
    BY <1>2, <2>1
<1>7. \A k \in Owed' : k \in Owed \/ k > issued
  BY <1>3, <1>5
<1>8. Books'
  BY <1>2, <1>3, <1>4, <1>6, <1>7, BooksKept DEF Ledger
<1>9. \A j \in Ids : Live(j) => Live(j)' /\ rows'[j].record = rows[j].record
  BY <1>2 DEF Live, Exists
<1>10. RecordsAccounted'
  BY <1>2, <1>4, <1>5, <1>9, AccountKept DEF Ledger
<1> QED
  BY <1>8, <1>10 DEF Ledger

\* The row names the new record.  The one it named before strays; if the domain is
\* gone, the new one does.
LEMMA StoreLedger == ASSUME Core, Ledger, NEW q \in Requests, Store(q) PROVE Ledger'
<1>1. PICK r : r = req[q]
  OBVIOUS
<1>2. PICK i : i = r.id
  OBVIOUS
<1>3. /\ r \in Handling /\ r.at = "store" /\ i \in Ids
      /\ \A j \in Ids : j # i => rows'[j] = rows[j]
      /\ Exists(i) => rows'[i].record = r.record
  BY <1>1, <1>2, StoredRow
<1>4. \A j \in Ids : /\ Exists(j)' <=> Exists(j)
                     /\ Live(j)' <=> Live(j)
  BY <1>1, StoredRow DEF Live
<1>5. PICK new : new = Idle
  OBVIOUS
<1>6. /\ req' = [req EXCEPT ![q] = new] /\ UNCHANGED <<zone, issued>>
      /\ stray' = stray \cup (zone \cap IF Live(i) THEN {rows[i].record} ELSE {r.record})
  BY <1>1, <1>2, <1>5 DEF Store, Over
<1>7. Listed(new)' /\ InHandOf(new) = {} /\ InHandOf(req[q]) = {r.record} /\ Listed(r)
  BY <1>1, <1>3, <1>5, Ends DEF Listed, InHandOf, Ledger, Books
<1>8. Owed' \subseteq Owed
  BY <1>6 DEF Owed
<1>9. \A j \in Ids : Exists(j)' => rows'[j].record <= issued'
  <2>1. r.record <= issued
    BY <1>3, <1>7 DEF Listed
  <2> QED
    BY <1>3, <1>4, <1>6, <2>1 DEF Ledger, Books
<1>10. Books'
  <2>1. issued' \in Nat /\ issued <= issued'
    BY <1>6, RowTypes
  <2>2. \A k \in Owed' : k \in Owed \/ k > issued
    BY <1>8
  <2> QED
    BY <1>6, <1>7, <1>9, <2>1, <2>2, BooksKept DEF Ledger
<1>11. \A k \in Owed' \cap InHandOf(req[q]) : \E j \in Ids : Live(j)' /\ rows'[j].record = k
  <2> SUFFICES ASSUME r.record \in Owed' PROVE Live(i)' /\ rows'[i].record = r.record
    BY <1>3, <1>7
  <2>1. Live(i)
    BY <1>6 DEF Owed
  <2> QED
    BY <1>3, <1>4, <2>1 DEF Live
<1>12. \A j \in Ids : Live(j) /\ rows[j].record \in Owed' => Live(j)' /\ rows'[j].record = rows[j].record
  <2> SUFFICES ASSUME NEW j \in Ids, Live(j), rows[j].record \in Owed'
               PROVE  Live(j)' /\ rows'[j].record = rows[j].record
    OBVIOUS
  <2>1. j # i
    BY <1>6 DEF Owed
  <2> QED
    BY <1>3, <1>4, <2>1
<1>13. RecordsAccounted'
  BY <1>6, <1>8, <1>11, <1>12, AccountKept DEF Ledger
<1> QED
  BY <1>10, <1>13 DEF Ledger

\* The record that was read with the row goes next; a newer one strays.
LEMMA DropLedger == ASSUME Core, Ledger, NEW q \in Requests, Drop(q) PROVE Ledger'
<1>1. PICK r : r = req[q]
  OBVIOUS
<1>2. r \in Handling /\ r.at = "drop"
  BY <1>1, Shape DEF Drop, DropRow, Core
<1>3. PICK new : new = [r EXCEPT !.at = "unpublish"]
  OBVIOUS
<1>4. /\ rows' = Without(r.id) /\ req' = [req EXCEPT ![q] = new] /\ r.id \in Ids
      /\ stray' = IF Exists(r.id) THEN stray \cup (zone \cap ({rows[r.id].record} \ {r.record})) ELSE stray
      /\ UNCHANGED <<inserted, zone, issued>>
  BY <1>1, <1>2, <1>3 DEF Drop, DropRow, Goto, Handling
<1>5. new.at = "unpublish" /\ new.record = r.record
  BY <1>2, <1>3 DEF Handling
<1>6. /\ \A j \in Ids : Exists(j)' => /\ j # r.id /\ Exists(j) /\ rows'[j].record = rows[j].record
                                      /\ rows'[j].evicted = rows[j].evicted
      /\ \A j \in Ids : Exists(j) /\ j # r.id => Exists(j)'
  BY <1>4, RowsWithout
<1>7. Listed(r) /\ Listed(new)' /\ InHandOf(new) = {r.record} /\ InHandOf(req[q]) = {}
  BY <1>1, <1>2, <1>4, <1>5 DEF Listed, InHandOf, Ledger, Books
<1>8. Owed' \subseteq Owed
  BY <1>4 DEF Owed
<1>9. \A j \in Ids : Exists(j)' => rows'[j].record <= issued'
  BY <1>4, <1>6 DEF Ledger, Books
<1>10. Books'
  <2>1. issued' \in Nat /\ issued <= issued'
    BY <1>4, RowTypes
  <2>2. \A k \in Owed' : k \in Owed \/ k > issued
    BY <1>8
  <2> QED
    BY <1>4, <1>7, <1>9, <2>1, <2>2, BooksKept DEF Ledger
<1>11. \A j \in Ids : Live(j) /\ rows[j].record \in Owed' =>
           rows[j].record \in InHandOf(new) \/ (Live(j)' /\ rows'[j].record = rows[j].record)
  <2> SUFFICES ASSUME NEW j \in Ids, Live(j), rows[j].record \in Owed', rows[j].record # r.record
               PROVE  Live(j)' /\ rows'[j].record = rows[j].record
    BY <1>7
  <2>1. j # r.id
    BY <1>4 DEF Owed, Live
  <2> QED
    BY <1>6, <2>1 DEF Live
<1>12. RecordsAccounted'
  BY <1>4, <1>7, <1>8, <1>11, AccountKept DEF Ledger
<1> QED
  BY <1>10, <1>12 DEF Ledger

LEMMA PurgeLedger == ASSUME Core, Ledger, NEW i \in Ids, Purge(i) PROVE Ledger'
<1>1. rows' = Without(i) /\ UNCHANGED <<inserted, zone, issued, req, stray>> /\ rows[i].evicted
  BY DEF Purge
<1>2. /\ \A j \in Ids : Exists(j)' => /\ j # i /\ Exists(j) /\ rows'[j].record = rows[j].record
                                      /\ rows'[j].evicted = rows[j].evicted
      /\ \A j \in Ids : Exists(j) /\ j # i => Exists(j)'
  BY <1>1, RowsWithout
<1>3. Books'
  BY <1>1, <1>2 DEF Ledger, Books, Listed, Owed
<1>4. \A j \in Ids : Live(j) => Live(j)' /\ rows'[j].record = rows[j].record
  BY <1>1, <1>2 DEF Live
<1>5. RecordsAccounted'
  BY <1>1, <1>4 DEF Ledger, RecordsAccounted, InHand
<1> QED
  BY <1>3, <1>5 DEF Ledger

LEMMA NextLedger == ASSUME Core, Ledger, [Next]_vars PROVE Ledger'
<1>1. CASE UNCHANGED <<rows, zone, issued, req, stray>>
  BY <1>1 DEF Ledger, Books, Listed, Owed, RecordsAccounted, InHand, Live, Exists
<1>2. ASSUME NEW w \in Workspaces, NEW n \in Names, GiveUp(w, n) PROVE Ledger'
  BY <1>1, <1>2 DEF GiveUp
<1>3. CASE UNCHANGED vars
  BY <1>1, <1>3 DEF vars
<1> QED
  BY <1>2, <1>3, AskLedger, FindLedger, CleanLedger, EndLedger, DeletionLedger, DetachLedger, InsertLedger,
     PublishLedger, StoreLedger, DropLedger, PurgeLedger DEF Next, Step

LEMMA InitLedger == ASSUME Init PROVE Ledger
<1> DEFINE n == Len(Legacy)
<1>1. n \in Nat /\ n <= MaxRows /\ \A i \in 1..n : Legacy[i] \in Row
  BY LegacyAssumption, LenProperties
<1> HIDE DEF n
<1>2. \A i \in 1..n : i \in Ids /\ rows[i] = Legacy[i]
  BY <1>1, LegacyAssumption DEF Init, Ids, n
<1>3. \A i \in Ids : Exists(i) => i \in 1..n /\ rows[i] = Legacy[i]
  BY <1>1, LegacyAssumption DEF Init, Exists, Ids, n
<1>4. zone = LegacyRecords /\ zone = 1..issued /\ issued \in Nat /\ stray = {} /\ req = [q \in Requests |-> Idle]
  BY LegacyAssumption DEF Init
<1>5. ASSUME NEW i \in Ids, Exists(i) PROVE rows[i].record <= issued
  <2>1. i \in 1..n /\ rows[i] = Legacy[i]
    BY <1>3, <1>5
  <2>2. Legacy[i].record = 0 \/ Legacy[i].record \in LegacyRecords
    BY <2>1 DEF LegacyRecords, n
  <2> QED
    BY <1>4, <2>1, <2>2
<1>6. Books
  BY <1>4, <1>5, Ends DEF Books, Listed
<1>7. ASSUME NEW k \in zone PROVE \E i \in Ids : Live(i) /\ rows[i].record = k
  <2>1. PICK i \in 1..n : Legacy[i].record = k
    BY <1>4, <1>7 DEF LegacyRecords, n
  <2>2. ~Legacy[i].evicted
    BY LegacyAssumption DEF n
  <2>3. Legacy[i] # NoRow
    BY <1>1, RowsAreNoNoRow
  <2> QED
    BY <1>2, <2>1, <2>2, <2>3 DEF Live, Exists
<1>8. RecordsAccounted
  BY <1>4, <1>7 DEF RecordsAccounted
<1> QED
  BY <1>6, <1>8 DEF Ledger

-----------------------------------------------------------------------------
(* The theorems                                                            *)

\* Types, and the foreign key: a parent is a row of the same workspace.
THEOREM DomainsTypes == Spec => []TypeOK
<1>1. Core => TypeOK
  BY DEF Core
<1> QED
  BY <1>1, CoreHolds, PTL

\* However an eviction and the requests of the evicted workspace interleave, no live
\* child that was there when the tree was read is left below an evicted domain.
THEOREM NoChildLeft == Spec => []NoStrayChild
<1>1. Core => NoStrayChild
  BY DEF Core
<1> QED
  BY <1>1, CoreHolds, PTL

\* A domain is lost only to its workspace's own deletion, or by an eviction that takes
\* an unproven domain and what is below it.
THEOREM UnprovenLose == Spec => OnlyUnprovenLose
<1> DEFINE Losses ==
        \A i \in Ids : Live(i) /\ ~(Live(i))' =>
            \E q \in Requests :
                \/ req[q].at = "drop" /\ req[q].id = i
                \/ /\ req[q].at = "detach" /\ Target(q).id = i /\ req[q].ws # rows[i].ws
                   /\ rows[i].name = req[q].name => rows[i].via = "legacy"
<1>1. Core /\ [Next]_vars => [Losses]_vars
  BY LosingStep
<1> QED
  BY <1>1, CoreHolds, PTL DEF Spec, OnlyUnprovenLose

\* Once a workspace has proven a name, the claims of the others are lost or about to be.
THEOREM ClaimsLost == Spec => []OthersLost
<1>1. Init => OthersLost
  BY DEF Init, OthersLost
<1>2. Core /\ OthersLost /\ [Next]_vars => OthersLost'
  BY NextLost
<1> QED
  BY <1>1, <1>2, CoreHolds, PTL DEF Spec

\* Every record at Cloudflare is named by a domain or in the hands of a request, except
\* those that failed calls and overlapping requests are known to lose.
THEOREM NoRecordForgotten == Spec => []RecordsAccounted
<1>1. Init => Ledger
  BY InitLedger
<1>2. Core /\ Ledger /\ [Next]_vars => Ledger'
  BY NextLedger
<1>3. Ledger => RecordsAccounted
  BY DEF Ledger
<1> QED
  BY <1>1, <1>2, <1>3, CoreHolds, PTL DEF Spec

=============================================================================
