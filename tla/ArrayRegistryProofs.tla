------------------------- MODULE ArrayRegistryProofs -------------------------
(***************************************************************************)
(* Proofs about ArrayRegistry, for any number of arrays and jobs, any life *)
(* of the list and any length of a load.                                   *)
(***************************************************************************)
EXTENDS ArrayRegistry, TLAPS

Now == ListOf(table)

Twice == LoadTime + LoadTime
CacheLife == TTL + LoadTime + LoadTime
Limit == TTL + LoadTime + LoadTime + LoadTime

\* A shared list in use that is not the table's: two loads and the TTL bound its age.
CacheAged == cache.left > 0 /\ cache.list # Now => quiet + cache.left <= CacheLife

\* What job j has read, and the shared list it is about to date or to return.
Aged(j) ==
    /\ job[j].pc \in {"list", "time"} /\ job[j].list # Now => quiet + job[j].left <= LoadTime
    /\ job[j].pc = "time" /\ cache.list # Now => quiet + job[j].left <= Twice
    /\ job[j].pc = "hit" /\ cache.list # Now => quiet + job[j].left <= Limit
    /\ job[j].pc = "run" /\ job[j].list # Now => quiet + job[j].left <= Limit

IInv == TypeOK /\ CacheAged /\ \A j \in Jobs : Aged(j)

Labels == {"idle", "hit", "list", "time", "run"}
Jobrec == [pc : Labels, list : List, left : 0..LoadTime]
Cacherec == [list : List, left : 0..TTL]

LEMMA Constants ==
    /\ TTL \in Nat /\ LoadTime \in Nat /\ MaxEvents \in Nat
    /\ ArraysFile \subseteq Arrays /\ InventoryVendors \subseteq Vendor
    /\ Twice \in Nat /\ CacheLife \in Nat /\ Limit \in Nat
  BY RegistryAssumption DEF Twice, CacheLife, Limit, Vendor

\* What the invariant says of one job's record.
LEMMA JobTyped ==
    ASSUME TypeOK, NEW j \in Jobs
    PROVE  /\ job[j] \in Jobrec
           /\ job[j].left \in Nat /\ job[j].left <= LoadTime /\ job[j].list \in List
           /\ cache.left \in Nat /\ cache.left <= TTL /\ cache.list \in List
           /\ quiet \in Nat
  BY Constants DEF TypeOK, Jobrec, Labels

\* What Goto() does to each job.
LEMMA GotoApplied ==
    ASSUME TypeOK, NEW j \in Jobs, NEW label \in Labels, NEW list \in List,
           NEW time \in 0..LoadTime, Goto(j, label, list, time)
    PROVE  /\ job' \in [Jobs -> Jobrec]
           /\ job'[j].pc = label /\ job'[j].list = list /\ job'[j].left = time
           /\ \A k \in Jobs : k # j => job'[k] = job[k]
  BY DEF Goto, TypeOK, Jobrec, Labels

LEMMA Lists == EmptyList \in List /\ FileList \in List /\ \A t : ListOf(t) \in List
  BY Constants DEF List, EmptyList, FileList, ListOf, HasRow

LEMMA NowSame == ASSUME UNCHANGED table PROVE Now' = Now
  BY DEF Now, ListOf, HasRow

\* An age and what is left of a life: as one grows the other shrinks.
LEMMA InStep ==
    ASSUME NEW a \in Nat, NEW b \in Nat, NEW c \in Nat, NEW d \in Nat, NEW bound \in Nat,
           a <= c + 1, d > 0, b = d - 1, c + d <= bound
    PROVE  a + b <= bound
  OBVIOUS

\* Arithmetic of ages.
LEMMA Sums == ASSUME NEW a \in Nat, NEW b \in Nat, NEW c \in Nat, a + b <= c PROVE a <= c
  OBVIOUS
LEMMA Above == ASSUME NEW a \in Nat, NEW b \in Nat, NEW c \in Nat, a > c PROVE ~(a + b <= c)
  OBVIOUS
LEMMA Zero == ASSUME NEW b \in Nat, NEW c \in Nat, b <= c PROVE 0 + b <= c
  OBVIOUS
LEMMA LoadThenLife ==
    ASSUME NEW a \in Nat, NEW b \in Nat, a <= LoadTime, b <= TTL
    PROVE  a + b <= CacheLife
  BY Constants DEF CacheLife
LEMMA LoadThenLoad ==
    ASSUME NEW a \in Nat, NEW b \in Nat, a <= LoadTime, b <= LoadTime
    PROVE  a + b <= Twice /\ a + b <= Limit
  BY Constants DEF Twice, Limit
LEMMA LoadsThenLife ==
    ASSUME NEW a \in Nat, a <= Twice
    PROVE  a + TTL <= CacheLife
  BY Constants DEF Twice, CacheLife
LEMMA LifeThenLoad ==
    ASSUME NEW a \in Nat, a <= CacheLife
    PROVE  a + LoadTime <= Limit
  BY Constants DEF CacheLife, Limit
LEMMA WithinLimit ==
    ASSUME NEW a \in Nat, a <= LoadTime
    PROVE  a <= Limit
  BY Constants DEF Limit

LEMMA InitIInv == Init => IInv
<1> SUFFICES ASSUME Init
             PROVE  IInv
  OBVIOUS
<1>1. TypeOK
  <2>1. 0 \in 0..LoadTime /\ 0 \in 0..TTL /\ NoRow \in Row
        /\ NewRow("collected", "open") \in Row
    BY Constants DEF NoRow, NewRow, Row, Vendor, Key
  <2>2. job \in [Jobs -> Jobrec]
    BY <2>1, Lists DEF Init, Jobrec, Labels
  <2>3. cache \in Cacherec
    BY <2>1, Lists DEF Init, Cacherec
  <2>4. table \in [Arrays -> Row] /\ dim \in [Arrays -> Dim]
    BY <2>1 DEF Init, Dim
  <2>5. NoSync \in [pc : {"idle", "rows", "write"}, current : SUBSET Arrays, todo : SUBSET Arrays,
                    at : Arrays \cup {NoArray}, found : Key \cup {"absent"}]
    BY DEF NoSync
  <2>6. QED
    BY <2>2, <2>3, <2>4, <2>5 DEF Init, TypeOK, Jobrec, Cacherec, Labels
<1>2. CacheAged
  BY DEF Init, CacheAged
<1>3. \A j \in Jobs : Aged(j)
  BY DEF Init, Aged
<1>4. QED
  BY <1>1, <1>2, <1>3 DEF IInv

LEMMA TickIInv ==
    ASSUME IInv, Tick
    PROVE  IInv'
<1>1. TypeOK
  BY DEF IInv
<1>2. quiet \in Nat /\ quiet' \in Nat /\ quiet' <= quiet + 1 /\ Now' = Now
  BY <1>1, Constants, NowSame DEF TypeOK, Tick
<1>3. /\ cache' \in Cacherec /\ cache'.list = cache.list
      /\ cache'.left \in Nat /\ cache.left \in Nat
      /\ cache'.left > 0 => cache.left > 0 /\ cache'.left = cache.left - 1
  BY <1>1, Constants DEF TypeOK, Tick, Less, Cacherec
<1>4. ASSUME NEW j \in Jobs
      PROVE  /\ job'[j] \in Jobrec
             /\ job'[j].pc = job[j].pc /\ job'[j].list = job[j].list
             /\ job[j].pc # "idle" => job[j].left > 0 /\ job'[j].left = job[j].left - 1
             /\ job'[j].left \in Nat /\ job[j].left \in Nat
  <2>1. job[j] \in Jobrec /\ job[j].left \in Nat /\ job[j].left <= LoadTime
    BY <1>1, JobTyped
  <2>2. job'[j] = [pc |-> job[j].pc, list |-> job[j].list, left |-> Less(job[j].left)]
    BY DEF Tick
  <2>3. job[j].pc # "idle" => job[j].left > 0
    BY DEF Tick
  <2>4. Less(job[j].left) \in 0..LoadTime
    BY <2>1, Constants DEF Less
  <2>5. QED
    BY <2>1, <2>2, <2>3, <2>4, Constants DEF Jobrec, Less
<1>5. TypeOK'
  <2>1. DOMAIN job' = Jobs /\ job' = [j \in Jobs |-> job'[j]]
    BY DEF Tick
  <2>2. job' \in [Jobs -> Jobrec]
    BY <2>1, <1>4
  <2>3. QED
    BY <1>1, <1>2, <1>3, <2>2 DEF TypeOK, Tick, Jobrec, Cacherec, Labels
<1>6. CacheAged'
  <2>1. ASSUME cache'.left > 0, cache'.list # Now'
        PROVE  quiet' + cache'.left <= CacheLife
    <3>1. quiet + cache.left <= CacheLife
      BY <1>2, <1>3, <2>1 DEF IInv, CacheAged
    <3>2. QED
      BY <1>2, <1>3, <2>1, <3>1, InStep, Constants
  <2>2. QED
    BY <2>1 DEF CacheAged
<1>7. ASSUME NEW j \in Jobs
      PROVE  Aged(j)'
  <2>1. Aged(j)
    BY DEF IInv
  <2>2. ASSUME NEW bound \in Nat, job[j].pc # "idle", quiet + job[j].left <= bound
        PROVE  quiet' + job'[j].left <= bound
    BY <1>2, <1>4, <2>2, InStep
  <2>3. LoadTime \in Nat /\ Twice \in Nat /\ Limit \in Nat
    BY Constants
  <2>4. QED
    BY <1>2, <1>3, <1>4, <2>1, <2>2, <2>3 DEF Aged
<1>8. QED
  BY <1>5, <1>6, <1>7 DEF IInv

\* Whatever starts the time anew when it changes the table's list, and leaves the lists
\* and the jobs alone, keeps their ages.
LEMMA TableChanged ==
    ASSUME IInv, UNCHANGED <<cache, job>>,
           quiet' = (IF ListOf(table') = ListOf(table) THEN quiet ELSE 0)
    PROVE  CacheAged' /\ \A j \in Jobs : Aged(j)'
<1>1. Now' = ListOf(table') /\ Now = ListOf(table)
  BY DEF Now, ListOf, HasRow
<1>2. CASE Now' = Now
  <2>1. quiet' = quiet
    BY <1>1, <1>2
  <2>2. QED
    BY <1>2, <2>1 DEF IInv, CacheAged, Aged
<1>3. CASE Now' # Now
  <2>1. quiet' = 0
    BY <1>1, <1>3
  <2>2. CacheAged'
    <3>1. cache.left \in Nat /\ cache.left <= TTL
      BY Constants DEF IInv, TypeOK
    <3>2. 0 + cache.left <= CacheLife
      BY <3>1, LoadThenLife, Constants
    <3>3. QED
      BY <2>1, <3>2 DEF CacheAged
  <2>3. ASSUME NEW j \in Jobs
        PROVE  Aged(j)'
    <3>1. job[j].left \in Nat /\ job[j].left <= LoadTime
      BY JobTyped DEF IInv
    <3>2. 0 + job[j].left <= LoadTime /\ 0 + job[j].left <= Twice /\ 0 + job[j].left <= Limit
      BY <3>1, Constants, LoadThenLoad, Zero
    <3>3. QED
      BY <2>1, <3>2 DEF Aged
  <2>4. QED
    BY <2>2, <2>3
<1>4. QED
  BY <1>2, <1>3

LEMMA RowChanged ==
    ASSUME TypeOK, NEW a \in Arrays, NEW row \in Row, SetRow(a, row)
    PROVE  /\ table' \in [Arrays -> Row] /\ quiet' \in Nat
           /\ quiet' = (IF ListOf(table') = ListOf(table) THEN quiet ELSE 0)
           /\ \A b \in Arrays : b # a => table'[b] = table[b]
           /\ table'[a] = row
  BY DEF SetRow, TypeOK

\* What a write of the API leaves of the rest.
LEMMA ApiIInv ==
    ASSUME IInv, NEW a \in Arrays, NEW row \in Row, SetRow(a, row), Write
    PROVE  IInv'
<1>1. TypeOK
  BY DEF IInv
<1>2. /\ table' \in [Arrays -> Row] /\ quiet' \in Nat
      /\ quiet' = (IF ListOf(table') = ListOf(table) THEN quiet ELSE 0)
  BY <1>1, RowChanged
<1>3. TypeOK'
  BY <1>1, <1>2 DEF TypeOK, Write, Event
<1>4. QED
  BY <1>2, <1>3, TableChanged DEF Write, IInv

LEMMA ApiWritesIInv ==
    ASSUME IInv, NEW a \in Arrays,
           \/ \E vendor \in Vendor \ {"invalid"}, key \in Key : AddManagedArray(a, vendor, key)
           \/ \E on \in BOOLEAN, vendor \in Vendor, key \in Key :
                  UpdateManagedArray(a, on, vendor, key)
           \/ DeleteManagedArray(a)
    PROVE  IInv'
<1>1. table[a] \in Row
  BY DEF IInv, TypeOK
<1>2. PICK row \in Row : SetRow(a, row) /\ Write
  <2>1. ASSUME NEW vendor \in Vendor, NEW key \in Key, AddManagedArray(a, vendor, key)
        PROVE  \E row \in Row : SetRow(a, row) /\ Write
    <3>1. NewRow(vendor, key) \in Row
      BY DEF NewRow, Row
    <3>2. QED
      BY <2>1, <3>1 DEF AddManagedArray
  <2>2. ASSUME NEW on \in BOOLEAN, NEW vendor \in Vendor, NEW key \in Key,
               UpdateManagedArray(a, on, vendor, key)
        PROVE  \E row \in Row : SetRow(a, row) /\ Write
    <3>1. [table[a] EXCEPT !.enabled = on, !.vendor = vendor, !.key = key] \in Row
      BY <1>1 DEF Row
    <3>2. QED
      BY <2>2, <3>1 DEF UpdateManagedArray
  <2>3. CASE DeleteManagedArray(a)
    <3>1. NoRow \in Row
      BY DEF NoRow, Row, Vendor, Key
    <3>2. QED
      BY <2>3, <3>1 DEF DeleteManagedArray
  <2>4. QED
    BY <2>1, <2>2, <2>3
<1>3. QED
  BY <1>2, ApiIInv

Syncrec == [pc : {"idle", "rows", "write"}, current : SUBSET Arrays, todo : SUBSET Arrays,
            at : Arrays \cup {NoArray}, found : Key \cup {"absent"}]

\* While a row is being written, `at` names an array.
AtTyped == sync.pc = "write" => sync.at \in Arrays

LEMMA SyncTyped ==
    ASSUME TypeOK
    PROVE  /\ sync \in Syncrec /\ sync.current \subseteq Arrays /\ sync.todo \subseteq Arrays
           /\ sync.found \in Key \cup {"absent"}
           /\ NoSync \in Syncrec
           /\ FinalKey \in Key
           /\ [pc |-> "rows", current |-> sync.current \cap sync.todo, todo |-> sync.todo,
               at |-> NoArray, found |-> "absent"] \in Syncrec
  BY DEF TypeOK, Syncrec, NoSync, FinalKey, Key

LEMMA AtAlways == Spec => []AtTyped
<1>1. Init => AtTyped
  BY DEF Init, NoSync, AtTyped
<1>2. AtTyped /\ [Next]_vars => AtTyped'
  <2> SUFFICES ASSUME AtTyped, [Next]_vars
               PROVE  AtTyped'
    OBVIOUS
  <2>1. ASSUME NEW a \in Arrays, ReadRow(a)
        PROVE  AtTyped'
    BY <2>1 DEF ReadRow, To, AtTyped
  <2>2. ASSUME ReadInventory \/ RowFails \/ DisableGone \/ SyncFails \/ Restart
        PROVE  AtTyped'
    BY <2>2 DEF ReadInventory, RowFails, DisableGone, SyncFails, Restart,
       RowDone, To, NoSync, AtTyped
  <2>5. ASSUME NEW vendor \in InventoryVendors, UpdateRow(vendor) \/ InsertRow(vendor)
        PROVE  AtTyped'
    BY <2>5 DEF UpdateRow, InsertRow, RowDone, To, AtTyped
  <2>3. ASSUME UNCHANGED sync
        PROVE  AtTyped'
    BY <2>3 DEF AtTyped
  <2>4. QED
    BY <2>1, <2>2, <2>3, <2>5 DEF Next, vars, SyncStep, Tick, InventoryChanges, Invalidate, Step,
       QueryFails, CacheHit, ReturnCache, Query, StoreList, StoreTime, RunCollectors,
       AddManagedArray, UpdateManagedArray, DeleteManagedArray, Write
<1>3. QED
  BY <1>1, <1>2, PTL DEF Spec

\* A step of the synchronisation or of the inventory.
LEMMA SyncIInv ==
    ASSUME IInv, AtTyped, SyncStep \/ RowFails \/ SyncFails
    PROVE  IInv'
<1>1. TypeOK
  BY DEF IInv
<1>2. ASSUME UNCHANGED <<dim, table, cache, job, quiet>>, sync' \in Syncrec, events' \in Nat
      PROVE  IInv'
  <2>1. TypeOK'
    BY <1>1, <1>2 DEF TypeOK, Syncrec
  <2>2. Now' = Now
    BY <1>2, NowSame
  <2>3. QED
    BY <1>2, <2>1, <2>2 DEF IInv, CacheAged, Aged
<1>3. ASSUME UNCHANGED <<dim, cache, job, events>>, sync' \in Syncrec,
             table' \in [Arrays -> Row], quiet' \in Nat,
             quiet' = (IF ListOf(table') = ListOf(table) THEN quiet ELSE 0)
      PROVE  IInv'
  <2>1. TypeOK'
    BY <1>1, <1>3 DEF TypeOK, Syncrec
  <2>2. QED
    BY <1>3, <2>1, TableChanged DEF IInv
<1>4. events \in Nat /\ events + 1 \in Nat
  BY <1>1 DEF TypeOK
<1>5. CASE ReadInventory
  <2>1. sync' \in Syncrec
    BY <1>5 DEF ReadInventory, To, Syncrec
  <2>2. QED
    BY <1>2, <1>4, <1>5, <2>1 DEF ReadInventory
<1>6. ASSUME NEW a \in Arrays, ReadRow(a)
      PROVE  IInv'
  <2>1. table[a].key \in Key
    BY <1>1 DEF TypeOK, Row
  <2>2. sync' \in Syncrec
    BY <1>1, <1>6, <2>1, SyncTyped DEF ReadRow, To, Syncrec
  <2>3. QED
    BY <1>2, <1>4, <1>6, <2>2 DEF ReadRow
<1>7. ASSUME NEW vendor \in InventoryVendors, UpdateRow(vendor)
      PROVE  IInv'
  <2>1. sync.at \in Arrays
    BY <1>7 DEF UpdateRow, AtTyped
  <2>2. sync' \in Syncrec
    BY <1>1, <1>7, SyncTyped DEF UpdateRow, RowDone, To
  <2>3. table' \in [Arrays -> Row] /\ quiet' \in Nat
        /\ quiet' = (IF ListOf(table') = ListOf(table) THEN quiet ELSE 0)
    <3>1. CASE table[sync.at].there
      <4>1. [there |-> TRUE, enabled |-> table[sync.at].enabled, vendor |-> vendor,
             key |-> FinalKey] \in Row
        BY <1>1, <2>1, SyncTyped, Constants DEF TypeOK, Row
      <4>2. QED
        BY <1>1, <1>7, <2>1, <3>1, <4>1, RowChanged DEF UpdateRow
    <3>2. CASE ~table[sync.at].there
      <4>1. UNCHANGED <<table, quiet>>
        BY <1>7, <3>2 DEF UpdateRow
      <4>2. QED
        BY <1>1, <4>1 DEF TypeOK
    <3>3. QED
      BY <3>1, <3>2
  <2>4. QED
    BY <1>3, <1>7, <2>2, <2>3 DEF UpdateRow
<1>8. ASSUME NEW vendor \in InventoryVendors, InsertRow(vendor)
      PROVE  IInv'
  <2>1. sync.at \in Arrays
    BY <1>8 DEF InsertRow, AtTyped
  <2>2. sync' \in Syncrec
    BY <1>1, <1>8, SyncTyped DEF InsertRow, RowDone, To
  <2>3. table' \in [Arrays -> Row] /\ quiet' \in Nat
        /\ quiet' = (IF ListOf(table') = ListOf(table) THEN quiet ELSE 0)
    <3>1. CASE ~table[sync.at].there
      <4>1. [there |-> TRUE, vendor |-> vendor, key |-> "open",
             enabled |-> vendor = "collected" /\ sync.at \in sync.current] \in Row
        BY Constants DEF Row, Key
      <4>2. QED
        BY <1>1, <1>8, <2>1, <3>1, <4>1, RowChanged DEF InsertRow
    <3>2. CASE table[sync.at].there
      <4>1. UNCHANGED <<table, quiet>>
        BY <1>8, <3>2 DEF InsertRow
      <4>2. QED
        BY <1>1, <4>1 DEF TypeOK
    <3>3. QED
      BY <3>1, <3>2
  <2>4. QED
    BY <1>3, <1>8, <2>2, <2>3 DEF InsertRow
<1>9. CASE RowFails
  <2>1. sync' \in Syncrec
    BY <1>1, <1>9, SyncTyped DEF RowFails, RowDone, To
  <2>2. QED
    BY <1>2, <1>4, <1>9, <2>1 DEF RowFails, Event
<1>10. CASE DisableGone
  <2>1. table' \in [Arrays -> Row]
    <3>1. ASSUME NEW a \in Arrays
          PROVE  table[a] \in Row /\ [table[a] EXCEPT !.enabled = FALSE] \in Row
      BY <1>1 DEF TypeOK, Row
    <3>2. QED
      BY <1>10, <3>1 DEF DisableGone
  <2>2. quiet' \in Nat
    BY <1>1, <1>10 DEF DisableGone, TypeOK
  <2>3. QED
    BY <1>1, <1>3, <1>10, <2>1, <2>2, SyncTyped DEF DisableGone
<1>11. CASE SyncFails
  BY <1>1, <1>2, <1>4, <1>11, SyncTyped DEF SyncFails, Event
<1>12. QED
  BY <1>5, <1>6, <1>7, <1>8, <1>9, <1>10, <1>11 DEF SyncStep

LEMMA CacheHitIInv ==
    ASSUME IInv, NEW j \in Jobs, CacheHit(j)
    PROVE  IInv'
<1>1. TypeOK /\ Aged(j) /\ CacheAged
  BY DEF IInv
<1>2. Goto(j, "hit", EmptyList, LoadTime) /\ "hit" \in Labels
      /\ EmptyList \in List /\ LoadTime \in 0..LoadTime
  BY <1>1, JobTyped, Lists, Constants DEF CacheHit, Jobrec, Labels
<1>3. /\ job' \in [Jobs -> Jobrec]
      /\ job'[j].pc = "hit" /\ job'[j].list = EmptyList /\ job'[j].left = LoadTime
      /\ \A k \in Jobs : k # j => job'[k] = job[k]
  BY <1>1, <1>2, GotoApplied
<1>a. Now' = Now
  BY NowSame DEF CacheHit
<1>4. TypeOK'
  BY <1>1, <1>3, Constants DEF CacheHit, TypeOK, Jobrec, Labels
<1>5. CacheAged'
  BY <1>1, <1>a DEF CacheAged, CacheHit
<1>6. Aged(j)'
  <2>1. ASSUME cache.list # Now
        PROVE  quiet + LoadTime <= Limit
    <3>1. quiet + cache.left <= CacheLife /\ quiet \in Nat /\ cache.left \in Nat
      BY <1>1, <2>1, JobTyped DEF CacheAged, CacheHit
    <3>2. quiet <= CacheLife
      BY <3>1, Constants, Sums
    <3>3. QED
      BY <3>1, <3>2, LifeThenLoad
  <2>2. QED
    BY <1>3, <1>a, <2>1 DEF Aged, CacheHit
<1>7. ASSUME NEW k \in Jobs, k # j
      PROVE  Aged(k)'
  BY <1>3, <1>7, <1>a DEF IInv, Aged, CacheHit
<1>8. QED
  BY <1>4, <1>5, <1>6, <1>7 DEF IInv

LEMMA ReturnCacheIInv ==
    ASSUME IInv, NEW j \in Jobs, ReturnCache(j)
    PROVE  IInv'
<1>1. TypeOK /\ Aged(j) /\ CacheAged
  BY DEF IInv
<1>2. Goto(j, "run", cache.list, job[j].left) /\ "run" \in Labels
      /\ cache.list \in List /\ job[j].left \in 0..LoadTime
  BY <1>1, JobTyped, Lists, Constants DEF ReturnCache, Jobrec, Labels
<1>3. /\ job' \in [Jobs -> Jobrec]
      /\ job'[j].pc = "run" /\ job'[j].list = cache.list /\ job'[j].left = job[j].left
      /\ \A k \in Jobs : k # j => job'[k] = job[k]
  BY <1>1, <1>2, GotoApplied
<1>a. Now' = Now
  BY NowSame DEF ReturnCache
<1>4. TypeOK'
  BY <1>1, <1>3, Constants DEF ReturnCache, TypeOK, Jobrec, Labels
<1>5. CacheAged'
  BY <1>1, <1>a DEF CacheAged, ReturnCache
<1>6. Aged(j)'
  BY <1>1, <1>3, <1>a DEF Aged, ReturnCache
<1>7. ASSUME NEW k \in Jobs, k # j
      PROVE  Aged(k)'
  BY <1>3, <1>7, <1>a DEF IInv, Aged, ReturnCache
<1>8. QED
  BY <1>4, <1>5, <1>6, <1>7 DEF IInv

LEMMA StoreListIInv ==
    ASSUME IInv, NEW j \in Jobs, StoreList(j)
    PROVE  IInv'
<1>1. TypeOK /\ Aged(j) /\ CacheAged
  BY DEF IInv
<1>2. Goto(j, "time", job[j].list, job[j].left) /\ "time" \in Labels
      /\ job[j].list \in List /\ job[j].left \in 0..LoadTime
  BY <1>1, JobTyped, Lists, Constants DEF StoreList, Jobrec, Labels
<1>3. /\ job' \in [Jobs -> Jobrec]
      /\ job'[j].pc = "time" /\ job'[j].list = job[j].list /\ job'[j].left = job[j].left
      /\ \A k \in Jobs : k # j => job'[k] = job[k]
  BY <1>1, <1>2, GotoApplied
<1>a. Now' = Now
  BY NowSame DEF StoreList
<1>4. TypeOK'
  BY <1>1, <1>3, JobTyped, Constants DEF StoreList, TypeOK, Jobrec, Labels
<1>5. CacheAged'
  <2>1. ASSUME job[j].list # Now
        PROVE  quiet + cache.left <= CacheLife
    <3>1. quiet + job[j].left <= LoadTime /\ quiet \in Nat /\ job[j].left \in Nat
          /\ cache.left \in Nat /\ cache.left <= TTL
      BY <1>1, <2>1, JobTyped DEF Aged, StoreList
    <3>2. quiet <= LoadTime
      BY <3>1, Constants, Sums
    <3>3. QED
      BY <3>1, <3>2, LoadThenLife
  <2>2. QED
    BY <1>a, <2>1 DEF CacheAged, StoreList
<1>6. Aged(j)'
  <2>1. ASSUME job[j].list # Now
        PROVE  quiet + job[j].left <= LoadTime /\ quiet + job[j].left <= Twice
    <3>1. quiet + job[j].left <= LoadTime /\ quiet \in Nat /\ job[j].left \in Nat
          /\ job[j].left <= LoadTime
      BY <1>1, <2>1, JobTyped DEF Aged, StoreList
    <3>2. quiet <= LoadTime
      BY <3>1, Constants, Sums
    <3>3. QED
      BY <3>1, <3>2, LoadThenLoad
  <2>2. QED
    BY <1>3, <1>a, <2>1 DEF Aged, StoreList
<1>7. ASSUME NEW k \in Jobs, k # j
      PROVE  Aged(k)'
  <2>1. Aged(k) /\ job'[k] = job[k] /\ cache'.list = job[j].list /\ quiet' = quiet
    BY <1>3, <1>7 DEF IInv, StoreList
  <2>2. ASSUME job[j].list # Now
        PROVE  quiet + job[k].left <= Twice /\ quiet + job[k].left <= Limit
    <3>1. quiet + job[j].left <= LoadTime /\ quiet \in Nat /\ job[j].left \in Nat
          /\ job[k].left \in Nat /\ job[k].left <= LoadTime
      BY <1>1, <2>2, JobTyped DEF Aged, StoreList
    <3>2. quiet <= LoadTime
      BY <3>1, Constants, Sums
    <3>3. QED
      BY <3>1, <3>2, LoadThenLoad
  <2>3. QED
    BY <1>a, <2>1, <2>2 DEF Aged
<1>8. QED
  BY <1>4, <1>5, <1>6, <1>7 DEF IInv

LEMMA StoreTimeIInv ==
    ASSUME IInv, NEW j \in Jobs, StoreTime(j)
    PROVE  IInv'
<1>1. TypeOK /\ Aged(j) /\ CacheAged
  BY DEF IInv
<1>2. Goto(j, "run", job[j].list, job[j].left) /\ "run" \in Labels
      /\ job[j].list \in List /\ job[j].left \in 0..LoadTime
  BY <1>1, JobTyped, Lists, Constants DEF StoreTime, Jobrec, Labels
<1>3. /\ job' \in [Jobs -> Jobrec]
      /\ job'[j].pc = "run" /\ job'[j].list = job[j].list /\ job'[j].left = job[j].left
      /\ \A k \in Jobs : k # j => job'[k] = job[k]
  BY <1>1, <1>2, GotoApplied
<1>a. Now' = Now
  BY NowSame DEF StoreTime
<1>4. TypeOK'
  BY <1>1, <1>3, JobTyped, Constants DEF StoreTime, TypeOK, Jobrec, Labels
<1>5. CacheAged'
  <2>1. ASSUME cache.list # Now
        PROVE  quiet + TTL <= CacheLife
    <3>1. quiet + job[j].left <= Twice /\ quiet \in Nat /\ job[j].left \in Nat
      BY <1>1, <2>1, JobTyped DEF Aged, StoreTime
    <3>2. quiet <= Twice
      BY <3>1, Constants, Sums
    <3>3. QED
      BY <3>1, <3>2, LoadsThenLife
  <2>2. QED
    BY <1>a, <2>1 DEF CacheAged, StoreTime
<1>6. Aged(j)'
  <2>1. ASSUME job[j].list # Now
        PROVE  quiet + job[j].left <= Limit
    <3>1. quiet + job[j].left <= LoadTime /\ quiet \in Nat /\ job[j].left \in Nat
          /\ job[j].left <= LoadTime
      BY <1>1, <2>1, JobTyped DEF Aged, StoreTime
    <3>2. quiet <= LoadTime
      BY <3>1, Constants, Sums
    <3>3. QED
      BY <3>1, <3>2, LoadThenLoad
  <2>2. QED
    BY <1>3, <1>a, <2>1 DEF Aged, StoreTime
<1>7. ASSUME NEW k \in Jobs, k # j
      PROVE  Aged(k)'
  BY <1>3, <1>7, <1>a DEF IInv, Aged, StoreTime
<1>8. QED
  BY <1>4, <1>5, <1>6, <1>7 DEF IInv

\* A job leaves.
LEMMA RunCollectorsIInv ==
    ASSUME IInv, NEW j \in Jobs, RunCollectors(j)
    PROVE  IInv'
<1>1. TypeOK /\ Aged(j) /\ CacheAged
  BY DEF IInv
<1>2. Goto(j, "idle", EmptyList, 0) /\ "idle" \in Labels
      /\ EmptyList \in List /\ 0 \in 0..LoadTime
  BY <1>1, JobTyped, Lists, Constants DEF RunCollectors, Jobrec, Labels
<1>3. /\ job' \in [Jobs -> Jobrec]
      /\ job'[j].pc = "idle" /\ job'[j].list = EmptyList /\ job'[j].left = 0
      /\ \A k \in Jobs : k # j => job'[k] = job[k]
  BY <1>1, <1>2, GotoApplied
<1>a. Now' = Now
  BY NowSame DEF RunCollectors
<1>4. TypeOK'
  BY <1>1, <1>3, Constants DEF RunCollectors, TypeOK, Jobrec, Labels
<1>5. CacheAged'
  BY <1>1, <1>a DEF CacheAged, RunCollectors
<1>6. Aged(j)'
  BY <1>3 DEF Aged
<1>7. ASSUME NEW k \in Jobs, k # j
      PROVE  Aged(k)'
  BY <1>3, <1>7, <1>a DEF IInv, Aged, RunCollectors
<1>8. QED
  BY <1>4, <1>5, <1>6, <1>7 DEF IInv

\* The list a load begins with is the table's: there is no age to bound.
LEMMA TakeApplied ==
    ASSUME TypeOK, NEW j \in Jobs, NEW list \in List, NEW kept \in BOOLEAN,
           Take(j, list, kept)
    PROVE  /\ job' \in [Jobs -> Jobrec]
           /\ job'[j].pc \in {"list", "run"} /\ job'[j].list = list
           /\ job'[j].left = LoadTime
           /\ \A k \in Jobs : k # j => job'[k] = job[k]
<1>1. PICK label \in {"list", "run"} : Goto(j, label, list, LoadTime)
  BY DEF Take
<1>2. label \in Labels /\ LoadTime \in 0..LoadTime
  BY Constants DEF Labels
<1>3. QED
  BY <1>1, <1>2, GotoApplied

LEMMA QueryIInv ==
    ASSUME IInv, NEW j \in Jobs, Query(j)
    PROVE  IInv'
<1>1. TypeOK
  BY DEF IInv
<1>2. /\ job' \in [Jobs -> Jobrec]
      /\ job'[j].pc \in {"list", "run"} /\ job'[j].list = Now
      /\ \A k \in Jobs : k # j => job'[k] = job[k]
  <2>1. Take(j, Now, HasRow(table) \/ HasFile) /\ Now \in List
        /\ (HasRow(table) \/ HasFile) \in BOOLEAN
    BY Lists DEF Query, Now
  <2>2. QED
    BY <1>1, <2>1, TakeApplied
<1>3. Now' = Now
  BY NowSame DEF Query
<1>4. TypeOK'
  BY <1>1, <1>2 DEF Query, TypeOK, Jobrec, Labels
<1>5. CacheAged'
  BY <1>3 DEF IInv, CacheAged, Query
<1>6. ASSUME NEW k \in Jobs
      PROVE  Aged(k)'
  <2>1. CASE k = j
    BY <1>2, <1>3, <2>1 DEF Aged
  <2>2. CASE k # j
    BY <1>2, <1>3, <2>2 DEF IInv, Aged, Query
  <2>3. QED
    BY <2>1, <2>2
<1>7. QED
  BY <1>4, <1>5, <1>6 DEF IInv

LEMMA QueryFailsIInv ==
    ASSUME IInv, NEW j \in Jobs, QueryFails(j)
    PROVE  IInv'
<1>1. TypeOK
  BY DEF IInv
<1>2. job' \in [Jobs -> Jobrec]
  <2>1. HasFile \in BOOLEAN /\ Take(j, FileList, HasFile)
    BY DEF HasFile, QueryFails
  <2>2. QED
    BY <1>1, <2>1, TakeApplied, Lists
<1>3. /\ quiet' = 0 /\ events' \in Nat /\ Now' = Now
      /\ UNCHANGED <<dim, table, cache, sync>>
  BY <1>1, NowSame DEF QueryFails, Event, TypeOK
<1>4. TypeOK'
  BY <1>1, <1>2, <1>3 DEF TypeOK, Jobrec, Labels
<1>5. CacheAged'
  <2>1. cache.left \in Nat /\ cache.left <= TTL
    BY <1>1, Constants DEF TypeOK
  <2>2. 0 + cache.left <= CacheLife
    BY <2>1, LoadThenLife, Constants
  <2>3. QED
    BY <1>3, <2>2 DEF CacheAged
<1>6. ASSUME NEW k \in Jobs
      PROVE  Aged(k)'
  <2>1. job'[k].left \in Nat /\ job'[k].left <= LoadTime
    BY <1>2, Constants DEF Jobrec
  <2>2. 0 + job'[k].left <= LoadTime /\ 0 + job'[k].left <= Twice /\ 0 + job'[k].left <= Limit
    BY <2>1, Constants, LoadThenLoad, Zero
  <2>3. QED
    BY <1>3, <2>2 DEF Aged
<1>7. QED
  BY <1>4, <1>5, <1>6 DEF IInv

LEMMA RestartIInv ==
    ASSUME IInv, Restart
    PROVE  IInv'
<1>1. TypeOK
  BY DEF IInv
<1>2. job' \in [Jobs -> Jobrec] /\ cache' \in Cacherec /\ events' \in Nat /\ sync' \in Syncrec
  BY <1>1, Constants, Lists, SyncTyped DEF Restart, Event, Jobrec, Cacherec, Labels, TypeOK
<1>3. TypeOK'
  BY <1>1, <1>2 DEF Restart, TypeOK, Jobrec, Cacherec, Syncrec, Labels
<1>4. CacheAged'
  BY DEF Restart, CacheAged
<1>5. ASSUME NEW j \in Jobs
      PROVE  Aged(j)'
  BY DEF Restart, Aged
<1>6. QED
  BY <1>3, <1>4, <1>5 DEF IInv

LEMMA InvalidateIInv ==
    ASSUME IInv, Invalidate
    PROVE  IInv'
<1>1. TypeOK
  BY DEF IInv
<1>2. Now' = Now
  BY NowSame DEF Invalidate
<1>3. TypeOK'
  BY <1>1, Constants DEF Invalidate, TypeOK
<1>4. CacheAged'
  BY DEF Invalidate, CacheAged
<1>5. ASSUME NEW j \in Jobs
      PROVE  Aged(j)'
  BY <1>2 DEF IInv, Invalidate, Aged
<1>6. QED
  BY <1>3, <1>4, <1>5 DEF IInv

LEMMA NextIInv ==
    ASSUME IInv, AtTyped, [Next]_vars
    PROVE  IInv'
<1>1. CASE Tick
  BY <1>1, TickIInv
<1>2. CASE InventoryChanges
  <2>1. TypeOK' /\ Now' = Now
    BY <1>2, NowSame DEF InventoryChanges, Event, IInv, TypeOK
  <2>2. QED
    BY <1>2, <2>1 DEF InventoryChanges, IInv, CacheAged, Aged
<1>3. CASE Invalidate
  BY <1>3, InvalidateIInv
<1>4. CASE SyncStep \/ RowFails \/ SyncFails
  BY <1>4, SyncIInv
<1>5. CASE Restart
  BY <1>5, RestartIInv
<1>6. ASSUME NEW a \in Arrays,
             \/ \E vendor \in Vendor \ {"invalid"}, key \in Key : AddManagedArray(a, vendor, key)
             \/ \E on \in BOOLEAN, vendor \in Vendor, key \in Key :
                    UpdateManagedArray(a, on, vendor, key)
             \/ DeleteManagedArray(a)
      PROVE  IInv'
  BY <1>6, ApiWritesIInv
<1>7. ASSUME NEW j \in Jobs, Step(j) \/ QueryFails(j)
      PROVE  IInv'
  BY <1>7, CacheHitIInv, ReturnCacheIInv, QueryIInv, StoreListIInv, StoreTimeIInv,
     RunCollectorsIInv, QueryFailsIInv DEF Step
<1>8. CASE UNCHANGED vars
  <2>1. TypeOK' /\ Now' = Now
    BY <1>8, NowSame DEF vars, IInv, TypeOK
  <2>2. QED
    BY <1>8, <2>1 DEF vars, IInv, CacheAged, Aged
<1>9. QED
  BY <1>1, <1>2, <1>3, <1>4, <1>5, <1>6, <1>7, <1>8 DEF Next

LEMMA SpecIInv == Spec => []IInv
  BY InitIInv, NextIInv, AtAlways, PTL DEF Spec

\* The table, the lists, the jobs and the synchronisation always have their type.
THEOREM TypeCorrect == Spec => []TypeOK
<1>1. IInv => TypeOK
  BY DEF IInv
<1>2. QED
  BY <1>1, SpecIInv, PTL

\* For any number of threads that load, store and date the shared list in any order, any
\* TTL, any length of a load, and rows of every kind of vendor: a job that starts after
\* the table has been quiet for their sum has the list that load_arrays() makes of the
\* table then.
THEOREM CollectsByTable == Spec => []SettledCollection
<1>1. IInv => SettledCollection
  <2> SUFFICES ASSUME IInv, NEW j \in Jobs, job[j].pc = "run", quiet > Limit
               PROVE  job[j].list = ListOf(table)
    BY DEF SettledCollection, Limit
  <2>1. job[j].left \in Nat /\ quiet \in Nat
    BY JobTyped DEF IInv
  <2>2. ~(quiet + job[j].left <= Limit)
    BY <2>1, Constants, Above
  <2>3. QED
    BY <2>2 DEF IInv, Aged, Now
<1>2. QED
  BY <1>1, SpecIInv, PTL

\* With any number of arrays, and whatever the API does in the middle of it, a
\* synchronisation enables no row that exists, and replaces a chosen key only if it was
\* chosen in the middle of the row's transaction.
THEOREM ChoicesKept == Spec => SyncKeepsChoices
<1> DEFINE Kept ==
      \A a \in Arrays :
          table[a].there /\ table'[a].there /\ events' = events =>
              /\ table'[a].enabled => table[a].enabled
              /\ table[a].key = "chosen" /\ table'[a].key # "chosen" =>
                     sync.at = a /\ sync.found # "chosen"
<1>1. ASSUME IInv, AtTyped, [Next]_vars
      PROVE  Kept
  <2> SUFFICES ASSUME NEW a \in Arrays, table[a].there, table'[a].there, events' = events
               PROVE  /\ table'[a].enabled => table[a].enabled
                      /\ table[a].key = "chosen" /\ table'[a].key # "chosen" =>
                             sync.at = a /\ sync.found # "chosen"
    OBVIOUS
  <2>1. TypeOK /\ events \in Nat /\ table \in [Arrays -> Row]
    BY <1>1 DEF IInv, TypeOK
  <2>2. ASSUME NEW vendor \in InventoryVendors, UpdateRow(vendor)
        PROVE  /\ table'[a].enabled => table[a].enabled
               /\ table[a].key = "chosen" /\ table'[a].key # "chosen" =>
                      sync.at = a /\ sync.found # "chosen"
    <3>1. sync.at \in Arrays
      BY <1>1, <2>2 DEF UpdateRow, AtTyped
    <3>2. CASE sync.at = a
      <4>1. table'[a] = [there |-> TRUE, enabled |-> table[a].enabled, vendor |-> vendor,
                         key |-> FinalKey]
        BY <2>1, <2>2, <3>2 DEF UpdateRow, SetRow
      <4>2. sync.found = "chosen" => FinalKey = "chosen"
        BY DEF FinalKey
      <4>3. QED
        BY <3>2, <4>1, <4>2
    <3>3. CASE sync.at # a
      <4>1. table'[a] = table[a]
        BY <2>1, <2>2, <3>3 DEF UpdateRow, SetRow
      <4>2. QED
        BY <4>1
    <3>4. QED
      BY <3>2, <3>3
  <2>3. ASSUME NEW vendor \in InventoryVendors, InsertRow(vendor)
        PROVE  /\ table'[a].enabled => table[a].enabled
               /\ table[a].key = "chosen" /\ table'[a].key # "chosen" =>
                      sync.at = a /\ sync.found # "chosen"
    <3>1. table'[a] = table[a]
      BY <2>1, <2>3 DEF InsertRow, SetRow
    <3>2. QED
      BY <3>1
  <2>4. CASE DisableGone
    BY <2>1, <2>4 DEF DisableGone, Row
  <2>5. CASE UNCHANGED table
    BY <2>5
  <2>6. ~Write
    BY <2>1 DEF Write, Event
  <2>7. QED
    BY <1>1, <2>2, <2>3, <2>4, <2>5, <2>6 DEF Next, vars, SyncStep, Tick, InventoryChanges, Invalidate,
       ReadInventory, ReadRow, RowFails, SyncFails, Restart, Step, CacheHit, ReturnCache,
       Query, QueryFails, StoreList, StoreTime, RunCollectors, AddManagedArray,
       UpdateManagedArray, DeleteManagedArray
<1>2. QED
  BY <1>1, SpecIInv, AtAlways, PTL DEF Spec, SyncKeepsChoices
=============================================================================
