---------------------------- MODULE ArrayRegistry ----------------------------
(***************************************************************************)
(* Which arrays the collectors poll.  The table managed_arrays says so; it *)
(* is edited through the API, and synchronised every night, array by       *)
(* array, with the inventory DimStorageFinance.  The jobs of the collector *)
(* process read it through a list that is shared between their threads and *)
(* used for a minute, and fall back to a file when there is no table to    *)
(* read.                                                                   *)
(***************************************************************************)
EXTENDS Naturals

CONSTANTS
    Arrays,
    ArraysFile,  \* what arrays.txt lists, of vendors with collectors; {} without a file
    InventoryVendors, \* the kinds of vendor DimStorageFinance may name
    NoArray,
    Jobs,        \* collector jobs that may run side by side
    TTL,         \* _ARRAYS_CACHE_TTL
    LoadTime,    \* longest time from the query of a load to the start of the job
    MaxEvents    \* bound on changes by operators and in the inventory, failed
                 \* transactions and restarts, all together

ASSUME RegistryAssumption ==
    /\ ArraysFile \subseteq Arrays /\ NoArray \notin Arrays
    /\ InventoryVendors \subseteq {"collected", "listed", "invalid"}
    /\ {TTL, LoadTime, MaxEvents} \subseteq Nat

\* What DimStorageFinance says of an array: nothing, a record of one of three
\* dispositions, or a record that is no longer active.
Dim == {"absent", "current", "leaving", "decommissioned", "inactive"}
ActiveRecords == {"current", "leaving", "decommissioned"}
Gone == {"decommissioned", "inactive"}

\* A vendor: one USM has collectors and jobs for, another one that VendorType lists, or
\* a string that is not in VendorType.
Vendor == {"collected", "listed", "invalid"}

\* A row of managed_arrays; its key is one an operator chose, or none or one that was
\* resolved from the array's data.
Key == {"open", "chosen"}
Row == [there : BOOLEAN, enabled : BOOLEAN, vendor : Vendor, key : Key]
NoRow == [there |-> FALSE, enabled |-> FALSE, vendor |-> "listed", key |-> "open"]
NewRow(vendor, key) == [there |-> TRUE, enabled |-> TRUE, vendor |-> vendor, key |-> key]

\* A list of ArrayConfig: the arrays in it, and those that are enabled and that a job
\* looks for, which are those of a vendor with collectors.
List == [all : SUBSET Arrays, on : SUBSET Arrays]
EmptyList == [all |-> {}, on |-> {}]
FileList == [all |-> ArraysFile, on |-> ArraysFile]

VARIABLES
    dim,     \* DimStorageFinance
    table,   \* managed_arrays
    cache,   \* _arrays_cache, and for how long it is still used
    job,     \* for each job, where it is, its list, and its time left
    sync,    \* where the synchronisation is and what it has read
    quiet,   \* time since the table's list changed or a query of it failed
    events

vars == <<dim, table, cache, job, sync, quiet, events>>

NoSync == [pc |-> "idle", current |-> {}, todo |-> {},
           at |-> NoArray, found |-> "absent"]

Init ==
    /\ dim \in [Arrays -> {"absent", "current", "decommissioned"}]
    /\ table \in [Arrays -> {NoRow, NewRow("collected", "open")}]
    /\ cache = [list |-> EmptyList, left |-> 0]
    /\ job = [j \in Jobs |-> [pc |-> "idle", list |-> EmptyList, left |-> 0]]
    /\ sync = NoSync
    /\ quiet = 0
    /\ events = 0

HasRow(t) == \E a \in Arrays : t[a].there

\* What load_arrays() makes of a table: a row whose vendor ArrayConfig refuses is skipped,
\* and the file counts only if there is no row at all.
ListOf(t) ==
    IF HasRow(t)
    THEN [all |-> {a \in Arrays : t[a].there /\ t[a].vendor # "invalid"},
          on |-> {a \in Arrays : t[a].there /\ t[a].vendor = "collected" /\ t[a].enabled}]
    ELSE FileList

(***************************************************************************)
(* Time and the world outside.                                             *)
(***************************************************************************)

Horizon == TTL + LoadTime + LoadTime + LoadTime + 1

Less(n) == IF n > 0 THEN n - 1 ELSE 0

\* Time passes unless a job has used up its time.
Tick ==
    /\ \A j \in Jobs : job[j].pc # "idle" => job[j].left > 0
    /\ quiet' = IF quiet < Horizon THEN quiet + 1 ELSE quiet
    /\ cache' = [list |-> cache.list, left |-> Less(cache.left)]
    /\ job' = [j \in Jobs |-> [pc |-> job[j].pc, list |-> job[j].list,
                               left |-> Less(job[j].left)]]
    /\ UNCHANGED <<dim, table, sync, events>>

Event ==
    /\ events < MaxEvents
    /\ events' = events + 1

\* An array comes, changes its disposition, or leaves.
InventoryChanges ==
    /\ Event
    /\ \E a \in Arrays : \E d \in Dim \ {dim[a]} : dim' = [dim EXCEPT ![a] = d]
    /\ UNCHANGED <<table, cache, job, sync, quiet>>

\* The table is changed: its list is settled for as long as before, or from now on.
SetRow(a, row) ==
    /\ table' = [table EXCEPT ![a] = row]
    /\ quiet' = IF ListOf(table') = ListOf(table) THEN quiet ELSE 0

(***************************************************************************)
(* The API of managed_arrays.                                              *)
(***************************************************************************)

Write ==
    /\ Event
    /\ UNCHANGED <<dim, cache, job, sync>>

\* add_managed_array(): a row is enabled by default; an array which has one is a conflict,
\* and the vendor is one of VendorType.
AddManagedArray(a, vendor, key) ==
    /\ ~table[a].there
    /\ SetRow(a, NewRow(vendor, key))
    /\ Write

\* update_managed_array() takes any string for the vendor.  (One that repeats what the row
\* says is no step: it changes nothing.)
UpdateManagedArray(a, on, vendor, key) ==
    /\ table[a].there
    /\ table[a] # [table[a] EXCEPT !.enabled = on, !.vendor = vendor, !.key = key]
    /\ SetRow(a, [table[a] EXCEPT !.enabled = on, !.vendor = vendor, !.key = key])
    /\ Write

DeleteManagedArray(a) ==
    /\ table[a].there
    /\ SetRow(a, NoRow)
    /\ Write

\* invalidate_arrays_cache(), which every write of the API and every synchronisation ends
\* with.  It may come late or be without effect (the API runs in a process of its own, or
\* the monotonic clock is below the TTL), and comes without a change after a
\* synchronisation that failed.
Invalidate ==
    /\ cache.left > 0
    /\ cache' = [list |-> cache.list, left |-> 0]
    /\ UNCHANGED <<dim, table, job, sync, quiet, events>>

(***************************************************************************)
(* sync_from_dim_storage_finance().                                        *)
(***************************************************************************)

To(label, current, todo, at, found) ==
    sync' = [pc |-> label, current |-> current, todo |-> todo, at |-> at, found |-> found]

\* The active records are read.
ReadInventory ==
    /\ sync.pc = "idle"
    /\ To("rows", {a \in Arrays : dim[a] = "current"},
          {a \in Arrays : dim[a] \in ActiveRecords}, NoArray, "absent")
    /\ UNCHANGED <<dim, table, cache, job, quiet, events>>

\* The transaction of an array begins with a look at its row ...
ReadRow(a) ==
    /\ sync.pc = "rows"
    /\ a \in sync.todo
    /\ To("write", sync.current, sync.todo \ {a}, a,
          IF table[a].there THEN table[a].key ELSE "absent")
    /\ UNCHANGED <<dim, table, cache, job, quiet, events>>

\* The key that was found, or else what resolve_cred_key() returns: a key or, for some
\* vendors, models and sites, None.
FinalKey == IF sync.found = "chosen" THEN "chosen" ELSE "open"

RowDone == To("rows", sync.current \cap sync.todo, sync.todo, NoArray, "absent")

\* Mutant: the update follows the disposition.
UpdateRowEnabling(vendor) ==
    /\ sync.pc = "write"
    /\ sync.found # "absent"
    /\ IF table[sync.at].there
       THEN SetRow(sync.at, [there |-> TRUE, enabled |-> sync.at \in sync.current,
                             vendor |-> vendor, key |-> FinalKey])
       ELSE UNCHANGED <<table, quiet>>
    /\ RowDone
    /\ UNCHANGED <<dim, cache, job, events>>

\* ... goes on with an UPDATE, which leaves `enabled`, if there was one ...
UpdateRow(vendor) ==
    /\ sync.pc = "write"
    /\ sync.found # "absent"
    /\ IF table[sync.at].there
       THEN SetRow(sync.at, [there |-> TRUE, enabled |-> table[sync.at].enabled,
                             vendor |-> vendor, key |-> FinalKey])
       ELSE UNCHANGED <<table, quiet>>
    /\ RowDone
    /\ UNCHANGED <<dim, cache, job, events>>

\* ... or with an INSERT, which fails if somebody has added one since.
InsertRow(vendor) ==
    /\ sync.pc = "write"
    /\ sync.found = "absent"
    /\ IF table[sync.at].there
       THEN UNCHANGED <<table, quiet>>
       ELSE SetRow(sync.at, [there |-> TRUE, vendor |-> vendor, key |-> "open",
                             enabled |-> vendor = "collected" /\ sync.at \in sync.current])
    /\ RowDone
    /\ UNCHANGED <<dim, cache, job, events>>

\* An array whose transaction fails is left for the next night.
RowFails ==
    /\ sync.pc = "write"
    /\ Event
    /\ RowDone
    /\ UNCHANGED <<dim, table, cache, job, quiet>>

\* Mutant: the last statement looks at the flag of the record alone.
DisableInactive ==
    /\ sync.pc = "rows"
    /\ sync.todo = {}
    /\ table' = [a \in Arrays |->
                   IF dim[a] = "inactive"
                   THEN [table[a] EXCEPT !.enabled = FALSE]
                   ELSE table[a]]
    /\ quiet' = IF ListOf(table') = ListOf(table) THEN quiet ELSE 0
    /\ sync' = NoSync
    /\ UNCHANGED <<dim, cache, job, events>>

\* The last statement disables what the inventory says is gone.
DisableGone ==
    /\ sync.pc = "rows"
    /\ sync.todo = {}
    /\ table' = [a \in Arrays |->
                   IF dim[a] \in Gone
                   THEN [table[a] EXCEPT !.enabled = FALSE]
                   ELSE table[a]]
    /\ quiet' = IF ListOf(table') = ListOf(table) THEN quiet ELSE 0
    /\ sync' = NoSync
    /\ UNCHANGED <<dim, cache, job, events>>

\* It fails, and the synchronisation ends there.
SyncFails ==
    /\ sync.pc = "rows"
    /\ sync.todo = {}
    /\ Event
    /\ sync' = NoSync
    /\ UNCHANGED <<dim, table, cache, job, quiet>>

SyncStep ==
    \/ ReadInventory \/ DisableGone
    \/ \E a \in Arrays : ReadRow(a)
    \/ \E vendor \in InventoryVendors : UpdateRow(vendor) \/ InsertRow(vendor)

(***************************************************************************)
(* run_collector_job() and load_arrays().                                  *)
(***************************************************************************)

Goto(j, label, list, time) ==
    job' = [job EXCEPT ![j] = [pc |-> label, list |-> list, left |-> time]]

\* A list that is not empty and not old is used ...
CacheHit(j) ==
    /\ job[j].pc = "idle"
    /\ cache.list.all # {}
    /\ cache.left > 0
    /\ Goto(j, "hit", EmptyList, LoadTime)
    /\ UNCHANGED <<dim, table, cache, sync, quiet, events>>

\* ... as it is when it is returned, which need not be the list that was looked at.
ReturnCache(j) ==
    /\ job[j].pc = "hit"
    /\ Goto(j, "run", cache.list, job[j].left)
    /\ UNCHANGED <<dim, table, cache, sync, quiet, events>>

Miss(j) ==
    /\ job[j].pc = "idle"
    /\ cache.list.all = {} \/ cache.left = 0

\* A list of rows or of the file is kept, an empty one as well; without either the empty
\* list is returned and not kept.
Take(j, list, kept) == Goto(j, IF kept THEN "list" ELSE "run", list, LoadTime)

HasFile == ArraysFile # {}

\* Mutant: `enabled` is not among the columns, and defaults to true.
QueryAllEnabled(j) ==
    /\ Miss(j)
    /\ Take(j, ListOf([a \in Arrays |-> [table[a] EXCEPT !.enabled = TRUE]]),
            HasRow(table) \/ HasFile)
    /\ UNCHANGED <<dim, table, cache, sync, quiet, events>>

\* The table is read, or the file if it has no row.
Query(j) ==
    /\ Miss(j)
    /\ Take(j, ListOf(table), HasRow(table) \/ HasFile)
    /\ UNCHANGED <<dim, table, cache, sync, quiet, events>>

\* The query fails: the file, in which every array is enabled.
QueryFails(j) ==
    /\ Miss(j)
    /\ Event
    /\ Take(j, FileList, HasFile)
    /\ quiet' = 0
    /\ UNCHANGED <<dim, table, cache, sync>>

\* The list is kept ...
StoreList(j) ==
    /\ job[j].pc = "list"
    /\ cache' = [list |-> job[j].list, left |-> cache.left]
    /\ Goto(j, "time", job[j].list, job[j].left)
    /\ UNCHANGED <<dim, table, sync, quiet, events>>

\* Mutant: the list lives one unit too long.
StoreTimeLate(j) ==
    /\ job[j].pc = "time"
    /\ cache' = [list |-> cache.list, left |-> TTL + 1]
    /\ Goto(j, "run", job[j].list, job[j].left)
    /\ UNCHANGED <<dim, table, sync, quiet, events>>

\* ... and then the time, that of the end of the load.
StoreTime(j) ==
    /\ job[j].pc = "time"
    /\ cache' = [list |-> cache.list, left |-> TTL]
    /\ Goto(j, "run", job[j].list, job[j].left)
    /\ UNCHANGED <<dim, table, sync, quiet, events>>

\* The arrays of the list that are enabled are collected, by the jobs of their vendors.
RunCollectors(j) ==
    /\ job[j].pc = "run"
    /\ Goto(j, "idle", EmptyList, 0)
    /\ UNCHANGED <<dim, table, cache, sync, quiet, events>>

Step(j) ==
    \/ CacheHit(j) \/ ReturnCache(j) \/ Query(j) \/ StoreList(j) \/ StoreTime(j)
    \/ RunCollectors(j)

\* The process of the scheduler is restarted.
Restart ==
    /\ Event
    /\ cache' = [list |-> EmptyList, left |-> 0]
    /\ job' = [j \in Jobs |-> [pc |-> "idle", list |-> EmptyList, left |-> 0]]
    /\ sync' = NoSync
    /\ UNCHANGED <<dim, table, quiet>>

Next ==
    \/ Tick \/ InventoryChanges \/ Invalidate \/ SyncStep \/ RowFails \/ SyncFails \/ Restart
    \/ \E a \in Arrays :
           \/ \E vendor \in Vendor \ {"invalid"}, key \in Key :
                  AddManagedArray(a, vendor, key)
           \/ \E on \in BOOLEAN, vendor \in Vendor, key \in Key :
                  UpdateManagedArray(a, on, vendor, key)
           \/ DeleteManagedArray(a)
    \/ \E j \in Jobs : Step(j) \/ QueryFails(j)

Spec == Init /\ [][Next]_vars

\* Time passes, a synchronisation is run every night, and jobs are started for ever.
LiveSpec == Spec /\ WF_vars(Tick) /\ WF_vars(SyncStep) /\ \A j \in Jobs : WF_vars(Step(j))

(***************************************************************************)
(* What is checked.                                                        *)
(***************************************************************************)

\* The type invariant.
TypeOK ==
    /\ dim \in [Arrays -> Dim]
    /\ table \in [Arrays -> Row]
    /\ cache \in [list : List, left : 0..TTL]
    /\ job \in [Jobs -> [pc : {"idle", "hit", "list", "time", "run"}, list : List,
                         left : 0..LoadTime]]
    /\ sync \in [pc : {"idle", "rows", "write"}, current : SUBSET Arrays,
                 todo : SUBSET Arrays, at : Arrays \cup {NoArray}, found : Key \cup {"absent"}]
    /\ quiet \in Nat
    /\ events \in Nat

\* The list is shared by threads that load it at the same time, store it in two
\* statements and may store an older one last; invalidating it may have no effect.  Yet
\* a job that starts after the table has been quiet for the TTL and three loads works from
\* the list of the table: of the rows ArrayConfig accepts those that are enabled and of a
\* vendor with collectors, or the file if there is no row (load_arrays,
\* run_collector_job).  A row ArrayConfig refuses is in no list, and nothing but a line
\* at debug level says so; that is in ListOf, and not claimed to be otherwise.
SettledCollection ==
    \A j \in Jobs :
        job[j].pc = "run" /\ quiet > TTL + LoadTime + LoadTime + LoadTime =>
            job[j].list = ListOf(table)

\* Whatever it interleaves with, a synchronisation (whose own steps are no events) never
\* enables a row that exists, and
\* it overwrites a key an operator chose only if that was chosen in the middle of the
\* array's own transaction.
SyncKeepsChoices ==
    [][\A a \in Arrays :
          table[a].there /\ table'[a].there /\ events' = events =>
              /\ table'[a].enabled => table[a].enabled
              /\ table[a].key = "chosen" /\ table'[a].key # "chosen" =>
                     sync.at = a /\ sync.found # "chosen"]_vars

Collecting(a) == \E j \in Jobs : job[j].pc = "run" /\ a \in job[j].list.on

\* An array that the inventory says is gone, and that the API is used to enable a number
\* of times only, is no longer collected after a time, as long as the table has a row,
\* of a vendor ArrayConfig accepts or not.
GoneIsLeft ==
    \A a \in Arrays :
        <>[](dim[a] \in Gone /\ HasRow(table)) => <>[]~Collecting(a)

\* An array that stays enabled, with a vendor USM has collectors for, is collected again
\* and again, whatever rows ArrayConfig refuses stand beside it.  One that is enabled with
\* another vendor never is.
EnabledIsCollected ==
    \A a \in Arrays :
        <>[](table[a].there /\ table[a].enabled /\ table[a].vendor = "collected") =>
            []<>Collecting(a)

\* What the table says in the end is what the collectors do, both ways.
TableDecides == GoneIsLeft /\ EnabledIsCollected
=============================================================================
