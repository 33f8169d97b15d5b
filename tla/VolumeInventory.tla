--------------------------- MODULE VolumeInventory ---------------------------
(***************************************************************************)
(* The inventory of ONE storage array - its volumes, hosts and groups - as *)
(* the `volumes' collector reads it from the array, guards it, replaces it *)
(* in SQL Server, appends it to volumes_history and mirrors it to SQLite.  *)
(*                                                                         *)
(* Every table is keyed by array_name and a vendor's job has one instance, *)
(* so one array and one collector thread stand for the fleet.  `vendor'    *)
(* says whose collector it is: the six differ in what a failing request    *)
(* leaves in the collected set and in how save() replaces the rows.        *)
(***************************************************************************)
EXTENDS Naturals, FiniteSets

CONSTANTS
    Volumes,     \* volumes the array may have
    Shares,      \* those which Dell lists in its second request (filesystems)
    Undefined,   \* LDEV numbers with no volume behind them (Hitachi)
    Hosts,       \* hosts the array may have
    Groups,      \* its host and protection groups (Pure)
    Configurations, \* the inventories the array may have
    PageLimit,   \* for each vendor, how much of a list one run reads where there is a limit
    Vendors,     \* the vendors this instance considers
    RatioNum,    \* collect_shrink_min_ratio, a fraction
    RatioDen,
    MaxChanges,  \* bound on the changes of the array
    MaxFaults    \* bound on failed requests, refused writes and crashes

AllVendors == {"pure", "netapp", "hpe", "dell", "hitachi", "oracle"}

\* `offline' are the volumes in pools that are not online (Oracle).
Inventory == [volumes : SUBSET Volumes, offline : SUBSET Volumes,
              hosts : SUBSET Hosts, groups : SUBSET Groups]

ASSUME InventoryAssumption ==
    /\ Configurations \subseteq Inventory
    /\ Vendors \subseteq AllVendors
    /\ Shares \subseteq Volumes
    /\ Volumes \cap Undefined = {}
    /\ PageLimit \in [AllVendors -> Nat]
    /\ IsFiniteSet(Volumes) /\ IsFiniteSet(Undefined) /\ IsFiniteSet(Hosts)
    /\ {RatioNum, RatioDen, MaxChanges, MaxFaults} \subseteq Nat

VARIABLES
    vendor,           \* whose array this is; never changes
    array,            \* what the array has: volumes, hosts, groups
    pc,               \* where run() is
    data,             \* what collect() has gathered in this run
    volumes_cache,    \* SQL Server: names stored, and whether sizes came with them
    hosts_cache,      \* SQL Server: hosts stored
    groups_cache,     \* SQL Server: host_groups_cache and protection_groups_cache
    volumes_history,  \* the snapshot volumes_history was last given
    mirror,           \* SQLite: volumes and hosts
    result,           \* how the last run ended, as _job_status shows it
    changes, faults   \* bounded counters

collectorVars == <<pc, data, result>>
sqlVars == <<volumes_cache, hosts_cache, groups_cache, volumes_history>>
vars == <<vendor, array, pc, data, volumes_cache, hosts_cache, groups_cache,
          volumes_history, mirror, result, changes, faults>>

Names == Volumes \cup Undefined
Listing == [names : SUBSET Names, sized : BOOLEAN]
Collected == [names : SUBSET Names, sized : BOOLEAN, hosts : SUBSET Hosts,
              groups : SUBSET Groups, listed : BOOLEAN]
Nothing == [names |-> {}, sized |-> TRUE, hosts |-> {}, groups |-> {}, listed |-> TRUE]

Init ==
    /\ vendor \in Vendors
    /\ array \in Configurations
    /\ pc = "idle"
    /\ data = Nothing
    /\ volumes_cache = [names |-> {}, sized |-> TRUE]
    /\ hosts_cache = {}
    /\ groups_cache = {}
    /\ volumes_history = [names |-> {}, sized |-> TRUE]
    /\ mirror = [volumes |-> {}, hosts |-> {}]
    /\ result = "none"
    /\ changes = 0
    /\ faults = 0

Fault ==
    /\ faults < MaxFaults
    /\ faults' = faults + 1

(***************************************************************************)
(* The array.                                                              *)
(***************************************************************************)

\* Volumes and hosts are created and removed whatever the collector is doing.
Reconfigure ==
    /\ changes < MaxChanges
    /\ changes' = changes + 1
    /\ array' \in Configurations
    /\ array' # array
    /\ UNCHANGED <<vendor, collectorVars, sqlVars, mirror, faults>>

(***************************************************************************)
(* collect(): client.get() answers None on any failure and each vendor's   *)
(* loop goes on with what it has.  First the volume list.                  *)
(***************************************************************************)

\* What one run reads of a list: NetApp's pages up to max_records (5000), one page at
\* Dell (2000), the count asked for at Hitachi (8192).  Nobody is told of the rest.
Page(S) ==
    IF Cardinality(S) <= PageLimit[vendor]
    THEN {S}
    ELSE {part \in SUBSET S : Cardinality(part) = PageLimit[vendor]}

\* What the requests for the list may return when none of them fails.
PureListings == {array.volumes}
NetAppListings == Page(array.volumes)
HpeListings == {array.volumes}

\* LUNs and filesystems are asked for separately.
Luns == array.volumes \ Shares
Filesystems == array.volumes \cap Shares
DellListings == {luns \cup shares : luns \in Page(Luns), shares \in Page(Filesystems)}

\* When the query for defined LDEVs fails, or finds none, one for all of them is
\* tried, which also returns the numbers nothing is defined under.
HitachiListings == IF array.volumes = {} THEN Page(Undefined) ELSE Page(array.volumes)

\* A pool that is not online is passed over as if it had nothing.
OracleListings == {array.volumes \ array.offline}

WholeListings ==
    [pure |-> PureListings, netapp |-> NetAppListings, hpe |-> HpeListings,
     dell |-> DellListings, hitachi |-> HitachiListings, oracle |-> OracleListings]

\* What is left of the list when some of its requests fail.  One request for Pure and
\* HPE, without which no volume is known.
PurePartial == {{}}
HpePartial == {{}}

\* get_all() stops at the first page that fails and returns the pages it has.
NetAppPartial == UNION {SUBSET whole : whole \in Page(array.volumes)}

DellPartial == Page(Luns) \cup Page(Filesystems) \cup {{}}

HitachiPartial == Page(array.volumes \cup Undefined) \cup {{}}

\* Two requests for every project of every pool.
OraclePartial == SUBSET (array.volumes \ array.offline)

PartialListings ==
    [pure |-> PurePartial, netapp |-> NetAppPartial, hpe |-> HpePartial,
     dell |-> DellPartial, hitachi |-> HitachiPartial, oracle |-> OraclePartial]

Authenticate ==
    /\ pc = "idle"
    /\ pc' = "list"
    /\ UNCHANGED <<vendor, array, data, sqlVars, mirror, result, changes, faults>>

AuthenticationFails ==
    /\ pc = "idle"
    /\ Fault
    /\ result' = "failed"
    /\ UNCHANGED <<vendor, array, pc, data, sqlVars, mirror, changes>>

\* Mutant: the LDEV numbers are taken for their host groups.
HostsOfListingByNumber(names) ==
    IF vendor = "hitachi" THEN {names} ELSE {{}}

\* The hosts of a Hitachi array are the host groups its LDEVs are mapped to; a listing
\* that lacks some LDEVs may lack hosts.
HostsOfListing(names) ==
    IF vendor # "hitachi" \/ names \cap Volumes = {} THEN {{}}
    ELSE IF array.volumes \subseteq names THEN {array.hosts}
    ELSE SUBSET array.hosts

Listed(names, whole) ==
    /\ pc' = "rest"
    /\ \E hosts \in HostsOfListing(names) :
           data' = [names |-> names, sized |-> TRUE, hosts |-> hosts,
                    groups |-> {}, listed |-> whole]
    /\ UNCHANGED <<vendor, array, sqlVars, mirror, result, changes>>

\* Mutant: a loop over the pages or projects that may stop early counts as a whole one.
ListVolumesShort ==
    /\ pc = "list"
    /\ \E names \in PartialListings[vendor] : Listed(names, TRUE)
    /\ UNCHANGED faults

ListVolumes ==
    /\ pc = "list"
    /\ \E names \in WholeListings[vendor] : Listed(names, TRUE)
    /\ UNCHANGED faults

ListVolumesDegraded ==
    /\ pc = "list"
    /\ Fault
    /\ \E names \in PartialListings[vendor] : Listed(names, FALSE)

\* The requests after the list.  Hitachi has read its hosts already and Oracle
\* reads none; only Pure has groups, and a size request of its own.
ReadsHosts == {"pure", "netapp", "hpe", "dell"}

\* NetApp's igroups are bounded as its volumes are, and Dell sends one page of hosts.
WholeHosts == IF vendor \in {"netapp", "dell"} THEN Page(array.hosts) ELSE {array.hosts}

Rest(sized, hosts, groups) ==
    /\ pc' = "save"
    /\ data' = [names |-> data.names, sized |-> sized, groups |-> groups,
                hosts |-> IF vendor \in ReadsHosts THEN hosts ELSE data.hosts,
                listed |-> data.listed]
    /\ UNCHANGED <<vendor, array, sqlVars, mirror, result, changes>>

ReadRest ==
    /\ pc = "rest"
    /\ \E hosts \in WholeHosts :
           Rest(TRUE, hosts, IF vendor = "pure" THEN array.groups ELSE {})
    /\ UNCHANGED faults

\* Sizes, hosts, host groups and protection groups of a Pure array are four
\* independent requests; without sizes every volume keeps size = used = 0.
PureRestDegraded ==
    /\ pc = "rest"
    /\ vendor = "pure"
    /\ Fault
    /\ \E sized \in BOOLEAN, hosts \in {array.hosts, {}}, groups \in {array.groups, {}} :
           Rest(sized, hosts, groups)

\* A truncated igroup list.
NetAppRestDegraded ==
    /\ pc = "rest"
    /\ vendor = "netapp"
    /\ Fault
    /\ \E hosts \in UNION {SUBSET whole : whole \in WholeHosts} : Rest(TRUE, hosts, {})

HpeRestDegraded ==
    /\ pc = "rest"
    /\ vendor = "hpe"
    /\ Fault
    /\ Rest(TRUE, {}, {})

DellRestDegraded ==
    /\ pc = "rest"
    /\ vendor = "dell"
    /\ Fault
    /\ Rest(TRUE, {}, {})

(***************************************************************************)
(* save(): one transaction, cut short by a return or by an exception.      *)
(***************************************************************************)

\* would_shrink_below(): never for an empty answer, nor when nothing is stored.
WouldShrinkBelow(stored, incoming) ==
    /\ RatioNum > 0
    /\ incoming # {}
    /\ stored # {}
    /\ Cardinality(incoming) * RatioDen < Cardinality(stored) * RatioNum

Nameless == data.names = {} /\ data.hosts = {}

\* Mutant: the guard compares the two sets the wrong way round.
HostsRefusedSwapped == WouldShrinkBelow(data.hosts, hosts_cache)

VolumesRefused == WouldShrinkBelow(volumes_cache.names, data.names)

HostsRefused == WouldShrinkBelow(hosts_cache, data.hosts)

Measured == [names |-> data.names, sized |-> data.sized]

Done(outcome) ==
    /\ pc' = "idle"
    /\ data' = Nothing
    /\ result' = outcome

Proceed ==
    /\ pc' = "mirror"
    /\ UNCHANGED <<data, result>>

\* Nothing was collected: the rows are kept and the run counts as a success.
KeepOnEmpty ==
    /\ Nameless
    /\ Proceed
    /\ UNCHANGED sqlVars

\* A collapse of the volume list is refused before anything is written.
RefuseVolumes ==
    /\ VolumesRefused
    /\ Done("failed")
    /\ UNCHANGED sqlVars

\* Mutant: the snapshot is taken of the rows before the upsert.
UpsertAllLate(groups) ==
    /\ ~Nameless
    /\ ~VolumesRefused
    /\ volumes_cache' = Measured
    /\ hosts_cache' = data.hosts
    /\ groups_cache' = groups
    /\ volumes_history' = volumes_cache
    /\ Proceed

\* batch_upsert() with delete_missing, then snapshot_volume_history(): each table
\* ends up with exactly the rows collected, be they none.
UpsertAll(groups) ==
    /\ ~Nameless
    /\ ~VolumesRefused
    /\ volumes_cache' = Measured
    /\ hosts_cache' = data.hosts
    /\ groups_cache' = groups
    /\ volumes_history' = volumes_cache'
    /\ Proceed

\* Delete-then-insert: a table whose set came back empty is left alone, and a
\* collapse of the hosts returns from inside the cursor's block, which commits
\* the volumes already replaced and skips the snapshot.
ReplaceCollected ==
    /\ ~Nameless
    /\ ~VolumesRefused
    /\ volumes_cache' = IF data.names = {} THEN volumes_cache ELSE Measured
    /\ UNCHANGED groups_cache
    /\ \/ /\ HostsRefused
          /\ UNCHANGED <<hosts_cache, volumes_history>>
          /\ Done("failed")
       \/ /\ ~HostsRefused
          /\ hosts_cache' = IF data.hosts = {} THEN hosts_cache ELSE data.hosts
          /\ volumes_history' = volumes_cache'
          /\ Proceed

PureSave ==
    /\ vendor = "pure"
    /\ KeepOnEmpty \/ RefuseVolumes \/ UpsertAll(data.groups)

NetAppSave ==
    /\ vendor = "netapp"
    /\ KeepOnEmpty \/ RefuseVolumes \/ UpsertAll(groups_cache)

HpeSave ==
    /\ vendor = "hpe"
    /\ KeepOnEmpty \/ RefuseVolumes \/ ReplaceCollected

DellSave ==
    /\ vendor = "dell"
    /\ KeepOnEmpty \/ RefuseVolumes \/ ReplaceCollected

HitachiSave ==
    /\ vendor = "hitachi"
    /\ KeepOnEmpty \/ RefuseVolumes \/ ReplaceCollected

\* Oracle collects volumes only, so nothing can be refused after the first guard.
OracleSave ==
    /\ vendor = "oracle"
    /\ KeepOnEmpty \/ RefuseVolumes \/ ReplaceCollected

Save ==
    /\ pc = "save"
    /\ \/ PureSave \/ NetAppSave \/ HpeSave \/ DellSave \/ HitachiSave \/ OracleSave
    /\ UNCHANGED <<vendor, array, mirror, changes, faults>>

\* Mutant: a rolled back save counts as a successful one.
SaveFailsSilently ==
    /\ pc = "save"
    /\ ~Nameless
    /\ Fault
    /\ Proceed
    /\ UNCHANGED <<vendor, array, sqlVars, mirror, changes>>

\* get_fast_cursor() rolls everything back when a statement or the commit fails.
SaveFails ==
    /\ pc = "save"
    /\ ~Nameless
    /\ Fault
    /\ Done("failed")
    /\ UNCHANGED <<vendor, array, sqlVars, mirror, changes>>

(***************************************************************************)
(* _write_to_cache(): after a save() that returned True, and never fatal.  *)
(***************************************************************************)

WriteMirror ==
    /\ pc = "mirror"
    /\ mirror' = [volumes |-> IF data.names = {} THEN mirror.volumes ELSE data.names,
                  hosts |-> IF data.hosts = {} THEN mirror.hosts ELSE data.hosts]
    /\ Done("success")
    /\ UNCHANGED <<vendor, array, sqlVars, changes, faults>>

WriteMirrorFails ==
    /\ pc = "mirror"
    /\ Fault
    /\ Done("success")
    /\ UNCHANGED <<vendor, array, sqlVars, mirror, changes>>

\* The process dies: what it has not committed, and _job_status, are gone.
Crash ==
    /\ pc # "idle"
    /\ Fault
    /\ Done("none")
    /\ UNCHANGED <<vendor, array, sqlVars, mirror, changes>>

Collector ==
    \/ Authenticate \/ ListVolumes \/ ReadRest \/ Save \/ WriteMirror

Degraded ==
    \/ AuthenticationFails \/ ListVolumesDegraded
    \/ PureRestDegraded \/ NetAppRestDegraded \/ HpeRestDegraded \/ DellRestDegraded
    \/ SaveFails \/ WriteMirrorFails \/ Crash

Next == Reconfigure \/ Collector \/ Degraded

Spec == Init /\ [][Next]_vars

\* The interval trigger starts the job again and again and each run ends.
LiveSpec == Spec /\ WF_vars(Collector)

(***************************************************************************)
(* What is checked.                                                        *)
(***************************************************************************)

\* The type invariant.
TypeOK ==
    /\ vendor \in AllVendors
    /\ array \in Inventory
    /\ pc \in {"idle", "list", "rest", "save", "mirror"}
    /\ data \in Collected
    /\ volumes_cache \in Listing
    /\ hosts_cache \subseteq Hosts
    /\ groups_cache \subseteq Groups
    /\ volumes_history \in Listing
    /\ mirror \in [volumes : SUBSET Names, hosts : SUBSET Hosts]
    /\ result \in {"none", "success", "failed"}
    /\ changes \in Nat
    /\ faults \in Nat

Upserts == {"pure", "netapp"}

\* Whatever requests fail and whatever order things happen in, the volumes of an
\* array only ever change to a set that is no collapse of the stored one; the two
\* vendors that upsert may in addition empty the table (save()'s two guards).
VolumeTable == INSTANCE GuardedTable WITH
    rows <- volumes_cache.names, guarded <- TRUE, erasable <- vendor \in Upserts
VolumesGuarded == VolumeTable!Spec

\* The host table of the vendors that delete and insert is guarded in the same way
\* and never emptied; that of the two that upsert is not guarded at all.
HostTable == INSTANCE GuardedTable WITH
    Names <- Hosts, rows <- hosts_cache,
    guarded <- vendor \notin Upserts, erasable <- vendor \in Upserts
HostsGuarded == HostTable!Spec

\* Both tables of an array.
TablesGuarded == VolumesGuarded /\ HostsGuarded

\* SQLite is written second: it only ever takes over rows SQL Server has committed
\* and still holds, whatever was refused, rolled back or interrupted in between.
MirrorFollowsPrimary ==
    [][mirror' # mirror =>
         /\ mirror'.volumes \in {mirror.volumes, volumes_cache.names}
         /\ mirror'.hosts \in {mirror.hosts, hosts_cache}]_vars

\* volumes_history records exactly what was just persisted: a step that changes the
\* stored volumes either appends them as stored or reports its run as failed.
ChangeRecorded ==
    [][volumes_cache' # volumes_cache =>
         volumes_history' = volumes_cache' \/ result' = "failed"]_vars

\* The stored rows are a listing that the array gives when nothing fails: all of its
\* volumes, except those beyond the vendor's page or in an Oracle pool that is not online.
\* The hosts are those of such an answer too; an Oracle run reads none, and those of a
\* Hitachi array are whole only with the list of its LDEVs.
VolumesCaughtUp ==
    {} \notin WholeListings[vendor] => volumes_cache.names \in WholeListings[vendor]

HostsWhole ==
    /\ array.volumes # {} /\ array.hosts # {}
    /\ vendor # "oracle"
    /\ vendor = "hitachi" => array.volumes \in WholeListings[vendor]

HostsCaughtUp == HostsWhole => hosts_cache \in WholeHosts

\* When the array and its answers have settled, either the inventory catches up with what
\* the array lists or every run from then on is reported as failed: whatever was refused,
\* half collected or lost before, no rows of another time stay behind in silence.
\* An answer without volumes is read as none.
CatchesUpOrFails == <>[]((VolumesCaughtUp /\ HostsCaughtUp) \/ result = "failed")

\* The guard of pure and netapp is there so that a transient API error does not wipe
\* the array's inventory (pure/volumes.py, netapp/volumes.py).
FailedRequestKeepsVolumes ==
    [][pc = "save" /\ ~data.listed => volumes_cache'.names # {} \/ volumes_cache.names = {}]_vars
=============================================================================
