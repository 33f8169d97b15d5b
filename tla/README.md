# Verification of the storage monitoring service (app-usm)

The service polls a fleet of storage arrays of six vendors, keeps what it finds in a
SQL Server schema (`USM`), and tells Teams and Datadog about alerts.  This directory
holds TLA+ models of the parts whose correctness depends on the order in which things
happen, the TLC runs that check them, and proofs of the results that hold for every
size.  `PROJECT.json` is the machine-readable index: components, runs, mutants, the
map from each definition to the lines it stands for, findings, hazards and theorems.

Paths below are relative to `src/backend/app/` unless they start with `src/`.

## 1. Inventory

| Component | State it keeps | Operations | What is hard | What makes it correct |
|---|---|---|---|---|
| Alert collectors (`collectors/*/alerts.py`, `storagegrid_alerts.py`, `alert_utils.py`) | rows of `USM.messages`: resolved, teams_notified, datadog_notified, occurrence_count | poll: fetch, upsert, resolve by absence or age, close in Datadog, page, announce to Teams | each step is its own transaction or POST and may fail alone; a crash between them; partial fetches, answers that end at a page | an open Datadog event is never lost track of; nobody is told twice; an alert an answer reports is not closed; what is closed is closed everywhere in the end |
| Notification clients (`services/notification.py`) | none (the events live in Datadog, keyed by vendor:array:message_id) | Teams POST, Datadog open, Datadog ok | a lost answer looks like a refusal | retries never lose an event |
| Capacity alerts (`services/capacity_alerts.py`) | one row of `USM.messages` per threshold | check: resolve the inactive thresholds, upsert and announce the active one | Teams is called inside the transaction; the vendor's resolver and the purge work on the same rows; two threads may check | one open threshold per array; every lasting condition is announced |
| Volume and host collectors (`collectors/*/volumes.py`; `batch_upsert`, `would_shrink_below`, `snapshot_volume_history` of `db/session.py`) | `volumes_cache`, `hosts_cache`, groups, `volumes_history`, the SQLite mirror | list, read details, guard, replace, snapshot, mirror | partial fetches; a `return` inside a transaction; lists that end at a page; two stores, one failing | a collapse is refused; what the array lists is what is stored |
| Metrics collectors (`collectors/*/metrics.py`) | `metrics_current`, `metrics_history` | fetch, skip or save | a failed request reads as zero capacity | nothing is stored that no answer gave |
| Statistics and retention (`services/stats.py`) | `daily_stats`, the two history tables | aggregate, delete in batches | several statements see several states; a delete that commits before the insert | a day's row is never lost; what expires goes |
| KeePass cache (`services/keepass.py`) and connection string (`db/session.py`) | credentials with an expiry, one string | get, refresh before expiry, midnight refresh, build | calls outside the lock finish in any order; check-then-write across two lock sections | a cached key is always served; an outdated password does not stay |
| Settings and paging switch (`api/v1/settings.py`, `_paging_runtime`) | `app_settings`, a 30 s cache in another process | enable, disable, read | two transactions, torn reads of a shared dict, fail-open | turning it on takes effect; turning it on never pages the backlog |
| Array inventory (`services/inventory.py`, `api/v1/arrays.py`, `load_arrays`) | `managed_arrays`, a list of it shared by the jobs | nightly sync, manual edits, load, invalidate | one transaction per array, edits racing the sync, a load under way when invalidated | enabled arrays of a vendor with collectors are polled, gone ones are not, and the sync respects choices |
| Scheduler (`collectors/scheduler.py`, `api/v1/scheduler.py`) | APScheduler jobs, job status | run a job over all arrays, maintenance jobs, run/pause/interval from the API | one thread pool for all jobs | one cycle per job at a time |
| Collector base and SQLite cache (`collectors/base.py`, `db/cache.py`) | local read cache | run(), dual write | two stores, one failing | the cache never holds what the store refused |
| Backup summary job (`src/jobs/cvlt-backup-summary`) | job rows, event rows, tokens | load report, send failures, send resolutions | a run may die anywhere, POSTs precede the commit | one event per failure, the first recovery told |
| External API (`core/external_auth.py`) | request times per key | authenticate, rate limit | one window per worker | limit per window |
| Read API, chat, MCP, front end, mock-up, deployment | - | queries, presentation | - | - |

The collectors run in one process (`src/deploy/base/collector.yaml`: one replica,
strategy Recreate), the API in another; they share the SQL Server tables, and the API
process may run a capacity check of its own.  Everything else meets in the store.

## 2. Modules

| Module | Models | Instance | Proofs |
|---|---|---|---|
| `AlertLifecycle` | the alerts of one array, from the array through `USM.messages` to Teams and Datadog, for each of seven vendors | `MCAlertLifecycle` | `AlertLifecycleProofs` |
| `AlertLedger` | the abstract promise about an alert, its Datadog event and its Teams message, implemented by `AlertLifecycle` for every vendor | - | in `AlertLifecycleProofs` |
| `CapacityAlerts` | the threshold rows of one array, its checks, and the other writers of those rows | `MCCapacityAlerts` | `CapacityAlertsProofs` |
| `PagingSwitch` | the run-time switch of Datadog paging, from the API's two writes to the page | `MCPagingSwitch` | `PagingSwitchProofs` |
| `VolumeInventory` | the volumes, hosts and groups of one array through guard, tables, history and mirror, for each of six vendors | `MCVolumeInventory` | `VolumeInventoryProofs` |
| `GuardedTable` | the abstract promise of an inventory table, implemented by `VolumeInventory` twice | - | - |
| `MetricsStore` | polls of capacity, the daily statistics and the retention of both histories | `MCMetricsStore` | `MetricsStoreProofs` |
| `Credentials` | the KeePass cache entry of SQL Server and the connection string made from it, in real time | `MCCredentials` | `CredentialsProofs` |
| `ArrayRegistry` | `managed_arrays`, the nightly synchronisation, and the list the jobs collect by | `MCArrayRegistry` | `ArrayRegistryProofs` |
| `BackupEvents` | the backup summary job over many runs | `MCBackupEvents` | `BackupEventsProofs` |

No two modules own the same table.  Where components touch, one models what the other
does to it: the vendor's resolver and the purge are actions of `CapacityAlerts`, what a
volume collector appends to `volumes_history` is `Snapshot` of `MetricsStore`, and the
free choice `PagingReads` of `AlertLifecycle` (whatever the switch reads as) is worked
out in `PagingSwitch`.

Where a vendor's code differs, there is a definition for it; where six or seven
collectors repeat the same code, one definition stands for all of them and the map
names one of them, each time another.

Operators whose comment begins `Mutant:` are not part of a model.  Each is a plausible
slip in one definition; `PROJECT.json` says which property must fail when it takes that
definition's place.

### AlertLifecycle

One array and the thread that polls it.  `collector.phase` is the program counter of
`BaseCollector.run()` and the vendor's `save()`; its other fields are the locals that
outlive a transaction: the fetch, `new_alerts`, the loop variables.

| State | Code |
|---|---|
| `messages[k]` | row of `USM.messages` with key `(array_name, message_id)` |
| `datadog[k]` | the event Datadog holds under aggregation key `vendor:array:message_id` |
| `collector` | `run()`, `save()`, `push_datadog_resolutions()`, `dispatch_datadog_new()` |
| `seed` | the hash seed of the process: Dell and Oracle use `hash()` for `message_id` |
| `lost` | history only: keys whose open event the store failed to record |
| `missed` | history only: alerts that were up and left out of an answer that counted as one |

A transaction is one action (`PureSave` ... `NetAppSave`, `ResolveAbsent`, `ClearFlag`,
`Stamp`, `Mark`), and so is each outcome of a POST: acknowledged, taken with the answer
lost (`...Unacked`), refused.  The vendors differ in what a fetch can return (below), in
how `save()` is cut into transactions (Pure closes absent rows in the upsert's own; the
others in a second one; NetApp by age), and in whether an update reopens a row (NetApp's
does not).  The purge interleaves with all of it.

A fetch is one request (`FetchPage`) or one per endpoint of which any may fail
(`FetchByEndpoint`: Hitachi, StorageGRID), over the alerts that are up or those in the
vendor's look-back window.  Three vendors read one page and take it for the whole answer:

| Vendor | Bound | Order | Model |
|---|---|---|---|
| Dell | `per_page` 100, one GET (`collectors/dell/alerts.py:60-64`) | none asked for | `AnyPage` |
| NetApp | `max_records` 200 of all EMS events (`collectors/netapp/alerts.py:65-74`) | newest first | `NewestPages` |
| Hitachi | 1024, 256 and 256 by type (`collectors/hitachi/alerts.py:40-42`) | newest first | `NewestPerEndpoint` |

The rest of a page goes to alerts and events outside `Ids`, so with `"page"` among
`Faults` a page may end anywhere, before the first alert of `Ids` too.  The other four
send no bound.  `beyond` holds what did not fit, `unanswered` what a failed endpoint
would have reported, and `Unseen` is both, of an answer that counted.

`AlertLedger` is what the seven have in common, without cycles, lists or faults: only an
alert that is open at that moment is paged or told to Teams, only one that is not has its
event resolved, and an event is written off (`datadog_notified` cleared) only once it is;
track of an open event is lost only into `lost`.  In the code each of these reads its
rows many transactions and POSTs earlier, so `LedgerKept`, that `AlertLifecycle`
implements it, is a statement about every list a cycle carries.

### CapacityAlerts

`check[c]` is a thread inside `check_array_thresholds()`: the threshold it is at, the
row it read before writing, and its uncommitted rows (`View` reads through them; `Free`
is SQL Server's row lock).  `Begin`, `ResolveAlert`, `ReadExisting`, `UpsertAlert`, the
three Teams outcomes, `MarkNotified` and `Commit` follow the loop over the thresholds;
`Abort` is a rollback anywhere, which cannot take back a Teams message.  `VendorPoll`
is `resolve_absent_alerts()` of the array's own collector, `AlertCleanup` the purge.
The fleet's projected-full alert is the same code with one threshold and no resolver.

### PagingSwitch

| State | Code |
|---|---|
| `enabled`, `since` | `datadog_paging_enabled`, `datadog_paging_since` in `app_settings` |
| `request[o]` | a call of `set_datadog_paging()`: between its two transactions it holds the time it took |
| `cache` | `_paging_cache` of the collector process, with what is left of its 30 s |
| `job[j]` | a thread in `dispatch_datadog_new()`: `ReadCache` and `ReadCacheSince` read the shared dict in two steps, `Select` reads the table, `UpdateCache` publishes |
| `quiet`, `turned_on` | history only |

Time is counted down: a job's `left` bounds the time from reading the settings to its
last POST.  A failed read of the table leaves the cache alone, and with an empty cache
the switch counts as on.

### VolumeInventory

`pc` follows `run()` of a volume collector: authenticate, list the volumes, read the
rest, `save()`, write the mirror.  `data` is what `collect()` has gathered.

| State | Code |
|---|---|
| `volumes_cache`, `hosts_cache`, `groups_cache` | the rows of this array in SQL Server |
| `volumes_history` | the last snapshot appended for the array |
| `mirror` | the SQLite rows written by `_write_to_cache()` |
| `result` | the outcome of the last run in `_job_status` |

A listing without a failed request (`WholeListings`) need not be whole, and the run that
stores it succeeds.  `PageLimit` is how much of a list one run reads: 5000 volumes or
igroups at NetApp (`collectors/netapp/client.py:121,136`), one page of 2000 LUNs,
filesystems or hosts at Dell (`collectors/dell/volumes.py:50,85`; for the hosts no size
is asked for), 8192 LDEVs at Hitachi (`collectors/hitachi/volumes.py:52`).  The Oracle
collector passes over every pool that is not `online`
(`collectors/oracle/volumes.py:73-75`; `array.offline`).  Which volumes a page holds is
left open.  The code's limits also count what a collector skips afterwards; the
model counts the volumes that would be stored.

What a failed request leaves behind is the other difference between the vendors: nothing
(Pure, HPE), the pages before it (NetApp), one of two lists (Dell), any of the projects
(Oracle), every LDEV with undefined ones among them (Hitachi); `...Listing` and
`...RestDegraded` say so one by one.  `save()` comes in two forms.  Pure and NetApp
upsert, unless volumes and hosts are both empty, and delete what was not upserted.  The
others delete and insert, unless the new set is smaller than `collect_shrink_min_ratio`
(one half, unless configured) of the old one; the hosts are guarded after the volumes were
written, and the `return False` there leaves the cursor's block normally, so that the
volumes are committed and the history and the mirror are not (`HostsRefused`).

`GuardedTable` says what a reader of either table may rely on: its rows are only ever
replaced by a set that is no collapse of them, except that a table of an upserting
vendor may be emptied (finding 2), and that such a vendor's hosts are not guarded.
`VolumeInventory` implements it once with the volumes and once with the hosts.

### MetricsStore

`poll[a]` is a metrics collector between `collect()` and `save()`; a capacity says whether
one was `found` and which pools are counted in it, none being a total of zero.
`PureCapacity` ... `HitachiCapacity` give what each collector may find when requests
fail or answers lack sizes.  Five vendors set `capacity_total` only if it is not zero
(`Positive`); Pure takes a missing `capacity` for 0 (`collectors/pure/metrics.py:107-109`)
and NetApp adds up whatever aggregates it has (`collectors/netapp/metrics.py:131-148`), so
these two may find a zero.  `Skip` is the guard of every `save()` against a missing
capacity, which a zero passes; `Save` writes both tables.  `stats`
is `calculate_daily_stats()` with one step per statement, which sees what is committed
by then; `cleanup` is `cleanup_old_history()`, one DELETE for the metrics and batches
for the volumes, each failing alone.

### Credentials

`cached` and `left` are the cache entry and what remains of its life, `conn_str` and
`lock` the connection string and its lock, `pc`, `got` and `timer` the callers: threads
in `get_credentials()`, the refresh thread, the midnight job.  KeePass is asked outside
the lock; `Store` and `Extend` (the failure path that reads an entry, releases the lock
and writes it back) are steps of their own.  `Tick` lets time pass unless a call would
outlive its timeout or the refresh thread its period.

### ArrayRegistry

`table` is `managed_arrays`, `dim` the company's `DimStorageFinance`, `sync` the nightly
synchronisation with the rows it has read and the array it is at, `cache` and `job` the
list that `load_arrays()` shares between jobs in two separate globals (`StoreList`, then
`StoreTime`).  Operators add, update and delete rows and invalidate the list; the file
`arrays.txt` is used when the table is empty or cannot be read.

What a row's vendor means to the collectors is part of the row.  `"collected"` vendors
have collectors; `"listed"` ones are in `VendorType` without any (Commvault, Veeam,
Nimble), so their arrays are loaded and never collected; `"invalid"` ones are no
`VendorType`.  `PUT` takes any string (`schemas/array.py:154`) and the sync stores an
unmapped vendor as it is (`services/inventory.py:115`).  `load_arrays()` skips a row that
`ArrayConfig` refuses (`collectors/scheduler.py:68-87`), which `ListOf` says: a refused
row is in no list, and a table of nothing but such rows gives an empty list, not the
file.  The vendors of `arrays.txt` are all collected ones, since another raises there.
`FinalKey` may find no credential key: `resolve_cred_key()` gives `None` for several
vendors, models and sites.

### BackupEvents

`run.phase` is the position in `main()`: report, renew, write and dump (the two halves
of rewriting `secrets.json`), report again, load, query, send, query, fix.  `summary`
and `events` are the two Postgres tables, `tokens` is the pair Commvault expects and
the one on the volume.  Every POST has three outcomes; `Killed` ends a run anywhere;
`Reseed` is the operator's remedy for a lost pair.  `datadog` is history: what Datadog
took, and which failures no later run can know were sent.  Runs do not overlap
(`concurrencyPolicy: Forbid`); a smoke run started by hand beside one is not modelled.
The report lists finished jobs only, so a row never changes after it is loaded.

There is one event row per check.  Once it is resolved it stays so: a later failure is
sent but not recorded (`ON CONFLICT DO NOTHING`, lines 506-510), and
`QueryFailures` looks at rows with `resolved_time IS NULL` only (line 545).
`FirstRecoveryAnnounced` is therefore about the first recovery, and
`SilentOnceResolved` says that the later ones are never sent, which needs more jobs than
the run has and is proved for any number.

## 3. Runs

| Run | Question | Result |
|---|---|---|
| `lifecycle_safety` | every vendor, every fault, pages that end, purge, one restart with another seed | the collectors implement `AlertLedger`, open events are tracked, nobody is told twice, closures and occurrence counts are genuine wherever no answer left the alert out |
| `lifecycle_live` | every vendor, outages that end | closed alerts are closed in the store and in Datadog, severe ones are announced unless they stay beyond the page |
| `lifecycle_reopened` | is a recurring alert open in Datadog? | no: finding 1 |
| `capacity` | two thresholds, every fault, resolver and purge | one open threshold, no unexplained repeat, a lasting condition is announced |
| `paging` | two requests against two jobs that share a cache | paging settles to what the table says; turning it on takes effect |
| `paging_backfill` | does turning paging on leave the backlog alone? | no: finding 3 |
| `volumes` | every vendor, every fault, the array changing at any step | both tables implement `GuardedTable`, the mirror follows, changes are recorded, and the rows catch up with what the array lists or the runs fail |
| `volumes_wiped` | does a failed request keep the volumes? | no: finding 2 |
| `metrics` | every vendor, the daily and the nightly job over three days | no capacity that no answer gave, history backs the current row, daily rows are kept, what expires goes |
| `credentials` | two threads and both refreshers in real time, rotations, failing calls, restarts | a cached key is served, a rotation is seen, the string is built once |
| `registry` | operators, the sync and two jobs | the table decides who is polled, but for rows it does not load and vendors without collectors; the sync keeps choices |
| `backup` | many runs, every fault | rows are genuine, repeats explained, the pair kept, failures and first recoveries told |

### Bounds, and why they are enough

- Alert runs: one alert in each.  Rows never influence each other but through the loops
  of a cycle, whose interruptions a single row already meets, and through a page, which
  holds the alert or not.  That a page is newest first relates two alerts and matters
  in the proofs only, which are for any number.  `MaxRaises = 2` gives a
  first occurrence and a recurrence, `MaxTime` one tick more than the ages compared
  with it, so that each age is seen on both sides; one restart and two seeds give a row
  orphaned by a changed hash.  The types and the safety properties are proved for every
  value of these bounds, `OccurrenceGenuine` as far as row keys do not come back.
- `capacity`: two thresholds are the least with an active and an inactive one above and
  below; the clock reaches the resend window.  `HighestOnly` and `PostGenuine` are
  proved for any number of thresholds.  Both are checked for one checker and
  proved for any number whose checks do not overlap: two at once, which the API's manual
  check allows, can leave two thresholds open until the next check, and both may announce
  what they found due.  That there are never more open thresholds than checkers is proved
  without that condition.
- `paging`: two requests interleave their writes with each other, two jobs share the
  cache; the cache outlives a dispatch, and one fault is enough to leave a first write
  without its second or a read without an answer.  `SettledPaging` is proved for all.
- `volumes`: one array, because every table is keyed by `array_name`. Three volumes and a
  ratio of 3/5 separate the cases of the guard: 2 of 3 is kept, 1 of 3 and 1 of 2 are
  refused, an empty set passes or not by vendor. Page limits of two, and of one at Dell,
  cut the longest lists and no others; one configuration has an offline pool. Two changes
  let the array shrink and grow again; two faults let one request fail twice, or two in
  one run.
- `metrics`: one array; two pools make a partial answer differ from none and from all; one
  vendor of each sort (`SameAnswers` compares the others).
  Windows of one and no day, a calendar of three, and a batch of one row bring every
  row to its window and make the cleanup need several batches.
- `credentials`: the refresh thread's period and the longest call are one unit, renewal
  begins two before expiry, an entry lives four and is extended by three: the least
  values in the order of the code's (60 s + 15 s, 3600, 14400, 86400).  Two rotations
  make an old and an older password.  The three properties are proved for all values in
  that order.
- `registry`: the sync goes array by array and rows never meet, so one array and one
  change at a time show every interleaving of an edit, the sync and a load; two jobs
  share the list.  `MaxEvents = 1` bounds edits, changes of the inventory,
  restarts and failing queries together, in every position among the jobs and the sync;
  an edit may give a row any vendor.  The safety properties are proved for any number.
- `backup`: two checks, so that the failure of one POST meets another check's event, and
  two jobs, so that a check fails twice, fails and recovers, or recovers first. That a
  second recovery is silent takes three jobs of one check and is proved instead.  Two
  token pairs give one rotation; further ones are renewed in place.  The four safety
  properties are proved for every number of checks, jobs and pairs.

### Fairness

The safety runs assume none.  The live specifications assume:

- The clock ticks and a thread goes on (`WF` of `Tick`, `Cycle`, `Collector`, `Step`,
  `SyncStep`): APScheduler starts each job at every interval, the sync and the cleanup
  by cron; each request has a timeout; Kubernetes starts the CronJob.
- In `AlertLifecycle`, `CapacityAlerts` and `BackupEvents`, outages end
  (`<>[][~Outage]_vars`): from some time on requests and transactions succeed.  A page that
  ends before an alert is no outage and may last for ever: `EventuallyAnnounced` is about
  alerts that are not beyond a page from some time on.  When
  that is, and what failed before, is free, so the properties say that the state any
  outage leaves behind is one the retries recover from.  A fault that strikes where the
  step had nothing to do looks the same as the step succeeding, so `Outage` leaves out
  the steps that `Success`, `Commit` or `Progress` also allow: otherwise it would forbid
  the ordinary idle cycles as well.  A backup token outlives a run (part of `Outage`).
- In the other modules faults are counted, which is the same assumption.  Weak fairness
  of a step is enough there: a counted fault cannot disable it for ever.  `MetricsStore`
  asks it of each statement of the cleanup, since a failing one goes on to the next.

Nothing is assumed of the arrays, the utilisation, the purge, crashes, operators or
requests: they may stop at any point, between the two writes of the switch too.
`Credentials` has no liveness: its promises are bounds in time, stated as invariants.

## 4. What is proved

Each theorem holds for every value of the constants that the module's named assumption
allows.  The assumptions are types and non-negative bounds, with these exceptions:
`ConstantsAssumption` of `AlertLifecycle` asks `FetchAge <= ResolveAge`, as the NetApp
defaults have it; `TimingAssumption` of `Credentials` asks
`Period + Latency <= RefreshBefore < StaleExtend <= CacheTTL`, as the constants of
`services/keepass.py` have it; `InventoryAssumption` that the sets of an array are finite.

`AlertLifecycleProofs`

- `TypeCorrect`: types, along the invariant that a key being posted is one of the keys.
- `OpenEventsTracked`, `NeverPagedTwice`: `EventTracked` is inductive together with the
  types and `PostedKey` (in the phases that follow a POST, `cur` holds the one key that
  was posted).  Without it a stamp could set the flag of another row than the one
  delivered.  `NeverPagedTwice` follows: a page of an open event finds its flag unset,
  so the event is in `lost`, or the flag could not be read and the key enters `lost`.
  No run checks it by itself: `LedgerKept`, where `Page` of a known event enters `lost`,
  contains it.
- `LedgerIsKept` is the refinement of `AlertLedger`.  Most of it is `ListInv`: what a
  thread has read still holds when it uses it.  Alerts to be paged or told are open, rows
  to be settled are not, and the key held after a page is one whose event is open; the
  purge removes closed rows only, and no other thread opens or closes one.  NetApp's
  updates do not reopen a row, so there `AgedInv` is needed: a closed row is older than
  anything a request still returns, and an alert that is returned is open.  This is where
  `FetchAge <= ResolveAge` comes in.
- `ResolutionStaysDue` is what `AlertLedger` promises of the closing path (`NeverDropped`),
  inherited through the refinement: the event of a closed alert, once known, stays due to
  be resolved until it is, or the alert reopens or is purged.  It is the safety half of
  `ResolutionReachesDatadog`.
- `NeverAnnouncedTwice`: `new_alerts` is decided long before Teams is called, so the
  invariant carries `Unannounced` through the phases: the keys still to be announced
  have rows without `teams_notified`.
- `ClosedOnlyIfGone`: a row is closed by what an earlier fetch saw, and the array moves
  on meanwhile.  `FetchInv` says that a fetch which counts saw exactly what was up when
  the array was asked, less what the answer left out (`Unseen`), until `save()` has used
  it, and that only NetApp closes by age.  The exceptions are causes, not vendors: the
  alert was left out, NetApp's row has aged, or the row's key is of another hash seed.
- `RecurrencesAreGenuine`: `CountInv` relates the count of a row, its state and how often
  the array raised the alert: the count of a row that is closed, or will be closed by
  the fetch in hand, is behind the array's if a fetch can still return the alert, so the
  recurrence it may yet be counted is a real one.  It says so of every alert that no
  answer has left out (`missed`), at any vendor: one that has been closed for not being
  on the page and returns is counted as a recurrence that was none.
- `FreshKeysCountGenuinely` is the same for any number of restarts and seeds, under
  `FreshKeys`: a new seed never names a row that exists.  TLC shows that this is needed:
  the second restart of a process may draw the first seed again, find the rows it had
  left and count a recurrence that was none.  `RecurrencesAreGenuine` derives it from
  `FewKeys` (a pinned seed, no vendor that hashes, no crash, or at most one restart), which
  the run's bounds satisfy.
- `MirroredUntilRecurrence` bounds finding 1: while paging is on, no POST is refused, no
  crash cuts a cycle short and no alert recurs (`NothingRecurs`; HPE's and NetApp's never
  do), what it says is true of every alert no answer has left out, however requests,
  transactions and answers to POSTs fail otherwise.  `MirrorInv` says that a severe,
  recent, open alert is open in Datadog or its page is still to come in this cycle
  (`Ahead`), and that a flag on an open row tells the truth; `CountInv` shows that an
  upsert then reopens nothing.  TLC refutes it when any one of the hypotheses is dropped.

`CapacityAlertsProofs`

- `CapacityTypes`, along with `AtActive`: between reading a row and recording the
  message a thread is at the threshold it found active.
- `OpenThresholdsPerChecker`: however many checks of an array run at once, no more
  thresholds are open than there are checkers.  `OwnersInv` says that the open rows can be
  told apart by their openers: there is a function from thresholds to the checkers that
  committed them as active under which no two open rows have the same opener
  (`Distinct`), and a row that checker `c` has walked past and still sees as open is
  another's (`Passed`).  When `c` commits, what it has opened before is therefore closed,
  and its active row becomes its own.  `Locks` (a row is written by one transaction at a
  time) keeps the others' views true while it does.
- `SerialHighestOnly` and `SerialRepeatsAreGenuine` hold of any number of checkers while
  checks do not overlap (`Alone`): a manual trigger that comes between two scheduled
  checks does no harm.  `Solo(c)` says that `c` is the one checking, or may be the next
  to, and that the open rows are all its own; between two checks nothing tells who opened
  a row, so the turn passes to whoever begins.  For the repeats, `RowsRemember` says that
  the last message of a threshold is recorded in an open row, or excused (lost, or closed
  since), or that of the transaction under way; `ViewRemembers` says the same of the rows
  that transaction will commit, and `Posting` carries the decision to post from the row
  that was read to the message that is sent, while the resolver may close the row in
  between.
- `SingleCheckerHighestOnly` and `RepeatsAreGenuine` are the case of one checker, whose
  checks cannot overlap.

`BackupEventsProofs`, all from one inductive invariant `IInv`

- `Locals` says what `todo`, `sent`, `fixed` and the token mean at each phase;
  `Accounted` says that a failure Datadog took is held by the run, recorded under its
  check, or in `lost`.
- `BackupTypes`, `RecordsAreGenuine` and `PairIsKept` are its conjuncts.
  `RepeatsAreExplained` follows from `Accounted` and from `todo` and `sent` being
  disjoint.
- `LaterRecoveriesSilent` (`SilentOnceResolved`) is the limit of
  `FirstRecoveryAnnounced`: `FixesOpen` says that what a run is about to resolve are
  checks whose row is still unresolved, and no other step resolves a row.

`VolumeInventoryProofs`

- `TablesAreGuarded` is the refinement: `VolumeStep` and `HostStep` show that every
  action is a step of `GuardedTable` on either table or leaves it alone.  The guard of
  `save()` reads the rows in the transaction that replaces them, which is why no
  invariant but the types is needed.
- `MirrorSecond` needs `Persisted`: when the mirror is about to be written, what was
  gathered and is not empty is what SQL Server holds.  `ChangesRecorded` goes over the
  ways to save, of which only the refused hosts leave the history behind.
- `OnlyBesideHosts` and `InsertersKeepVolumes` bound finding 2: a stored list of volumes is
  emptied only by Pure or NetApp, and only by a run that found no volume beside hosts it
  did find; the four other vendors keep `FailedRequestKeepsVolumes`.

`CredentialsProofs`

- `AlwaysServed`: `Slack` says that, once faults are long enough ago, an entry due for
  renewal has a scan or a call under way that ends before it expires; `Timers` bounds
  calls and sleep.
- `RotationAlwaysSeen`: `Outdated` and `InHand` bound how long an entry, or an answer in
  some thread's hands, that is not the current password may still be valid, by what is
  left since the last rotation.  A write-back of a stale entry does not restart that.
- `StringBuiltOnce`: `Locked` says that a thread which builds holds the lock and found
  no string under it.

`PagingSwitchProofs`, `ArrayRegistryProofs`

- Both have a cache that several threads fill and read without a lock.  `CacheAged` says
  that a cached value which is no longer the table's is younger than `quiet` allows, and
  `Aged(j)` the same of what thread `j` holds; together they are inductive, and
  `PagesBySettings` and `CollectsByTable` are what they say once `quiet` has passed the
  sum.  The sum has two dispatches, and for the registry three loads: a thread may
  store late what another then uses for a whole life of the cache.  The list is
  `ListOf(table)`, so what `CollectsByTable` says of an array is: it is collected if and
  only if its row is enabled, `ArrayConfig` accepts it and its vendor has collectors.
- `BacklogLeftAlone` bounds finding 3: as long as requests do not overlap (`Apart`) and
  none loses its second transaction (`StampLost`), no alert from before the switch was
  turned on is paged once that transaction, one life of the cache and two dispatches are
  over.  `Marked` says that the mark stored or about to be is no older than the turning
  on; TLC refutes the statement without either hypothesis.
- `ChoicesKept` goes over the steps of the sync with `AtTyped`: the array a row is
  written for is the one that was looked up.

`MetricsStoreProofs`

- `StoredIsAnswered`: no table has a capacity that no answer gave.  `Genuine` allows a zero
  for Pure and NetApp only, and less than all pools only where the vendor gives sizes pool
  by pool.  `PollGenuine` and `StatsCovered` carry what a poll or the daily job
  has in hand to where it is stored.  `StatsCovered` rests on `metrics_current` never
  losing a row: an array that was counted has a capacity when it is summed.
- `CurrentIsInHistory`: a reading is stored no earlier than the day it was made
  (`PollGenuine`), so its row is not removed before the reading is old.  `DailyIsKept`
  follows from `StatsCovered`: what the daily job has counted includes what the row it
  replaces counted.

Only model-checked: the liveness properties (`ResolutionReachesDatadog`,
`ClosureReachesStore`, both `EventuallyAnnounced`, `FailureAnnounced`,
`FirstRecoveryAnnounced`, `CatchesUpOrFails`, `OnTakesEffect`, `TableDecides`,
`ExpiredRemoved`), which are out of the proof system's reach.  `OccurrenceGenuine` does
not hold, and is not claimed, for a process that draws an earlier hash seed again.

## 5. Findings

Refuted by a run:

1. An alert that clears and comes back is reopened in the store but not in Datadog:
   `teams_notified` stays set, so the alert is not among `new_alerts`.
2. The guard of Pure and NetApp keeps the stored rows only when neither volumes nor
   hosts were collected, so a failed volume list beside hosts that were read deletes
   every volume of the array.
3. Turning paging on is two transactions; a collector that reads in between, or after
   the second failed, pages alerts opened while it was off.

Met while modelling, and visible in the models, without a run of their own:

- Alerts.  Hitachi and StorageGRID set `fetch_ok` when any of several requests answers:
  one failed request closes the alerts it would have reported.  Dell, NetApp and Hitachi
  read one bounded page as if it were the whole answer: Dell and Hitachi close what is
  beyond it, and an alert that stays beyond it is never announced.  In both cases
  the return of such an alert counts as a recurrence (hence `Unseen` and `missed` in the
  properties).  The purge deletes resolved
  rows by age, with a `datadog_notified` that says their event has yet to be closed.
- Capacity alerts.  A reopened row is judged by what was read before the reopening
  cleared its timestamp, so the next check announces it, not this one.  The vendor's
  resolver closes these rows at every poll, so a condition is announced after each poll
  rather than once per resend window.
- Paging.  `datadog_paging_since` of two concurrent requests may be written in the
  opposite order of their times.  The Teams webhook set through the API reaches the API
  process only.
- Inventory.  A genuine shrink below the ratio is refused at every poll, where
  `core/config.py:228-231` says that it just needs one retry; several partial
  collections, each above the ratio, may walk the table down.  Hosts that are refused
  commit the volumes and skip history and mirror.  Hitachi's unfiltered listing counts
  undefined LDEVs, which then are the baseline of the guard.  An array with more than a
  page of volumes, or an Oracle pool that is not online, is stored as if the rest did not
  exist, by a run that reports success.
- Credentials.  The docstring of `services/keepass.py` gives 3600 s, 5 and 30 minutes;
  the constants are 86400 s, 3600 s and 14400 s.  A rotated SQL Server password never
  reaches the connection string before a restart: nothing calls
  `invalidate_conn_str_cache()`.
- Registry.  An enabled row whose vendor is no `VendorType` is left out of every list with
  a line at debug level; one of a vendor without collectors is loaded and has no job.  If
  no row is accepted, nothing is collected and `arrays.txt` is not used.  A disabled array
  that is deleted comes back enabled with the next sync. Falling back to `arrays.txt`
  enables what the table has disabled.  Invalidating the list through the API does not
  reach a collector in its own process.
- Metrics.  A NetApp aggregate list cut short, or an Oracle pool whose detail failed, is
  stored as a smaller capacity, which the comment of `save()` says is prevented.  So is a
  zero, for five vendors: an answer without sizes from Pure or NetApp is stored as zero,
  because `save()` tests for a missing total only.  The daily row counts disabled and
  deleted arrays, because nothing removes them from `metrics_current`.
- Backup.  `cvlt_datadog_events` has one row per check and it is never rewritten: a
  second failed job is sent at every run until the check succeeds.  The resolution
  query accepts any successful job of the check, however old: a failure loaded after a
  newer success is resolved at once.  After the first recovery the row stays resolved, so
  a check that fails and recovers again is never reported as recovered, where
  `src/jobs/cvlt-backup-summary/README.md:17-18` promises resolution events when a check
  recovers.

## 6. Plan

1. The thread pool: a queue of jobs on sixteen threads with `max_instances`, and the
   pause and interval endpoints of `api/v1/scheduler.py`.
2. The columns of performance and health in `MetricsStore`, where a failed request
   overwrites the last known value with zero.
3. The repeats of overlapping capacity checks: each may announce what it found due, so
   the number of announcements within a resend window should be bounded by the checkers
   as the number of open thresholds is.
4. One abstract cache for `PagingSwitch`, `ArrayRegistry` and `Credentials`, whose proofs
   have the same argument: what is served is never older than a life of the cache and the
   calls that filled it.
5. The safety halves of the other liveness properties, as `ResolutionStaysDue` is of
   `ResolutionReachesDatadog`: what is due stays due until it is done.

`CapacityAlerts` does not implement `AlertLedger`: it announces inside the transaction
that opens the row, which may roll back, and the resolver may close the row meanwhile.

## 7. Not modelled, and why

- The read API, the front end, the chat assistant, the MCP servers and the mock-up keep
  no state that outlives a request.  The rate limit of the external API is a list of
  times per worker.  The capacity projection is floating-point arithmetic on rows it
  only reads; its verdict is the free variable `level` of `CapacityAlerts`.
- The vendor clients are present through what a request can leave behind; their
  sessions and retries are not.  The thread pool's queue is left out: every run assumes
  that a job gets a thread in the end.  The migrations of `init_database()` run before
  anything else does.
- The SQLite mirror of the metrics is left out because nothing reads it, and the columns
  of performance, health and uptime because nothing decides by them.
- Message text, severities beyond severe or not, sizes and attributes of volumes, the
  ServiceNow script of the Pure collector, the run-tracking rows of the backup job and
  its health server change nothing the properties tell apart.
