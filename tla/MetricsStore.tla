---------------------------- MODULE MetricsStore ----------------------------
(***************************************************************************)
(* Where capacity figures come from and how long they are kept.  Metrics   *)
(* jobs poll each array and store its capacity in metrics_current and      *)
(* metrics_history; a daily job adds the arrays up into daily_stats; a     *)
(* nightly job removes old rows of metrics_history and of volumes_history. *)
(* The copy in the SQLite cache is left out: nothing reads its metrics.    *)
(*                                                                         *)
(* A capacity is the set of pools counted in it, {} a total of zero, and   *)
(* it says whether collect() found one at all: a request may fail, and an  *)
(* answer may lack sizes, which count as zero.  Columns that report        *)
(* performance, health and uptime are left out: what is stored of them     *)
(* decides nothing.                                                        *)
(***************************************************************************)
EXTENDS Naturals, FiniteSets

CONSTANTS
    Arrays,       \* names of arrays
    Fleets,       \* the vendor of each array, for each estate considered
    Pages,        \* pools of an array; NetApp lists one on each page
    Volumes,      \* volumes that get a row of volumes_history
    MetricsDays,  \* history_retention_days
    VolumeDays,   \* volume_history_retention_days
    Batch,        \* rows of one DELETE TOP (50000)
    MaxDay,       \* the calendar stops here
    MaxJobs,      \* bound on polls, daily jobs and snapshots of volumes together
    MaxFaults     \* bound on failed transactions and on restarts

Vendors == {"pure", "netapp", "storagegrid", "hpe", "oracle", "dell", "hitachi"}

ASSUME ConstantsAssumption ==
    /\ Fleets \subseteq [Arrays -> Vendors]
    /\ {MetricsDays, VolumeDays, MaxDay, MaxJobs, MaxFaults} \subseteq Nat
    /\ {Pages, Batch} \subseteq Nat \ {0}
    /\ MaxDay > 0

Pools == 1..Pages
Days == 1..MaxDay

Answers == [found : BOOLEAN, pools : SUBSET Pools]
Missing == [found |-> FALSE, pools |-> {}]
Total(pools) == [found |-> TRUE, pools |-> pools]

VARIABLES
    day,       \* today
    vendor,    \* the vendor of each array
    poll,      \* for each array, where its poll is and what it read when
    current,   \* metrics_current: the capacity of each array and when it was read
    history,   \* metrics_history, each row with the day it was inserted
    daily,     \* daily_stats: for each day the arrays counted, and what was summed
    stats,     \* where the daily job is, and what its statements have read
    volumes,   \* volumes_history
    cleanup,   \* where the nightly job is
    jobs, faults

stores == <<vendor, current, history, poll>>
vars == <<day, stores, daily, stats, volumes, cleanup, jobs, faults>>

\* A poll, or the current row of an array, that holds nothing.
Absent == [capacity |-> Missing, day |-> 1]
NoSum == [a \in Arrays |-> Missing]
NoRow == [there |-> FALSE, counted |-> {}, summed |-> NoSum]
NoStats == [pc |-> "idle", day |-> 1, counted |-> {}, summed |-> NoSum]

Init ==
    /\ day = 1
    /\ vendor \in Fleets
    /\ poll = [a \in Arrays |-> [pc |-> "idle", capacity |-> Missing, day |-> 1]]
    /\ current = [a \in Arrays |-> Absent]
    /\ history = {}
    /\ daily = [d \in Days |-> NoRow]
    /\ stats = NoStats
    /\ volumes = {}
    /\ cleanup = "idle"
    /\ jobs = 0
    /\ faults = 0

NextDay ==
    /\ day < MaxDay
    /\ day' = day + 1
    /\ UNCHANGED <<stores, daily, stats, volumes, cleanup, jobs, faults>>

Job ==
    /\ jobs < MaxJobs
    /\ jobs' = jobs + 1

Fault ==
    /\ faults < MaxFaults
    /\ faults' = faults + 1

(***************************************************************************)
(* What collect() may find for each vendor.  A request that fails, after   *)
(* the retries of the client, gives None and collect() goes on.  save()    *)
(* looks at nothing but whether capacity_total is there.                   *)
(***************************************************************************)

\* Most vendors set capacity_total only when it is not zero.
Positive(pools) == IF pools = {} THEN Missing ELSE Total(pools)

\* One "space" request for the array.  An answer without "capacity" is a total of zero.
PureCapacity == {Missing, Total({}), Total(Pools)}

\* get_all() lists the aggregates page by page and returns what it has got when a page
\* fails.  Any aggregate listed makes a total, with or without sizes.
NetAppCapacity ==
    {Missing} \cup {Total(sized) : sized \in UNION {SUBSET (1..n) : n \in Pools}}

\* Two queries, and a total only when both are answered.
StorageGridCapacity ==
    {IF used /\ usable THEN Positive(Pools) ELSE Missing :
        used \in BOOLEAN, usable \in BOOLEAN}

\* One "system" request.
HpeCapacity == {Positive({}), Positive(Pools)}

\* A list of the pools, then a request for each that is online; one which fails is left
\* out of the sum.
OracleCapacity == {Positive(summed) : summed \in SUBSET Pools}

\* One request for all pools, and a size of each that has one.
DellCapacity == {Positive(sized) : sized \in SUBSET Pools}
HitachiCapacity == {Positive(sized) : sized \in SUBSET Pools}

Capacities ==
    [pure        |-> PureCapacity,        netapp  |-> NetAppCapacity,
     storagegrid |-> StorageGridCapacity, hpe     |-> HpeCapacity,
     oracle      |-> OracleCapacity,      dell    |-> DellCapacity,
     hitachi     |-> HitachiCapacity]

(***************************************************************************)
(* A poll of an array: run() of its metrics collector.                     *)
(***************************************************************************)

\* Mutant: a poll is dated a day ahead.
GotoAhead(a, label, capacity, read) ==
    poll' = [poll EXCEPT ![a] = [pc |-> label, capacity |-> capacity, day |-> read + 1]]

Goto(a, label, capacity, read) ==
    poll' = [poll EXCEPT ![a] = [pc |-> label, capacity |-> capacity, day |-> read]]

\* authenticate() and collect(), with the day that goes into collected_at.
Collect(a) ==
    /\ Job
    /\ poll[a].pc = "idle"
    /\ \E c \in Capacities[vendor[a]] : Goto(a, "save", c, day)
    /\ UNCHANGED <<day, vendor, current, history, daily, stats, volumes, cleanup, faults>>

Reading(a) == [capacity |-> poll[a].capacity, day |-> poll[a].day]
Point(a) == [array |-> a, capacity |-> poll[a].capacity, day |-> day]

\* Mutant: the guard of save() lets a missing capacity through.
SkipAndWrite(a) ==
    /\ poll[a].pc = "save"
    /\ ~poll[a].capacity.found
    /\ history' = history \cup {Point(a)}
    /\ Goto(a, "idle", Missing, 1)
    /\ UNCHANGED <<day, vendor, current, daily, stats, volumes, cleanup, jobs, faults>>

\* save() when capacity_total is missing: nothing is written, and True is returned.
Skip(a) ==
    /\ poll[a].pc = "save"
    /\ ~poll[a].capacity.found
    /\ Goto(a, "idle", Missing, 1)
    /\ UNCHANGED <<day, vendor, current, history, daily, stats, volumes, cleanup, jobs, faults>>

\* Both tables in one transaction; the database dates the row of the history.
Save(a) ==
    /\ poll[a].pc = "save"
    /\ poll[a].capacity.found
    /\ current' = [current EXCEPT ![a] = Reading(a)]
    /\ history' = history \cup {Point(a)}
    /\ Goto(a, "idle", Missing, 1)
    /\ UNCHANGED <<day, vendor, daily, stats, volumes, cleanup, jobs, faults>>

\* Mutant: each table is written in a transaction of its own.
SaveFailsHalf(a) ==
    /\ poll[a].pc = "save"
    /\ poll[a].capacity.found
    /\ Fault
    /\ current' = [current EXCEPT ![a] = Reading(a)]
    /\ Goto(a, "idle", Missing, 1)
    /\ UNCHANGED <<day, vendor, history, daily, stats, volumes, cleanup, jobs>>

\* It rolls back, save() returns False and run() raises.
SaveFails(a) ==
    /\ poll[a].pc = "save"
    /\ poll[a].capacity.found
    /\ Fault
    /\ Goto(a, "idle", Missing, 1)
    /\ UNCHANGED <<day, vendor, current, history, daily, stats, volumes, cleanup, jobs>>

(***************************************************************************)
(* calculate_daily_stats(): one transaction, whose statements see what the *)
(* polls have committed by then.                                           *)
(***************************************************************************)

StatsAt(label, d, counted, summed) ==
    stats' = [pc |-> label, day |-> d, counted |-> counted, summed |-> summed]

\* metrics_current, which no job ever removes a row from.
Known == {a \in Arrays : current[a].capacity.found}

\* The date is taken, today's row deleted in the transaction, and the arrays counted.
CountArrays ==
    /\ Job
    /\ stats.pc = "idle"
    /\ StatsAt("sum", day, Known, NoSum)
    /\ UNCHANGED <<day, stores, daily, volumes, cleanup, faults>>

SumCapacity ==
    /\ stats.pc = "sum"
    /\ StatsAt("insert", stats.day, stats.counted, [a \in Arrays |-> current[a].capacity])
    /\ UNCHANGED <<day, stores, daily, volumes, cleanup, jobs, faults>>

\* INSERT and commit, which makes the deletion effective too.
InsertStats ==
    /\ stats.pc = "insert"
    /\ daily' = [daily EXCEPT ![stats.day] =
                    [there |-> TRUE, counted |-> stats.counted, summed |-> stats.summed]]
    /\ stats' = NoStats
    /\ UNCHANGED <<day, stores, volumes, cleanup, jobs, faults>>

\* Mutant: the deletion is committed on its own.
StatsFailDeleted ==
    /\ stats.pc # "idle"
    /\ Fault
    /\ daily' = [daily EXCEPT ![stats.day] = NoRow]
    /\ stats' = NoStats
    /\ UNCHANGED <<day, stores, volumes, cleanup, jobs>>

StatsFail ==
    /\ stats.pc # "idle"
    /\ Fault
    /\ stats' = NoStats
    /\ UNCHANGED <<day, stores, daily, volumes, cleanup, jobs>>

(***************************************************************************)
(* volumes_history and cleanup_old_history().                              *)
(***************************************************************************)

\* Volume collectors append a row for each volume (see VolumeInventory).
Snapshot(v) ==
    /\ Job
    /\ volumes' = volumes \cup {[volume |-> v, day |-> day]}
    /\ UNCHANGED <<day, stores, daily, stats, cleanup, faults>>

\* Mutant: the window of the other table.
OldVolumesLate == {r \in volumes : r.day + MetricsDays < day}

OldVolumes == {r \in volumes : r.day + VolumeDays < day}

StartCleanup ==
    /\ cleanup = "idle"
    /\ cleanup' = "metrics"
    /\ UNCHANGED <<day, stores, daily, stats, volumes, jobs, faults>>

CleanMetrics ==
    /\ cleanup = "metrics"
    /\ history' = {r \in history : r.day + MetricsDays >= day}
    /\ cleanup' = "volumes"
    /\ UNCHANGED <<day, vendor, current, poll, daily, stats, volumes, jobs, faults>>

\* Its failure is logged, and volumes_history is cleaned all the same.
CleanMetricsFails ==
    /\ cleanup = "metrics"
    /\ Fault
    /\ cleanup' = "volumes"
    /\ UNCHANGED <<day, stores, daily, stats, volumes, jobs>>

\* A full batch is committed and another follows.
CleanBatch ==
    /\ cleanup = "volumes"
    /\ \E gone \in SUBSET OldVolumes :
        /\ Cardinality(gone) = Batch
        /\ volumes' = volumes \ gone
    /\ UNCHANGED <<day, stores, daily, stats, cleanup, jobs, faults>>

\* One that is not full is the last.
CleanLast ==
    /\ cleanup = "volumes"
    /\ Cardinality(OldVolumes) < Batch
    /\ volumes' = volumes \ OldVolumes
    /\ cleanup' = "idle"
    /\ UNCHANGED <<day, stores, daily, stats, jobs, faults>>

CleanBatchFails ==
    /\ cleanup = "volumes"
    /\ Fault
    /\ cleanup' = "idle"
    /\ UNCHANGED <<day, stores, daily, stats, volumes, jobs>>

Cleanup == CleanMetrics \/ CleanMetricsFails \/ CleanBatch \/ CleanLast \/ CleanBatchFails

(***************************************************************************)
(* The process ends.  Open transactions roll back.                         *)
(***************************************************************************)

Restart ==
    /\ Fault
    /\ poll' = [a \in Arrays |-> [pc |-> "idle", capacity |-> Missing, day |-> 1]]
    /\ stats' = NoStats
    /\ cleanup' = "idle"
    /\ UNCHANGED <<day, vendor, current, history, daily, volumes, jobs>>

Poll(a) == Collect(a) \/ Skip(a) \/ Save(a) \/ SaveFails(a)
Stats == CountArrays \/ SumCapacity \/ InsertStats \/ StatsFail

Next ==
    \/ NextDay
    \/ \E a \in Arrays : Poll(a)
    \/ Stats
    \/ \E v \in Volumes : Snapshot(v)
    \/ StartCleanup
    \/ Cleanup
    \/ Restart

Spec == Init /\ [][Next]_vars

\* The cron of the scheduler starts the nightly job, whose thread goes on.
Fairness == WF_vars(StartCleanup) /\ WF_vars(CleanMetrics) /\ WF_vars(CleanBatch \/ CleanLast)
LiveSpec == Spec /\ Fairness

(***************************************************************************)
(* Properties.                                                             *)
(***************************************************************************)

Readings == [capacity : Answers, day : Days]

\* The type invariant.
TypeOK ==
    /\ day \in Days
    /\ vendor \in [Arrays -> Vendors]
    /\ poll \in [Arrays -> [pc : {"idle", "save"}, capacity : Answers, day : Days]]
    /\ current \in [Arrays -> Readings]
    /\ history \subseteq [array : Arrays, capacity : Answers, day : Days]
    /\ daily \in [Days -> [there : BOOLEAN, counted : SUBSET Arrays,
                           summed : [Arrays -> Answers]]]
    /\ stats \in [pc : {"idle", "sum", "insert"}, day : Days, counted : SUBSET Arrays,
                  summed : [Arrays -> Answers]]
    /\ volumes \subseteq [volume : Volumes, day : Days]
    /\ cleanup \in {"idle", "metrics", "volumes"}
    /\ jobs \in 0..MaxJobs
    /\ faults \in 0..MaxFaults

\* Vendors whose collect() checks that the total is not zero, and those whose array gives
\* a single figure for all its pools.
Checked == Vendors \ {"pure", "netapp"}
SingleFigure == {"pure", "storagegrid", "hpe"}

\* What an array of this vendor did answer, and is no less than it should be.
Genuine(v, capacity) ==
    /\ capacity.found
    /\ v \in Checked => capacity.pools # {}
    /\ v \in SingleFigure => capacity.pools \in {{}, Pools}

\* The "zero cliff" of save()'s comment: a poll whose requests fail never puts a capacity
\* into any table that projections and capacity alerts read, nor into the sum of an array
\* that the daily row counts.  A zero is stored only for Pure and NetApp, where an answer
\* without sizes passes the guard; what else is short is an answer for some pools, where
\* the vendor gives a size for each.
CapacityGenuine ==
    /\ \A a \in Known : Genuine(vendor[a], current[a].capacity)
    /\ \A r \in history : Genuine(vendor[r.array], r.capacity)
    /\ \A d \in Days, a \in Arrays :
            a \in daily[d].counted => Genuine(vendor[a], daily[d].summed[a])

\* A row of the history which says what was read, or one so old that it may be gone.
Backed(a, reading) ==
    \/ reading.day + MetricsDays < day
    \/ \E r \in history : /\ r.array = a
                          /\ r.capacity = reading.capacity
                          /\ r.day >= reading.day

\* metrics_current and metrics_history are written together: whatever the current row of
\* an array says is also in its history, on the day it was read or later, until the
\* nightly job may remove it.
CurrentInHistory ==
    \A a \in Known : Backed(a, current[a])

\* The daily row is deleted and written anew each time the job runs.  Whatever fails in
\* between, a day's row is never lost, and a later one never counts fewer arrays.
DailyKept ==
    [][\A d \in Days : daily[d].there =>
            /\ daily'[d].there
            /\ daily[d].counted \subseteq daily'[d].counted]_vars

\* Rows older than their table's window go: volumes_history by its own, shorter one,
\* however many batches that takes and whether or not metrics_history could be cleaned.
ExpiredRemoved ==
    []<>(/\ \A r \in volumes : r.day + VolumeDays >= day
         /\ \A r \in history : r.day + MetricsDays >= day)
=============================================================================
