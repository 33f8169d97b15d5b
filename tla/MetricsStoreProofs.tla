-------------------------- MODULE MetricsStoreProofs --------------------------
(***************************************************************************)
(* Proofs about MetricsStore, for any estate, any number of pools and any  *)
(* windows of retention.                                                   *)
(***************************************************************************)
EXTENDS MetricsStore, TLAPS

Labels == {"idle", "save"}
PollRecord == [pc : Labels, capacity : Answers, day : Days]
DailyRecord == [there : BOOLEAN, counted : SUBSET Arrays, summed : [Arrays -> Answers]]
StatsRecord == [pc : {"idle", "sum", "insert"}, day : Days, counted : SUBSET Arrays,
                summed : [Arrays -> Answers]]

\* What a poll is about to store was answered, today or earlier.
PollGenuine ==
    \A a \in Arrays :
        poll[a].pc = "save" =>
            /\ poll[a].day <= day
            /\ poll[a].capacity.found => Genuine(vendor[a], poll[a].capacity)

\* The daily job has counted arrays that have a row, and no fewer than its last run did.
StatsCovered ==
    /\ \A d \in Days : daily[d].counted \subseteq Known
    /\ stats.pc # "idle" =>
           stats.counted \subseteq Known /\ daily[stats.day].counted \subseteq stats.counted
    /\ stats.pc = "insert" =>
           \A a \in stats.counted : Genuine(vendor[a], stats.summed[a])

IInv == TypeOK /\ CapacityGenuine /\ CurrentInHistory /\ PollGenuine /\ StatsCovered

LEMMA Constants ==
    /\ MetricsDays \in Nat /\ VolumeDays \in Nat /\ MaxDay \in Nat /\ MaxDay > 0
    /\ MaxJobs \in Nat /\ MaxFaults \in Nat /\ Pages \in Nat /\ Pages > 0
    /\ Fleets \subseteq [Arrays -> Vendors]
    /\ Days \subseteq Nat /\ 1 \in Days
  BY ConstantsAssumption DEF Days

\* The answers collect() is built from, and what each of them is.
LEMMA AnswersTyped ==
    /\ Missing \in Answers /\ ~Missing.found
    /\ \A pools \in SUBSET Pools :
            /\ Total(pools) \in Answers /\ Total(pools).found /\ Total(pools).pools = pools
            /\ Positive(pools) = IF pools = {} THEN Missing ELSE Total(pools)
  BY DEF Missing, Total, Positive, Answers

\* Every vendor's collect() finds pools of the array, and whatever it finds is genuine.
LEMMA CapacitiesGenuine ==
    ASSUME NEW v \in Vendors, NEW c \in Capacities[v]
    PROVE  c \in Answers /\ (c.found => Genuine(v, c))
<1>1. Pages \in Nat /\ Pools \in SUBSET Pools /\ {} \in SUBSET Pools /\ Pools # {}
  BY Constants DEF Pools
<1>2. CASE v = "netapp"
  <2>1. c \in NetAppCapacity
    BY <1>2 DEF Capacities
  <2>2. c = Missing \/ \E sized \in SUBSET Pools : c = Total(sized)
    BY <1>1, <2>1 DEF NetAppCapacity, Pools
  <2>3. QED
    BY <1>2, <2>2, AnswersTyped DEF Genuine, Checked, SingleFigure
<1>3. CASE v = "pure"
  <2>1. c \in PureCapacity
    BY <1>3 DEF Capacities
  <2>2. QED
    BY <1>1, <1>3, <2>1, AnswersTyped DEF PureCapacity, Genuine, Checked, SingleFigure
<1>4. CASE v \in {"oracle", "dell", "hitachi"}
  <2>1. PICK pools \in SUBSET Pools : c = Positive(pools)
    BY <1>4 DEF Capacities, OracleCapacity, DellCapacity, HitachiCapacity
  <2>2. QED
    BY <1>4, <2>1, AnswersTyped DEF Genuine, SingleFigure
<1>5. CASE v \in {"storagegrid", "hpe"}
  <2>1. c = Missing \/ c = Total(Pools)
    BY <1>1, <1>5, AnswersTyped DEF Capacities, StorageGridCapacity, HpeCapacity
  <2>2. QED
    BY <1>1, <2>1, AnswersTyped DEF Genuine
<1>6. QED
  BY <1>2, <1>3, <1>4, <1>5 DEF Vendors

LEMMA InitIInv == Init => IInv
<1> SUFFICES ASSUME Init
             PROVE  IInv
  OBVIOUS
<1>1. TypeOK
  <2>1. NoSum \in [Arrays -> Answers]
    BY AnswersTyped DEF NoSum
  <2>2. daily \in [Days -> DailyRecord] /\ stats \in StatsRecord
    BY <2>1, Constants DEF Init, NoRow, NoStats, DailyRecord, StatsRecord
  <2>3. day \in Days /\ vendor \in [Arrays -> Vendors] /\ jobs \in 0..MaxJobs /\ faults \in 0..MaxFaults
    BY Constants DEF Init
  <2>4. poll \in [Arrays -> PollRecord] /\ current \in [Arrays -> Readings]
    BY Constants, AnswersTyped DEF Init, Absent, PollRecord, Labels, Readings
  <2>5. QED
    BY <2>2, <2>3, <2>4 DEF Init, TypeOK, DailyRecord, StatsRecord, PollRecord, Labels
<1>2. CapacityGenuine
  BY AnswersTyped DEF Init, Absent, NoRow, CapacityGenuine, Known
<1>3. CurrentInHistory
  BY AnswersTyped DEF Init, Absent, CurrentInHistory, Known
<1>4. PollGenuine
  BY DEF Init, PollGenuine
<1>5. StatsCovered
  BY DEF Init, NoRow, NoStats, StatsCovered
<1>6. QED
  BY <1>1, <1>2, <1>3, <1>4, <1>5 DEF IInv

\* What Goto() does to each array's poll.
LEMMA GotoApplied ==
    ASSUME TypeOK, NEW a \in Arrays, NEW label \in Labels, NEW c \in Answers, NEW d \in Days,
           Goto(a, label, c, d)
    PROVE  /\ poll' \in [Arrays -> PollRecord]
           /\ poll'[a] = [pc |-> label, capacity |-> c, day |-> d]
           /\ \A b \in Arrays : b # a => poll'[b] = poll[b]
  BY DEF Goto, TypeOK, PollRecord, Labels

\* Nothing the other parts of the invariant speak of has changed.
LEMMA Untouched ==
    ASSUME IInv, TypeOK', UNCHANGED <<day, vendor, current, history, poll, daily, stats>>
    PROVE  IInv'
<1>1. CapacityGenuine'
  BY DEF IInv, CapacityGenuine, Known
<1>2. CurrentInHistory'
  BY DEF IInv, CurrentInHistory, Known, Backed
<1>3. PollGenuine'
  BY DEF IInv, PollGenuine
<1>4. StatsCovered'
  BY DEF IInv, StatsCovered, Known
<1>5. QED
  BY <1>1, <1>2, <1>3, <1>4 DEF IInv

LEMMA NextDayIInv ==
    ASSUME IInv, NextDay
    PROVE  IInv'
<1>1. day \in Nat /\ day' = day + 1 /\ day' \in Days
  BY Constants DEF IInv, TypeOK, NextDay, Days
<1>2. TypeOK'
  BY <1>1 DEF IInv, TypeOK, NextDay, stores
<1>3. CapacityGenuine'
  BY DEF IInv, CapacityGenuine, Known, NextDay, stores
<1>4. CurrentInHistory'
  <2>1. ASSUME NEW a \in Arrays, current'[a].capacity.found
        PROVE  Backed(a, current[a])'
    <3>1. current' = current /\ history' = history
      BY DEF NextDay, stores
    <3>2. Backed(a, current[a])
      BY <2>1, <3>1 DEF IInv, CurrentInHistory, Known
    <3>3. CASE current[a].day + MetricsDays < day
      <4>1. current[a].day \in Nat
        BY Constants DEF IInv, TypeOK, Readings
      <4>2. current[a].day + MetricsDays < day + 1
        BY <1>1, <3>3, <4>1, Constants
      <4>3. QED
        BY <1>1, <3>1, <4>2 DEF Backed
    <3>4. QED
      BY <3>1, <3>2, <3>3 DEF Backed
  <2>2. QED
    BY <2>1 DEF CurrentInHistory, Known
<1>5. PollGenuine'
  <2>1. \A a \in Arrays : poll[a].day \in Nat
    BY Constants DEF IInv, TypeOK
  <2>2. poll' = poll /\ vendor' = vendor
    BY DEF NextDay, stores
  <2>3. QED
    BY <1>1, <2>1, <2>2 DEF IInv, PollGenuine
<1>6. StatsCovered'
  BY DEF IInv, StatsCovered, Known, NextDay, stores
<1>7. QED
  BY <1>2, <1>3, <1>4, <1>5, <1>6 DEF IInv

\* A poll that goes on or ends without storing anything.
LEMMA PollMoves ==
    ASSUME IInv, NEW a \in Arrays, NEW label \in Labels, NEW c \in Answers, NEW d \in Days,
           Goto(a, label, c, d),
           label = "save" => d <= day /\ (c.found => Genuine(vendor[a], c)),
           jobs' \in 0..MaxJobs, faults' \in 0..MaxFaults,
           UNCHANGED <<day, vendor, current, history, daily, stats, volumes, cleanup>>
    PROVE  IInv'
<1>1. /\ poll' \in [Arrays -> PollRecord]
      /\ poll'[a] = [pc |-> label, capacity |-> c, day |-> d]
      /\ \A b \in Arrays : b # a => poll'[b] = poll[b]
  BY GotoApplied DEF IInv
<1>2. TypeOK'
  BY <1>1 DEF IInv, TypeOK, PollRecord, Labels
<1>3. CapacityGenuine'
  BY DEF IInv, CapacityGenuine, Known
<1>4. CurrentInHistory'
  BY DEF IInv, CurrentInHistory, Known, Backed
<1>5. PollGenuine'
  <2>1. ASSUME NEW b \in Arrays, poll'[b].pc = "save"
        PROVE  /\ poll'[b].day <= day'
               /\ poll'[b].capacity.found => Genuine(vendor'[b], poll'[b].capacity)
    <3>1. CASE b = a
      BY <1>1, <2>1, <3>1
    <3>2. CASE b # a
      BY <1>1, <2>1, <3>2 DEF IInv, PollGenuine
    <3>3. QED
      BY <3>1, <3>2
  <2>2. QED
    BY <2>1 DEF PollGenuine
<1>6. StatsCovered'
  BY DEF IInv, StatsCovered, Known
<1>7. QED
  BY <1>2, <1>3, <1>4, <1>5, <1>6 DEF IInv

LEMMA JobTyped == ASSUME TypeOK, Job PROVE jobs' \in 0..MaxJobs
  BY Constants DEF TypeOK, Job
LEMMA FaultTyped == ASSUME TypeOK, Fault PROVE faults' \in 0..MaxFaults
  BY Constants DEF TypeOK, Fault

LEMMA CollectIInv ==
    ASSUME IInv, NEW a \in Arrays, Collect(a)
    PROVE  IInv'
<1>1. PICK c \in Capacities[vendor[a]] : Goto(a, "save", c, day)
  BY DEF Collect
<1>2. vendor[a] \in Vendors /\ day \in Days /\ day <= day
  BY Constants DEF IInv, TypeOK
<1>3. c \in Answers /\ (c.found => Genuine(vendor[a], c))
  BY <1>2, CapacitiesGenuine
<1>4. jobs' \in 0..MaxJobs /\ faults' \in 0..MaxFaults
  BY JobTyped DEF IInv, TypeOK, Collect
<1>5. UNCHANGED <<day, vendor, current, history, daily, stats, volumes, cleanup>>
  BY DEF Collect
<1>6. QED
  BY <1>1, <1>2, <1>3, <1>4, <1>5, PollMoves DEF Labels

LEMMA PollEnds ==
    ASSUME IInv, NEW a \in Arrays, Skip(a) \/ SaveFails(a)
    PROVE  IInv'
<1>1. Goto(a, "idle", Missing, 1)
  BY DEF Skip, SaveFails
<1>2. jobs' \in 0..MaxJobs /\ faults' \in 0..MaxFaults
  BY FaultTyped DEF IInv, TypeOK, Skip, SaveFails
<1>3. UNCHANGED <<day, vendor, current, history, daily, stats, volumes, cleanup>>
  BY DEF Skip, SaveFails
<1>4. QED
  BY <1>1, <1>2, <1>3, PollMoves, Constants, AnswersTyped DEF Labels

LEMMA SaveIInv ==
    ASSUME IInv, NEW a \in Arrays, Save(a)
    PROVE  IInv'
<1>1. TypeOK /\ poll[a] \in PollRecord /\ day \in Days /\ 1 \in Days
  BY Constants DEF IInv, TypeOK, PollRecord, Labels
<1>2. /\ poll' \in [Arrays -> PollRecord]
      /\ poll'[a] = [pc |-> "idle", capacity |-> Missing, day |-> 1]
      /\ \A b \in Arrays : b # a => poll'[b] = poll[b]
  BY <1>1, AnswersTyped, GotoApplied DEF Save, Labels
<1>3. /\ current' \in [Arrays -> Readings]
      /\ current'[a] = [capacity |-> poll[a].capacity, day |-> poll[a].day]
      /\ \A b \in Arrays : b # a => current'[b] = current[b]
  BY <1>1 DEF TypeOK, Save, Reading, Readings, PollRecord
<1>4. history' = history \cup {Point(a)}
  BY DEF Save
<1>5. Genuine(vendor[a], poll[a].capacity) /\ poll[a].day <= day
  BY DEF IInv, PollGenuine, Save
<1>6. UNCHANGED <<day, vendor, daily, stats, volumes, cleanup, jobs, faults>>
  BY DEF Save
<1>7. Known \subseteq Known'
  BY <1>3, <1>5 DEF Known, Genuine
<1>8. TypeOK'
  <2>1. Point(a) \in [array : Arrays, capacity : Answers, day : Days]
    BY <1>1 DEF Point, PollRecord
  <2>2. QED
    BY <1>1, <1>2, <1>3, <1>4, <1>6, <2>1 DEF TypeOK, PollRecord, Labels
<1>9. CapacityGenuine'
  <2>1. \A b \in Arrays : current'[b].capacity.found => Genuine(vendor'[b], current'[b].capacity)
    BY <1>3, <1>5, <1>6 DEF IInv, CapacityGenuine, Known
  <2>2. \A r \in history' : Genuine(vendor'[r.array], r.capacity)
    BY <1>4, <1>5, <1>6 DEF IInv, CapacityGenuine, Known, Point
  <2>3. QED
    BY <1>6, <2>1, <2>2 DEF IInv, CapacityGenuine, Known
<1>10. CurrentInHistory'
  <2>1. ASSUME NEW b \in Arrays, current'[b].capacity.found
        PROVE  Backed(b, current[b])'
    <3>1. CASE b = a
      <4>1. Point(a) \in history'
        BY <1>4
      <4>2. /\ Point(a).array = a /\ Point(a).capacity = current'[a].capacity
            /\ Point(a).day >= current'[a].day
        BY <1>3, <1>5 DEF Point
      <4>3. QED
        BY <3>1, <4>1, <4>2 DEF Backed
    <3>2. CASE b # a
      BY <1>3, <1>4, <1>6, <2>1, <3>2 DEF IInv, CurrentInHistory, Known, Backed
    <3>3. QED
      BY <3>1, <3>2
  <2>2. QED
    BY <2>1 DEF CurrentInHistory, Known
<1>11. PollGenuine'
  BY <1>2, <1>6 DEF IInv, PollGenuine
<1>12. StatsCovered'
  BY <1>6, <1>7 DEF IInv, StatsCovered
<1>13. QED
  BY <1>8, <1>9, <1>10, <1>11, <1>12 DEF IInv

LEMMA StatsTyped ==
    ASSUME NEW label \in {"idle", "sum", "insert"}, NEW d \in Days, NEW counted \in SUBSET Arrays,
           NEW summed \in [Arrays -> Answers], StatsAt(label, d, counted, summed)
    PROVE  /\ stats' \in StatsRecord
           /\ stats'.pc = label /\ stats'.day = d
           /\ stats'.counted = counted /\ stats'.summed = summed
  BY DEF StatsAt, StatsRecord

\* A step of the daily job that leaves every table alone.
LEMMA StatsMoves ==
    ASSUME IInv, stats' \in StatsRecord,
           stats'.pc # "idle" =>
               stats'.counted \subseteq Known /\ daily[stats'.day].counted \subseteq stats'.counted,
           stats'.pc = "insert" => \A a \in stats'.counted : Genuine(vendor[a], stats'.summed[a]),
           jobs' \in 0..MaxJobs, faults' \in 0..MaxFaults,
           UNCHANGED <<day, stores, daily, volumes, cleanup>>
    PROVE  IInv'
<1>1. UNCHANGED <<vendor, current, history, poll>>
  BY DEF stores
<1>2. TypeOK'
  BY <1>1 DEF IInv, TypeOK, StatsRecord
<1>3. CapacityGenuine'
  BY <1>1 DEF IInv, CapacityGenuine, Known
<1>4. CurrentInHistory'
  BY <1>1 DEF IInv, CurrentInHistory, Known, Backed
<1>5. PollGenuine'
  BY <1>1 DEF IInv, PollGenuine
<1>6. Known' = Known
  BY <1>1 DEF Known
<1>7. StatsCovered'
  BY <1>1, <1>6 DEF IInv, StatsCovered
<1>8. QED
  BY <1>2, <1>3, <1>4, <1>5, <1>7 DEF IInv

LEMMA CountArraysIInv ==
    ASSUME IInv, CountArrays
    PROVE  IInv'
<1>1. NoSum \in [Arrays -> Answers] /\ Known \in SUBSET Arrays /\ day \in Days
  BY AnswersTyped DEF NoSum, Known, IInv, TypeOK
<1>2. /\ stats' \in StatsRecord /\ stats'.pc = "sum" /\ stats'.day = day /\ stats'.counted = Known
  BY <1>1, StatsTyped DEF CountArrays
<1>3. daily[day].counted \subseteq Known
  BY <1>1 DEF IInv, StatsCovered
<1>4. jobs' \in 0..MaxJobs /\ faults' \in 0..MaxFaults
  BY JobTyped DEF IInv, TypeOK, CountArrays
<1>5. UNCHANGED <<day, stores, daily, volumes, cleanup>>
  BY DEF CountArrays
<1>6. QED
  BY <1>2, <1>3, <1>4, <1>5, StatsMoves

LEMMA SumCapacityIInv ==
    ASSUME IInv, SumCapacity
    PROVE  IInv'
<1> DEFINE sums == [a \in Arrays |-> current[a].capacity]
<1>1. sums \in [Arrays -> Answers]
  BY DEF IInv, TypeOK, Readings
<1>2. stats.day \in Days /\ stats.counted \in SUBSET Arrays
  BY DEF IInv, TypeOK
<1>3. StatsAt("insert", stats.day, stats.counted, sums)
  BY DEF SumCapacity
<1> HIDE DEF sums
<1>4. /\ stats' \in StatsRecord /\ stats'.pc = "insert" /\ stats'.day = stats.day
      /\ stats'.counted = stats.counted /\ stats'.summed = sums
  BY <1>1, <1>2, <1>3, StatsTyped
<1>5. stats.counted \subseteq Known /\ daily[stats.day].counted \subseteq stats.counted
  BY DEF IInv, StatsCovered, SumCapacity
<1>6. \A a \in stats.counted : Genuine(vendor[a], sums[a])
  BY <1>5 DEF IInv, CapacityGenuine, Known, sums
<1>7. jobs' \in 0..MaxJobs /\ faults' \in 0..MaxFaults
  BY DEF IInv, TypeOK, SumCapacity
<1>8. UNCHANGED <<day, stores, daily, volumes, cleanup>>
  BY DEF SumCapacity
<1>9. QED
  BY <1>4, <1>5, <1>6, <1>7, <1>8, StatsMoves

\* What the insertion leaves of each day's row.
LEMMA Inserted ==
    ASSUME IInv, InsertStats
    PROVE  /\ daily' \in [Days -> DailyRecord]
           /\ daily'[stats.day] =
                  [there |-> TRUE, counted |-> stats.counted, summed |-> stats.summed]
           /\ \A d \in Days : d # stats.day => daily'[d] = daily[d]
           /\ stats.day \in Days
<1>1. stats.day \in Days /\ stats.counted \in SUBSET Arrays /\ stats.summed \in [Arrays -> Answers]
  BY DEF IInv, TypeOK
<1>2. daily \in [Days -> DailyRecord]
  BY DEF IInv, TypeOK, DailyRecord
<1>3. daily' = [daily EXCEPT ![stats.day] =
                   [there |-> TRUE, counted |-> stats.counted, summed |-> stats.summed]]
  BY DEF InsertStats
<1>4. [there |-> TRUE, counted |-> stats.counted, summed |-> stats.summed] \in DailyRecord
  BY <1>1 DEF DailyRecord
<1>5. QED
  BY <1>1, <1>2, <1>3, <1>4

LEMMA NoStatsTyped == NoStats \in StatsRecord /\ NoStats.pc = "idle"
<1>1. NoSum \in [Arrays -> Answers]
  BY AnswersTyped DEF NoSum
<1>2. QED
  BY <1>1, Constants DEF NoStats, StatsRecord

LEMMA InsertStatsIInv ==
    ASSUME IInv, InsertStats
    PROVE  IInv'
<1>1. UNCHANGED <<day, vendor, current, history, poll, volumes, cleanup, jobs, faults>>
  BY DEF InsertStats, stores
<1>2. stats' = NoStats /\ stats' \in StatsRecord /\ stats'.pc = "idle"
  BY NoStatsTyped DEF InsertStats
<1>3. stats.counted \subseteq Known /\ \A a \in stats.counted : Genuine(vendor[a], stats.summed[a])
  BY DEF IInv, StatsCovered, InsertStats
<1>4. TypeOK'
  BY <1>1, <1>2, Inserted DEF IInv, TypeOK, DailyRecord, StatsRecord
<1>5. CapacityGenuine'
  <2>1. ASSUME NEW d \in Days, NEW a \in Arrays, a \in daily'[d].counted
        PROVE  Genuine(vendor[a], daily'[d].summed[a])
    <3>1. CASE d = stats.day
      BY <1>3, <2>1, <3>1, Inserted
    <3>2. CASE d # stats.day
      BY <2>1, <3>2, Inserted DEF IInv, CapacityGenuine, Known
    <3>3. QED
      BY <3>1, <3>2
  <2>2. QED
    BY <1>1, <2>1 DEF IInv, CapacityGenuine, Known
<1>6. CurrentInHistory'
  BY <1>1 DEF IInv, CurrentInHistory, Known, Backed
<1>7. PollGenuine'
  BY <1>1 DEF IInv, PollGenuine
<1>8. StatsCovered'
  <2>1. Known' = Known
    BY <1>1 DEF Known
  <2>2. ASSUME NEW d \in Days
        PROVE  daily'[d].counted \subseteq Known
    <3>1. CASE d = stats.day
      BY <1>3, <3>1, Inserted
    <3>2. CASE d # stats.day
      BY <3>2, Inserted DEF IInv, StatsCovered
    <3>3. QED
      BY <3>1, <3>2
  <2>3. QED
    BY <1>2, <2>1, <2>2 DEF StatsCovered
<1>9. QED
  BY <1>4, <1>5, <1>6, <1>7, <1>8 DEF IInv

LEMMA StatsFailIInv ==
    ASSUME IInv, StatsFail
    PROVE  IInv'
<1>1. stats' \in StatsRecord /\ stats'.pc = "idle"
  BY NoStatsTyped DEF StatsFail
<1>2. jobs' \in 0..MaxJobs /\ faults' \in 0..MaxFaults
  BY FaultTyped DEF IInv, TypeOK, StatsFail
<1>3. UNCHANGED <<day, stores, daily, volumes, cleanup>>
  BY DEF StatsFail
<1>4. QED
  BY <1>1, <1>2, <1>3, StatsMoves

\* Steps that concern volumes_history and the nightly job only.
LEMMA VolumesTyped ==
    ASSUME IInv,
           \/ \E v \in Volumes : Snapshot(v)
           \/ StartCleanup \/ CleanMetricsFails \/ CleanBatch \/ CleanLast \/ CleanBatchFails
    PROVE  IInv'
<1>1. UNCHANGED <<day, vendor, current, history, poll, daily, stats>>
  BY DEF Snapshot, StartCleanup, CleanMetricsFails, CleanBatch, CleanLast, CleanBatchFails, stores
<1>2. TypeOK
  BY DEF IInv
<1>3. volumes' \subseteq [volume : Volumes, day : Days]
  BY <1>2 DEF TypeOK, Snapshot, StartCleanup, CleanMetricsFails, CleanBatch, CleanLast,
              CleanBatchFails
<1>4. cleanup' \in {"idle", "metrics", "volumes"}
  BY <1>2 DEF TypeOK, Snapshot, StartCleanup, CleanMetricsFails, CleanBatch, CleanLast,
              CleanBatchFails
<1>5. jobs' \in 0..MaxJobs
  BY <1>2, JobTyped DEF TypeOK, Snapshot, StartCleanup, CleanMetricsFails, CleanBatch, CleanLast,
              CleanBatchFails
<1>6. faults' \in 0..MaxFaults
  BY <1>2, FaultTyped DEF TypeOK, Snapshot, StartCleanup, CleanMetricsFails, CleanBatch,
              CleanLast, CleanBatchFails
<1>7. TypeOK'
  BY <1>1, <1>2, <1>3, <1>4, <1>5, <1>6 DEF TypeOK
<1>8. QED
  BY <1>1, <1>7, Untouched

\* A row that goes is older than the window, and so is whatever reading it backed.
LEMMA CleanMetricsIInv ==
    ASSUME IInv, CleanMetrics
    PROVE  IInv'
<1>1. /\ UNCHANGED <<day, vendor, current, poll, daily, stats, volumes, jobs, faults>>
      /\ cleanup' = "volumes"
      /\ history' = {r \in history : r.day + MetricsDays >= day}
  BY DEF CleanMetrics
<1>2. TypeOK'
  BY <1>1 DEF IInv, TypeOK
<1>3. CapacityGenuine'
  BY <1>1 DEF IInv, CapacityGenuine, Known
<1>4. CurrentInHistory'
  <2>1. ASSUME NEW a \in Arrays, current[a].capacity.found
        PROVE  Backed(a, current[a])'
    <3>1. current[a].day \in Nat /\ day \in Nat
      BY Constants DEF IInv, TypeOK, Readings
    <3>2. Backed(a, current[a])
      BY <2>1 DEF IInv, CurrentInHistory, Known
    <3>3. CASE current[a].day + MetricsDays < day
      BY <1>1, <3>3 DEF Backed
    <3>4. CASE ~(current[a].day + MetricsDays < day)
      <4>1. PICK r \in history : /\ r.array = a
                                 /\ r.capacity = current[a].capacity
                                 /\ r.day >= current[a].day
        BY <3>2, <3>4 DEF Backed
      <4>2. r.day \in Nat
        BY Constants DEF IInv, TypeOK
      <4>3. r.day + MetricsDays >= day
        BY <3>1, <3>4, <4>1, <4>2, Constants
      <4>4. r \in history'
        BY <1>1, <4>3
      <4>5. QED
        BY <1>1, <4>1, <4>4 DEF Backed
    <3>5. QED
      BY <3>3, <3>4
  <2>2. QED
    BY <1>1, <2>1 DEF CurrentInHistory, Known
<1>5. PollGenuine'
  BY <1>1 DEF IInv, PollGenuine
<1>6. StatsCovered'
  BY <1>1 DEF IInv, StatsCovered, Known
<1>7. QED
  BY <1>2, <1>3, <1>4, <1>5, <1>6 DEF IInv

LEMMA RestartIInv ==
    ASSUME IInv, Restart
    PROVE  IInv'
<1>1. /\ UNCHANGED <<day, vendor, current, history, daily, volumes, jobs>>
      /\ stats' = NoStats /\ cleanup' = "idle"
      /\ poll' = [a \in Arrays |-> [pc |-> "idle", capacity |-> Missing, day |-> 1]]
  BY DEF Restart
<1>2. stats' \in StatsRecord /\ stats'.pc = "idle"
  BY <1>1, NoStatsTyped
<1>3. poll' \in [Arrays -> PollRecord]
  BY <1>1, Constants, AnswersTyped DEF PollRecord, Labels
<1>4. faults' \in 0..MaxFaults
  BY FaultTyped DEF IInv, Restart
<1>5. TypeOK'
  BY <1>1, <1>2, <1>3, <1>4 DEF IInv, TypeOK, StatsRecord, PollRecord, Labels
<1>6. CapacityGenuine'
  BY <1>1 DEF IInv, CapacityGenuine, Known
<1>7. CurrentInHistory'
  BY <1>1 DEF IInv, CurrentInHistory, Known, Backed
<1>8. PollGenuine'
  BY <1>1 DEF PollGenuine
<1>9. StatsCovered'
  BY <1>1, <1>2 DEF IInv, StatsCovered, Known
<1>10. QED
  BY <1>5, <1>6, <1>7, <1>8, <1>9 DEF IInv

LEMMA StepIInv ==
    ASSUME IInv, [Next]_vars
    PROVE  IInv'
<1>1. CASE Next
  BY <1>1, NextDayIInv, CollectIInv, PollEnds, SaveIInv, CountArraysIInv, SumCapacityIInv,
     InsertStatsIInv, StatsFailIInv, VolumesTyped, CleanMetricsIInv, RestartIInv
     DEF Next, Poll, Stats, Cleanup
<1>2. CASE UNCHANGED vars
  <2>1. TypeOK'
    BY <1>2 DEF IInv, TypeOK, vars, stores
  <2>2. QED
    BY <1>2, <2>1, Untouched DEF vars, stores
<1>3. QED
  BY <1>1, <1>2

LEMMA Invariance == Spec => []IInv
<1>1. Init => IInv
  BY InitIInv
<1>2. IInv /\ [Next]_vars => IInv'
  BY StepIInv
<1>3. QED
  BY <1>1, <1>2, PTL DEF Spec

\* Every table and every job's state has the shape the queries rely on.
THEOREM TypeCorrect == Spec => []TypeOK
<1>1. IInv => TypeOK
  BY DEF IInv
<1>2. QED
  BY <1>1, Invariance, PTL

\* No failed request ever shows as a capacity in any of the three tables, and only an
\* answer of a Pure or a NetApp array as a capacity of zero.
THEOREM StoredIsAnswered == Spec => []CapacityGenuine
<1>1. IInv => CapacityGenuine
  BY DEF IInv
<1>2. QED
  BY <1>1, Invariance, PTL

\* The current row of an array is in its history for as long as the history is kept.
THEOREM CurrentIsInHistory == Spec => []CurrentInHistory
<1>1. IInv => CurrentInHistory
  BY DEF IInv
<1>2. QED
  BY <1>1, Invariance, PTL

\* A day's row survives every later run of the job, successful or not.
THEOREM DailyIsKept == Spec => DailyKept
<1> DEFINE Kept == \A d \in Days : daily[d].there =>
                       /\ daily'[d].there
                       /\ daily[d].counted \subseteq daily'[d].counted
<1>1. ASSUME IInv, [Next]_vars
      PROVE  [Kept]_vars
  <2>1. CASE InsertStats
    <3>1. daily[stats.day].counted \subseteq stats.counted
      BY <1>1, <2>1 DEF IInv, StatsCovered, InsertStats
    <3>2. ASSUME NEW d \in Days, daily[d].there
          PROVE  daily'[d].there /\ daily[d].counted \subseteq daily'[d].counted
      BY <1>1, <2>1, <3>1, <3>2, Inserted
    <3>3. QED
      BY <3>2
  <2>2. CASE ~InsertStats
    <3>1. daily' = daily
      BY <1>1, <2>2 DEF Next, NextDay, Poll, Collect, Skip, Save, SaveFails, Stats, CountArrays,
         SumCapacity, StatsFail, Snapshot, StartCleanup, Cleanup, CleanMetrics, CleanMetricsFails,
         CleanBatch, CleanLast, CleanBatchFails, Restart, vars
    <3>2. QED
      BY <3>1
  <2>3. QED
    BY <2>1, <2>2
<1>2. QED
  BY <1>1, Invariance, PTL DEF Spec, DailyKept
=============================================================================
