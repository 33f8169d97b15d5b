-------------------------- MODULE PagingSwitchProofs --------------------------
(***************************************************************************)
(* Proofs about PagingSwitch, for any number of operators and threads, any *)
(* life of the cache and any length of a dispatch.                         *)
(***************************************************************************)
EXTENDS PagingSwitch, TLAPS

Limit == Fresh + Dispatch + Dispatch

\* A cache in use that is not the table's is younger than the last write.
CacheAged ==
    cache.left > 0 /\ (cache.enabled # enabled \/ cache.since # since) =>
        quiet + cache.left <= Fresh

\* What thread j read, or half read, from the table or from the cache.
Aged(j) ==
    /\ job[j].pc = "update" /\ (job[j].enabled # enabled \/ job[j].since # since) =>
           quiet + job[j].left <= Dispatch
    /\ job[j].pc = "half" /\ (job[j].enabled # enabled \/ cache.since # since) =>
           quiet + job[j].left <= Limit
    /\ job[j].pc = "dispatch" /\ (job[j].enabled # enabled \/ job[j].since # since) =>
           quiet + job[j].left <= Limit

IInv == TypeOK /\ CacheAged /\ \A j \in Jobs : Aged(j)

Jobrec == [pc : {"idle", "half", "update", "dispatch"}, enabled : BOOLEAN, since : Time,
           left : 0..Dispatch]

LEMMA Constants ==
    Fresh \in Nat /\ Dispatch \in Nat /\ MaxTime \in Nat /\ MaxTime > 0 /\ MaxWrites \in Nat /\ MaxFaults \in Nat
  BY BoundsAssumption

\* What the invariant says of one thread's record.
LEMMA JobTyped ==
    ASSUME TypeOK, NEW j \in Jobs
    PROVE  /\ job[j] \in Jobrec
           /\ job[j].left \in Nat /\ job[j].left <= Dispatch
           /\ job[j].enabled \in BOOLEAN /\ job[j].since \in Time
           /\ cache.left \in Nat /\ cache.left <= Fresh /\ quiet \in Nat
           /\ cache.enabled \in BOOLEAN /\ cache.since \in Time
  BY Constants DEF TypeOK, Jobrec

\* What Goto() does to each thread.
LEMMA GotoApplied ==
    ASSUME TypeOK, NEW j \in Jobs, NEW label \in {"idle", "half", "update", "dispatch"},
           NEW on \in BOOLEAN, NEW mark \in Time, NEW time \in 0..Dispatch,
           Goto(j, label, on, mark, time)
    PROVE  /\ job' \in [Jobs -> Jobrec]
           /\ job'[j].pc = label /\ job'[j].enabled = on
           /\ job'[j].since = mark /\ job'[j].left = time
           /\ \A k \in Jobs : k # j => job'[k] = job[k]
  BY DEF Goto, TypeOK, Jobrec

LEMMA InitIInv == Init => IInv
<1> SUFFICES ASSUME Init
             PROVE  IInv
  OBVIOUS
<1>1. TypeOK
  <2>1. 0 \in Time /\ 1 \in Time /\ 0 \in 0..Fresh /\ 0 \in 0..Dispatch
    BY Constants DEF Time
  <2>2. NoJob \in Jobrec
    BY <2>1 DEF NoJob, Jobrec
  <2>3. job \in [Jobs -> Jobrec]
    BY <2>2 DEF Init
  <2>4. cache \in [known : BOOLEAN, enabled : BOOLEAN, since : Time, left : 0..Fresh]
    BY <2>1 DEF Init
  <2>5. request \in [Operators -> [pc : {"idle", "stamp", "write"}, stamp : Time]]
    BY <2>1 DEF Init
  <2>6. QED
    BY <2>1, <2>3, <2>4, <2>5 DEF Init, TypeOK, Jobrec
<1>2. CacheAged
  BY DEF Init, CacheAged
<1>3. \A j \in Jobs : Aged(j)
  BY DEF Init, Aged, NoJob
<1>4. QED
  BY <1>1, <1>2, <1>3 DEF IInv

\* An age and what is left of a life: as one grows the other shrinks.
LEMMA InStep ==
    ASSUME NEW a \in Nat, NEW b \in Nat, NEW c \in Nat, NEW d \in Nat, NEW bound \in Nat,
           a <= c + 1, d > 0, b = d - 1, c + d <= bound
    PROVE  a + b <= bound
  OBVIOUS

\* Arithmetic of ages.
LEMMA Sums == ASSUME NEW a \in Nat, NEW b \in Nat, NEW c \in Nat, a + b <= c PROVE a <= c
  OBVIOUS
LEMMA Above == ASSUME NEW a \in Nat, NEW b \in Nat, NEW c \in Nat, a > c PROVE ~(a + b <= c)
  OBVIOUS
LEMMA SumLimit ==
    ASSUME NEW a \in Nat, NEW b \in Nat, Dispatch \in Nat, Fresh \in Nat,
           a + b <= Dispatch \/ (a <= Fresh /\ b <= Dispatch)
    PROVE  a + b <= Limit
  BY DEF Limit
LEMMA SumBoth ==
    ASSUME NEW a \in Nat, NEW b \in Nat, NEW c \in Nat, Dispatch \in Nat, Fresh \in Nat,
           a + c <= Dispatch, b <= Dispatch
    PROVE  a + b <= Limit
  BY DEF Limit
LEMMA Shift ==
    ASSUME NEW a \in Nat, NEW b \in Nat, NEW d \in Nat, NEW f \in Nat, a + b <= d
    PROVE  a + (f - (d - b)) <= f
  OBVIOUS

LEMMA TickIInv ==
    ASSUME IInv, Tick
    PROVE  IInv'
<1>1. TypeOK
  BY DEF IInv
<1>2. /\ quiet \in Nat /\ quiet' \in Nat /\ quiet' <= quiet + 1
      /\ UNCHANGED <<enabled, since>>
  BY <1>1, Constants DEF TypeOK, Tick, settings
<1>3. /\ cache' \in [known : BOOLEAN, enabled : BOOLEAN, since : Time, left : 0..Fresh]
      /\ cache'.enabled = cache.enabled /\ cache'.since = cache.since
      /\ cache'.left \in Nat /\ cache.left \in Nat
      /\ cache'.left > 0 => cache.left > 0 /\ cache'.left = cache.left - 1
  BY <1>1, Constants DEF TypeOK, Tick, Less
<1>4. ASSUME NEW j \in Jobs
      PROVE  /\ job'[j] \in Jobrec
             /\ job'[j].pc = job[j].pc /\ job'[j].enabled = job[j].enabled
             /\ job'[j].since = job[j].since
             /\ job[j].pc # "idle" => job[j].left > 0 /\ job'[j].left = job[j].left - 1
             /\ job'[j].left \in Nat /\ job[j].left \in Nat
  <2>1. job[j] \in Jobrec /\ job[j].left \in Nat /\ job[j].left <= Dispatch
    BY <1>1, JobTyped
  <2>2. job'[j] = [pc |-> job[j].pc, enabled |-> job[j].enabled,
                   since |-> job[j].since, left |-> Less(job[j].left)]
    BY DEF Tick
  <2>3. job[j].pc # "idle" => job[j].left > 0
    BY DEF Tick
  <2>4. Less(job[j].left) \in 0..Dispatch
    BY <2>1, Constants DEF Less
  <2>5. QED
    BY <2>1, <2>2, <2>3, <2>4, Constants DEF Jobrec, Less
<1>5. TypeOK'
  <2>1. DOMAIN job' = Jobs /\ job' = [j \in Jobs |-> job'[j]]
    BY DEF Tick
  <2>2. job' \in [Jobs -> Jobrec]
    BY <2>1, <1>4
  <2>3. now' \in Time
    BY <1>1, Constants DEF TypeOK, Tick, Time
  <2>4. QED
    BY <1>1, <1>2, <1>3, <2>2, <2>3 DEF TypeOK, Tick, settings, Jobrec
<1>6. CacheAged'
  <2>1. ASSUME cache'.left > 0, cache'.enabled # enabled' \/ cache'.since # since'
        PROVE  quiet' + cache'.left <= Fresh
    <3>1. quiet + cache.left <= Fresh
      BY <1>2, <1>3, <2>1 DEF IInv, CacheAged
    <3>2. QED
      BY <1>2, <1>3, <2>1, <3>1, InStep, Constants
  <2>2. QED
    BY <2>1 DEF CacheAged
<1>7. ASSUME NEW j \in Jobs
      PROVE  Aged(j)'
  <2>1. Aged(j)
    BY DEF IInv
  <2>2. ASSUME NEW bound \in Nat, job[j].pc # "idle", quiet + job[j].left <= bound
        PROVE  quiet' + job'[j].left <= bound
    BY <1>2, <1>4, <2>2, InStep
  <2>3. Dispatch \in Nat /\ Limit \in Nat
    BY Constants DEF Limit
  <2>4. QED
    BY <1>2, <1>3, <1>4, <2>1, <2>2, <2>3 DEF Aged
<1>8. QED
  BY <1>5, <1>6, <1>7 DEF IInv

\* A write of the settings, and a failed read, start the time anew.
LEMMA QuietReset ==
    ASSUME IInv, quiet' = 0, UNCHANGED <<cache, job>>
    PROVE  CacheAged' /\ \A j \in Jobs : Aged(j)'
<1>1. CacheAged'
  <2>1. cache.left \in Nat /\ cache.left <= Fresh
    BY Constants DEF IInv, TypeOK
  <2>2. 0 + cache.left <= Fresh
    BY <2>1
  <2>3. QED
    BY <2>2 DEF CacheAged
<1>2. ASSUME NEW j \in Jobs
      PROVE  Aged(j)'
  <2>1. job[j].left \in Nat /\ job[j].left <= Dispatch
    BY JobTyped DEF IInv
  <2>2. 0 + job[j].left <= Dispatch /\ 0 + job[j].left <= Limit
    BY <2>1, Constants DEF Limit
  <2>3. QED
    BY <2>2 DEF Aged
<1>3. QED
  BY <1>1, <1>2

\* A request: it writes the settings, or it leaves them, the cache and the threads alone.
LEMMA RequestIInv ==
    ASSUME IInv, NEW o \in Operators,
           (\E on \in BOOLEAN : SetEnabled(o, on)) \/ TakeTime(o) \/ SetSince(o) \/ SetSinceFails(o)
    PROVE  IInv'
<1>1. TypeOK
  BY DEF IInv
<1>2. ASSUME NEW on \in BOOLEAN, SetEnabled(o, on)
      PROVE  IInv'
  <2>1. TypeOK'
    BY <1>1, <1>2, Constants DEF SetEnabled, Asked, TypeOK, Time
  <2>2. QED
    BY <1>2, <2>1, QuietReset DEF SetEnabled, IInv
<1>3. CASE SetSince(o)
  <2>1. TypeOK'
    BY <1>1, <1>3, Constants DEF SetSince, Asked, TypeOK, Time
  <2>2. QED
    BY <1>3, <2>1, QuietReset DEF SetSince, IInv
<1>4. CASE TakeTime(o)
  <2>1. TypeOK'
    BY <1>1, <1>4, Constants DEF TakeTime, Asked, TypeOK, Time
  <2>2. QED
    BY <1>4, <2>1 DEF TakeTime, IInv, CacheAged, Aged
<1>5. CASE SetSinceFails(o)
  <2>1. TypeOK'
    BY <1>1, <1>5, Constants DEF SetSinceFails, Fault, Asked, TypeOK, Time
  <2>2. QED
    BY <1>5, <2>1 DEF SetSinceFails, IInv, CacheAged, Aged
<1>6. QED
  BY <1>2, <1>3, <1>4, <1>5

LEMMA ReadCacheIInv ==
    ASSUME IInv, NEW j \in Jobs, ReadCache(j)
    PROVE  IInv'
<1>1. TypeOK /\ Aged(j) /\ CacheAged
  BY DEF IInv
<1>2. Goto(j, "half", cache.enabled, 0, Dispatch) /\ "half" \in {"idle", "half", "update", "dispatch"}
      /\ cache.enabled \in BOOLEAN /\ 0 \in Time /\ Dispatch \in 0..Dispatch
  BY <1>1, JobTyped, Constants DEF ReadCache, TypeOK, Time, Jobrec
<1>3. /\ job' \in [Jobs -> Jobrec]
      /\ job'[j].pc = "half" /\ job'[j].enabled = cache.enabled
      /\ job'[j].since = 0 /\ job'[j].left = Dispatch
      /\ \A k \in Jobs : k # j => job'[k] = job[k]
  BY <1>1, <1>2, GotoApplied
<1>4. TypeOK'
  BY <1>1, <1>3, Constants DEF ReadCache, TypeOK, Jobrec, settings
<1>5. CacheAged'
  BY <1>1 DEF CacheAged, ReadCache, settings
<1>6. Aged(j)'
  <2>1. ASSUME cache.enabled # enabled \/ cache.since # since
        PROVE  quiet + Dispatch <= Limit
    <3>1. quiet + cache.left <= Fresh /\ quiet \in Nat /\ cache.left \in Nat
      BY <1>1, <2>1, JobTyped DEF CacheAged, ReadCache
    <3>2. quiet <= Fresh
      BY <3>1, Constants, Sums
    <3>3. QED
      BY <3>1, <3>2, Constants, SumLimit
  <2>2. QED
    BY <1>3, <2>1 DEF Aged, ReadCache, settings
<1>7. ASSUME NEW k \in Jobs, k # j
      PROVE  Aged(k)'
  BY <1>3, <1>7 DEF IInv, Aged, ReadCache, settings
<1>8. QED
  BY <1>4, <1>5, <1>6, <1>7 DEF IInv

LEMMA ReadCacheSinceIInv ==
    ASSUME IInv, NEW j \in Jobs, ReadCacheSince(j)
    PROVE  IInv'
<1>1. TypeOK /\ Aged(j) /\ CacheAged
  BY DEF IInv
<1>2. Goto(j, "dispatch", job[j].enabled, cache.since, job[j].left) /\ "dispatch" \in {"idle", "half", "update", "dispatch"}
      /\ job[j].enabled \in BOOLEAN /\ cache.since \in Time /\ job[j].left \in 0..Dispatch
  BY <1>1, JobTyped, Constants DEF ReadCacheSince, TypeOK, Time, Jobrec
<1>3. /\ job' \in [Jobs -> Jobrec]
      /\ job'[j].pc = "dispatch" /\ job'[j].enabled = job[j].enabled
      /\ job'[j].since = cache.since /\ job'[j].left = job[j].left
      /\ \A k \in Jobs : k # j => job'[k] = job[k]
  BY <1>1, <1>2, GotoApplied
<1>4. TypeOK'
  BY <1>1, <1>3, Constants DEF ReadCacheSince, TypeOK, Jobrec, settings
<1>5. CacheAged'
  BY <1>1 DEF CacheAged, ReadCacheSince, settings
<1>6. Aged(j)'
  BY <1>1, <1>3 DEF Aged, ReadCacheSince, settings
<1>7. ASSUME NEW k \in Jobs, k # j
      PROVE  Aged(k)'
  BY <1>3, <1>7 DEF IInv, Aged, ReadCacheSince, settings
<1>8. QED
  BY <1>4, <1>5, <1>6, <1>7 DEF IInv

LEMMA SelectIInv ==
    ASSUME IInv, NEW j \in Jobs, Select(j)
    PROVE  IInv'
<1>1. TypeOK /\ Aged(j) /\ CacheAged
  BY DEF IInv
<1>2. Goto(j, "update", enabled, since, Dispatch) /\ "update" \in {"idle", "half", "update", "dispatch"}
      /\ enabled \in BOOLEAN /\ since \in Time /\ Dispatch \in 0..Dispatch
  BY <1>1, JobTyped, Constants DEF Select, TypeOK, Time, Jobrec
<1>3. /\ job' \in [Jobs -> Jobrec]
      /\ job'[j].pc = "update" /\ job'[j].enabled = enabled
      /\ job'[j].since = since /\ job'[j].left = Dispatch
      /\ \A k \in Jobs : k # j => job'[k] = job[k]
  BY <1>1, <1>2, GotoApplied
<1>4. TypeOK'
  BY <1>1, <1>3, Constants DEF Select, TypeOK, Jobrec, settings
<1>5. CacheAged'
  BY <1>1 DEF CacheAged, Select, settings
<1>6. Aged(j)'
  BY <1>3 DEF Aged, Select, settings
<1>7. ASSUME NEW k \in Jobs, k # j
      PROVE  Aged(k)'
  BY <1>3, <1>7 DEF IInv, Aged, Select, settings
<1>8. QED
  BY <1>4, <1>5, <1>6, <1>7 DEF IInv

LEMMA UpdateCacheIInv ==
    ASSUME IInv, NEW j \in Jobs, UpdateCache(j)
    PROVE  IInv'
<1>1. TypeOK /\ Aged(j) /\ CacheAged
  BY DEF IInv
<1>2. Goto(j, "dispatch", job[j].enabled, job[j].since, job[j].left) /\ "dispatch" \in {"idle", "half", "update", "dispatch"}
      /\ job[j].enabled \in BOOLEAN /\ job[j].since \in Time /\ job[j].left \in 0..Dispatch
  BY <1>1, JobTyped, Constants DEF UpdateCache, TypeOK, Time, Jobrec
<1>3. /\ job' \in [Jobs -> Jobrec]
      /\ job'[j].pc = "dispatch" /\ job'[j].enabled = job[j].enabled
      /\ job'[j].since = job[j].since /\ job'[j].left = job[j].left
      /\ \A k \in Jobs : k # j => job'[k] = job[k]
  BY <1>1, <1>2, GotoApplied
<1>4. TypeOK'
  <2>1. job[j].left \in Nat /\ job[j].left <= Dispatch /\ job[j].enabled \in BOOLEAN
        /\ job[j].since \in Time
    BY <1>1, JobTyped
  <2>2. (IF Dispatch - job[j].left < Fresh THEN Fresh - (Dispatch - job[j].left) ELSE 0) \in 0..Fresh
    BY <2>1, Constants
  <2>3. QED
    BY <1>1, <1>3, <2>1, <2>2, Constants DEF UpdateCache, TypeOK, Jobrec, settings
<1>a. /\ cache'.enabled = job[j].enabled /\ cache'.since = job[j].since
      /\ cache'.left = IF Dispatch - job[j].left < Fresh
                       THEN Fresh - (Dispatch - job[j].left) ELSE 0
      /\ UNCHANGED <<enabled, since, quiet>> /\ job[j].pc = "update"
  BY DEF UpdateCache, settings
<1>b. job[j].left \in Nat /\ job[j].left <= Dispatch /\ quiet \in Nat
  BY <1>1, JobTyped
<1>c. (job[j].enabled # enabled \/ job[j].since # since) => quiet + job[j].left <= Dispatch
  BY <1>1, <1>a DEF Aged
<1>5. CacheAged'
  <2>1. ASSUME cache'.left > 0, quiet + job[j].left <= Dispatch
        PROVE  quiet + cache'.left <= Fresh
    <3>1. cache'.left = Fresh - (Dispatch - job[j].left)
      BY <1>a, <2>1
    <3>2. QED
      BY <1>b, <2>1, <3>1, Constants, Shift
  <2>2. QED
    BY <1>a, <1>c, <2>1 DEF CacheAged
<1>6. Aged(j)'
  <2>1. ASSUME job[j].enabled # enabled \/ job[j].since # since
        PROVE  quiet + job[j].left <= Limit
    <3>1. quiet + job[j].left <= Dispatch /\ quiet \in Nat /\ job[j].left \in Nat
      BY <1>1, <2>1, JobTyped DEF Aged, UpdateCache
    <3>2. QED
      BY <3>1, Constants, SumLimit
  <2>2. QED
    BY <1>3, <2>1 DEF Aged, UpdateCache, settings
<1>7. ASSUME NEW k \in Jobs, k # j
      PROVE  Aged(k)'
  <2>1. Aged(k) /\ job'[k] = job[k]
    BY <1>3, <1>7 DEF IInv
  <2>2. job[k].left \in Nat /\ job[k].left <= Dispatch
    BY <1>1, JobTyped
  <2>3. ASSUME cache'.since # since
        PROVE  quiet + job[k].left <= Limit
    <3>1. quiet + job[j].left <= Dispatch
      BY <1>a, <1>c, <2>3
    <3>2. QED
      BY <1>b, <2>2, <3>1, Constants, SumBoth
  <2>4. job[k].pc = "half" /\ job[k].enabled # enabled => quiet + job[k].left <= Limit
    BY <2>1 DEF Aged
  <2>5. QED
    BY <1>a, <2>1, <2>3, <2>4 DEF Aged
<1>8. QED
  BY <1>4, <1>5, <1>6, <1>7 DEF IInv

LEMMA PageIInv ==
    ASSUME IInv, NEW j \in Jobs, Page(j)
    PROVE  IInv'
<1>1. TypeOK /\ Aged(j) /\ CacheAged
  BY DEF IInv
<1>2. Goto(j, "idle", TRUE, 0, 0) /\ "idle" \in {"idle", "half", "update", "dispatch"}
      /\ TRUE \in BOOLEAN /\ 0 \in Time /\ 0 \in 0..Dispatch
  <2>1. Goto(j, "idle", TRUE, 0, 0)
    BY DEF Page, Leave
  <2>2. 0 \in Time /\ 0 \in 0..Dispatch
    BY Constants DEF Time
  <2>3. QED
    BY <2>1, <2>2
<1>3. /\ job' \in [Jobs -> Jobrec]
      /\ job'[j].pc = "idle" /\ job'[j].enabled = TRUE
      /\ job'[j].since = 0 /\ job'[j].left = 0
      /\ \A k \in Jobs : k # j => job'[k] = job[k]
  BY <1>1, <1>2, GotoApplied
<1>4. TypeOK'
  BY <1>1, <1>3, Constants DEF Page, Leave, TypeOK, Jobrec, settings
<1>5. CacheAged'
  BY <1>1 DEF CacheAged, Page, Leave, settings
<1>6. Aged(j)'
  BY <1>3 DEF Aged
<1>7. ASSUME NEW k \in Jobs, k # j
      PROVE  Aged(k)'
  BY <1>3, <1>7 DEF IInv, Aged, Page, Leave, settings
<1>8. QED
  BY <1>4, <1>5, <1>6, <1>7 DEF IInv

LEMMA PageFailsIInv ==
    ASSUME IInv, NEW j \in Jobs, PageFails(j)
    PROVE  IInv'
<1>1. TypeOK /\ Aged(j) /\ CacheAged
  BY DEF IInv
<1>2. Goto(j, "idle", TRUE, 0, 0) /\ "idle" \in {"idle", "half", "update", "dispatch"}
      /\ TRUE \in BOOLEAN /\ 0 \in Time /\ 0 \in 0..Dispatch
  <2>1. Goto(j, "idle", TRUE, 0, 0)
    BY DEF PageFails, Leave, Fault
  <2>2. 0 \in Time /\ 0 \in 0..Dispatch
    BY Constants DEF Time
  <2>3. QED
    BY <2>1, <2>2
<1>3. /\ job' \in [Jobs -> Jobrec]
      /\ job'[j].pc = "idle" /\ job'[j].enabled = TRUE
      /\ job'[j].since = 0 /\ job'[j].left = 0
      /\ \A k \in Jobs : k # j => job'[k] = job[k]
  BY <1>1, <1>2, GotoApplied
<1>4. TypeOK'
  BY <1>1, <1>3, Constants DEF PageFails, Leave, Fault, TypeOK, Jobrec, settings
<1>5. CacheAged'
  BY <1>1 DEF CacheAged, PageFails, Leave, Fault, settings
<1>6. Aged(j)'
  BY <1>3 DEF Aged
<1>7. ASSUME NEW k \in Jobs, k # j
      PROVE  Aged(k)'
  BY <1>3, <1>7 DEF IInv, Aged, PageFails, Leave, Fault, settings
<1>8. QED
  BY <1>4, <1>5, <1>6, <1>7 DEF IInv

LEMMA SkipIInv ==
    ASSUME IInv, NEW j \in Jobs, Skip(j)
    PROVE  IInv'
<1>1. TypeOK /\ Aged(j) /\ CacheAged
  BY DEF IInv
<1>2. Goto(j, "idle", TRUE, 0, 0) /\ "idle" \in {"idle", "half", "update", "dispatch"}
      /\ TRUE \in BOOLEAN /\ 0 \in Time /\ 0 \in 0..Dispatch
  <2>1. Goto(j, "idle", TRUE, 0, 0)
    BY DEF Skip, Leave
  <2>2. 0 \in Time /\ 0 \in 0..Dispatch
    BY Constants DEF Time
  <2>3. QED
    BY <2>1, <2>2
<1>3. /\ job' \in [Jobs -> Jobrec]
      /\ job'[j].pc = "idle" /\ job'[j].enabled = TRUE
      /\ job'[j].since = 0 /\ job'[j].left = 0
      /\ \A k \in Jobs : k # j => job'[k] = job[k]
  BY <1>1, <1>2, GotoApplied
<1>4. TypeOK'
  BY <1>1, <1>3, Constants DEF Skip, Leave, TypeOK, Jobrec, settings
<1>5. CacheAged'
  BY <1>1 DEF CacheAged, Skip, Leave, settings
<1>6. Aged(j)'
  BY <1>3 DEF Aged
<1>7. ASSUME NEW k \in Jobs, k # j
      PROVE  Aged(k)'
  BY <1>3, <1>7 DEF IInv, Aged, Skip, Leave, settings
<1>8. QED
  BY <1>4, <1>5, <1>6, <1>7 DEF IInv

LEMMA SelectFailsIInv ==
    ASSUME IInv, NEW j \in Jobs, SelectFails(j)
    PROVE  IInv'
<1>1. TypeOK
  BY DEF IInv
<1>2. PICK on \in BOOLEAN, mark \in Time : Goto(j, "dispatch", on, mark, Dispatch)
  <2>1. CASE cache.known
    BY <1>1, <2>1 DEF SelectFails, TypeOK
  <2>2. CASE ~cache.known
    <3>1. 0 \in Time
      BY Constants DEF Time
    <3>2. Goto(j, "dispatch", TRUE, 0, Dispatch)
      BY <2>2 DEF SelectFails
    <3>3. QED
      BY <3>1, <3>2
  <2>3. QED
    BY <2>1, <2>2
<1>a. Dispatch \in 0..Dispatch
  BY Constants
<1>3. /\ job' \in [Jobs -> Jobrec]
      /\ job'[j].pc = "dispatch" /\ job'[j].left = Dispatch
      /\ \A k \in Jobs : k # j => job'[k] = job[k]
  BY <1>1, <1>2, <1>a, GotoApplied
<1>4. /\ quiet' = 0 /\ faults' \in Nat
      /\ UNCHANGED <<now, enabled, since, turned_on, request, writes, cache, opened, paged>>
  BY <1>1 DEF SelectFails, Fault, TypeOK, settings
<1>5. TypeOK'
  BY <1>1, <1>3, <1>4 DEF TypeOK, Jobrec
<1>6. CacheAged'
  <2>1. cache.left \in Nat /\ cache.left <= Fresh /\ 0 + cache.left <= Fresh
    BY <1>1, Constants DEF TypeOK
  <2>2. QED
    BY <1>4, <2>1 DEF CacheAged
<1>7. ASSUME NEW k \in Jobs
      PROVE  Aged(k)'
  <2>1. job'[k].left \in Nat /\ job'[k].left <= Dispatch
    BY <1>3, Constants DEF Jobrec
  <2>2. 0 + job'[k].left <= Dispatch /\ 0 + job'[k].left <= Limit
    BY <2>1, Constants DEF Limit
  <2>3. QED
    BY <1>4, <2>2 DEF Aged
<1>8. QED
  BY <1>5, <1>6, <1>7 DEF IInv

LEMMA NextIInv ==
    ASSUME IInv, [Next]_vars
    PROVE  IInv'
<1>1. CASE Tick
  BY <1>1, TickIInv
<1>2. CASE AlertOpens
  <2>1. TypeOK'
    BY <1>2 DEF AlertOpens, settings, IInv, TypeOK
  <2>2. QED
    BY <1>2, <2>1 DEF AlertOpens, settings, IInv, CacheAged, Aged
<1>3. ASSUME NEW o \in Operators,
             (\E on \in BOOLEAN : SetEnabled(o, on)) \/ TakeTime(o) \/ SetSince(o)
                 \/ SetSinceFails(o)
      PROVE  IInv'
  BY <1>3, RequestIInv
<1>4. ASSUME NEW j \in Jobs, Step(j) \/ SelectFails(j) \/ PageFails(j)
      PROVE  IInv'
  BY <1>4, ReadCacheIInv, ReadCacheSinceIInv, SelectIInv, UpdateCacheIInv, PageIInv, SkipIInv,
     SelectFailsIInv, PageFailsIInv DEF Step
<1>5. CASE UNCHANGED vars
  <2>1. TypeOK'
    BY <1>5 DEF vars, IInv, TypeOK
  <2>2. QED
    BY <1>5, <2>1 DEF vars, IInv, CacheAged, Aged
<1>6. QED
  BY <1>1, <1>2, <1>3, <1>4, <1>5 DEF Next

LEMMA SpecIInv == Spec => []IInv
  BY InitIInv, NextIInv, PTL DEF Spec

\* The settings, the requests, the cache and the threads always have their type.
THEOREM TypeCorrect == Spec => []TypeOK
<1>1. IInv => TypeOK
  BY DEF IInv
<1>2. QED
  BY <1>1, SpecIInv, PTL

\* For any lives of the cache and of a dispatch: once the settings have been quiet for
\* their sum, what a thread pages by is what the table says.
THEOREM PagesBySettings == Spec => SettledPaging
<1> DEFINE Settled == Paging /\ quiet > Fresh + Dispatch + Dispatch => enabled /\ opened >= since
<1>1. ASSUME IInv, [Next]_vars
      PROVE  Settled
  <2>1. ASSUME NEW j \in Jobs, Page(j), quiet > Limit
        PROVE  enabled /\ opened >= since
    <3>1. job[j].left \in Nat /\ quiet \in Nat
      BY <1>1, JobTyped DEF IInv
    <3>2. ~(quiet + job[j].left <= Limit)
      BY <2>1, <3>1, Constants, Above DEF Limit
    <3>3. job[j].enabled = enabled /\ job[j].since = since
      BY <1>1, <2>1, <3>2 DEF IInv, Aged, Page
    <3>4. QED
      BY <2>1, <3>3 DEF Page, Pages, OpenedAfter
  <2>2. Paging => \E j \in Jobs : Page(j)
    BY <1>1 DEF Paging, Next, vars, Tick, AlertOpens, SetEnabled, TakeTime, SetSince,
       SetSinceFails, Step, ReadCache, ReadCacheSince, Select, UpdateCache, SelectFails,
       PageFails, Skip
  <2>3. QED
    BY <2>1, <2>2 DEF Limit
<1>2. QED
  BY <1>1, SpecIInv, PTL DEF Spec, SettledPaging

(***************************************************************************)
(* How far "never backfills the older open alerts" holds.                  *)
(***************************************************************************)

\* No two requests are between their transactions at once, and none loses its second.
Apart ==
    \A o, p \in Operators : request[o].pc # "idle" /\ request[p].pc # "idle" => o = p
StampLost == \E o \in Operators : SetSinceFails(o)

Stamped == \A o \in Operators : request[o].pc = "idle"

\* The mark that is stored, or about to be, is no older than the turning on.
Marked ==
    /\ turned_on <= now
    /\ \A o \in Operators : request[o].pc = "write" => request[o].stamp >= turned_on
    /\ Stamped => since >= turned_on

\* What Asked() does to each request.
LEMMA AskedApplied ==
    ASSUME TypeOK, NEW o \in Operators, NEW label, NEW stamp, Asked(o, label, stamp)
    PROVE  /\ request'[o].pc = label /\ request'[o].stamp = stamp
           /\ \A p \in Operators : p # o => request'[p] = request[p]
  BY DEF Asked, TypeOK

LEMMA MarkedStep ==
    ASSUME TypeOK, TypeOK', Marked, Apart, Apart', [Next]_vars, ~StampLost
    PROVE  Marked'
<1>1. /\ now \in Nat /\ now' \in Nat /\ turned_on \in Nat /\ turned_on' \in Nat
      /\ since \in Nat /\ since' \in Nat
  BY Constants DEF TypeOK, Time
<1>2. CASE \E o \in Operators, on \in BOOLEAN : SetEnabled(o, on)
  <2>1. PICK o \in Operators, on \in BOOLEAN : SetEnabled(o, on)
    BY <1>2
  <2>2. /\ request'[o].pc = (IF on THEN "stamp" ELSE "idle")
        /\ \A p \in Operators : p # o => request'[p] = request[p]
    BY <2>1, AskedApplied DEF SetEnabled
  <2>3. /\ turned_on' \in {turned_on, now} /\ UNCHANGED <<now, since>>
        /\ ~on => turned_on' = turned_on
        /\ request[o].pc = "idle"
    BY <2>1 DEF SetEnabled
  <2>4. CASE on
    <3>1. \A p \in Operators : request'[p].pc # "idle" => p = o
      BY <2>2, <2>4 DEF Apart
    <3>2. ~Stamped' /\ \A p \in Operators : request'[p].pc # "write"
      BY <2>2, <2>4, <3>1 DEF Stamped
    <3> QED BY <1>1, <2>3, <3>2 DEF Marked
  <2>5. CASE ~on
    <3>1. \A p \in Operators : request'[p].pc = request[p].pc
      BY <2>2, <2>3, <2>5
    <3>2. \A p \in Operators : request'[p].pc = "write" => request'[p].stamp = request[p].stamp
      BY <2>2, <2>5
    <3> QED BY <2>3, <2>5, <3>1, <3>2 DEF Marked, Stamped
  <2> QED BY <2>4, <2>5
<1>3. CASE \E o \in Operators : TakeTime(o)
  <2>1. PICK o \in Operators : TakeTime(o)
    BY <1>3
  <2>2. /\ request'[o].pc = "write" /\ request'[o].stamp = now
        /\ \A p \in Operators : p # o => request'[p] = request[p]
    BY <2>1, AskedApplied DEF TakeTime
  <2> QED BY <1>1, <2>1, <2>2 DEF TakeTime, Marked, Stamped
<1>4. CASE \E o \in Operators : SetSince(o)
  <2>1. PICK o \in Operators : SetSince(o)
    BY <1>4
  <2>2. /\ request'[o].pc = "idle"
        /\ \A p \in Operators : p # o => request'[p] = request[p]
    BY <2>1, AskedApplied DEF SetSince
  <2> QED BY <1>1, <2>1, <2>2 DEF SetSince, Marked, Stamped
<1>5. CASE UNCHANGED settings
  <2>1. now' = now \/ now' = now + 1
    BY <1>1, <1>5
    DEF Next, vars, Tick, AlertOpens, SetEnabled, TakeTime, SetSince, SetSinceFails, Step,
        ReadCache, ReadCacheSince, Select, UpdateCache, Page, Skip, SelectFails, PageFails
  <2> QED BY <1>1, <1>5, <2>1 DEF settings, Marked, Stamped
<1> QED BY <1>2, <1>3, <1>4, <1>5
        DEF Next, vars, settings, StampLost, Tick, AlertOpens, Step, ReadCache,
            ReadCacheSince, Select, UpdateCache, Page, Skip, SelectFails, PageFails

\* Once both transactions of turning it on are through, and one life of the cache and two
\* dispatches have passed, no alert from before is paged: as long as requests do not
\* overlap and none loses its second transaction.
THEOREM BacklogLeftAlone ==
    Spec /\ []Apart /\ [][~StampLost]_vars =>
        [][Paging /\ Stamped /\ quiet > Limit => opened >= turned_on]_vars
<1>1. Init => Marked
  BY DEF Init, Marked
<1>2. /\ TypeOK /\ TypeOK' /\ Apart /\ Apart' /\ [Next]_vars /\ [~StampLost]_vars /\ Marked
      => Marked'
  <2> SUFFICES ASSUME TypeOK, TypeOK', Apart, Apart', [Next]_vars, [~StampLost]_vars, Marked
               PROVE  Marked'
    OBVIOUS
  <2>1. CASE UNCHANGED vars
    BY <2>1 DEF vars, Marked, Stamped
  <2>2. CASE ~StampLost
    BY <2>2, MarkedStep
  <2> QED BY <2>1, <2>2
<1>3. /\ TypeOK /\ TypeOK' /\ Marked
      /\ [Paging /\ quiet > Fresh + Dispatch + Dispatch => enabled /\ opened >= since]_vars
      => [Paging /\ Stamped /\ quiet > Limit => opened >= turned_on]_vars
  <2>1. TypeOK => opened \in Nat /\ since \in Nat /\ turned_on \in Nat
    BY Constants DEF TypeOK, Time
  <2> QED BY <2>1 DEF Marked, Limit
<1> QED BY <1>1, <1>2, <1>3, TypeCorrect, PagesBySettings, PTL DEF Spec, SettledPaging
=============================================================================
