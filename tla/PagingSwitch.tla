---------------------------- MODULE PagingSwitch ----------------------------
(***************************************************************************)
(* The run-time switch of Datadog paging.  Operators flip it through the   *)
(* API, which writes two rows of app_settings in two transactions; the     *)
(* alert jobs of the collector process read both rows, share what they     *)
(* read for a while, and page an alert, or not, by it.                     *)
(*                                                                         *)
(* Alerts are dispatched one by one, so one alert stands for all; the      *)
(* gates of dispatch_datadog_new() which do not depend on the switch are   *)
(* in AlertLifecycle.                                                      *)
(***************************************************************************)
EXTENDS Naturals

CONSTANTS
    Operators,   \* requests to set_datadog_paging() that may run side by side
    Jobs,        \* collector threads, which share _paging_cache
    Fresh,       \* how long _paging_cache is used (30 s)
    Dispatch,    \* longest time from reading the settings to the last POST
    MaxTime,     \* the clock stops here
    MaxWrites,   \* bound on requests
    MaxFaults    \* bound on failed transactions, reads and POSTs

ASSUME BoundsAssumption ==
    {Fresh, Dispatch, MaxTime, MaxWrites, MaxFaults} \subseteq Nat /\ MaxTime > 0

\* Time 0 stands for an absent datadog_paging_since and for an alert not opened yet.
Time == 0..MaxTime

VARIABLES
    now,        \* the clock
    enabled,    \* datadog_paging_enabled; absent counts as enabled
    since,      \* datadog_paging_since
    turned_on,  \* when the switch was last turned on (history)
    request,    \* for each operator, where its request is and the time it took
    cache,      \* _paging_cache, and for how long it is still used
    job,        \* for each thread, where it is, what it read, and its time left
    opened,     \* when the alert was opened
    paged,      \* whether Datadog has been told
    quiet,      \* time since the settings were last written or a read last failed
    writes, faults

settings == <<enabled, since, turned_on, request, writes>>
vars == <<now, enabled, since, turned_on, request, cache, job, opened, paged, quiet,
          writes, faults>>

NoJob == [pc |-> "idle", enabled |-> TRUE, since |-> 0, left |-> 0]

Init ==
    /\ now = 1
    /\ enabled = TRUE
    /\ since = 0
    /\ turned_on = 0
    /\ request = [o \in Operators |-> [pc |-> "idle", stamp |-> 0]]
    /\ cache = [known |-> FALSE, enabled |-> TRUE, since |-> 0, left |-> 0]
    /\ job = [j \in Jobs |-> NoJob]
    /\ opened = 0
    /\ paged = FALSE
    /\ quiet = 0
    /\ writes = 0
    /\ faults = 0

(***************************************************************************)
(* The world.                                                              *)
(***************************************************************************)

\* Nothing has changed for longer than any property asks about.
Horizon == Fresh + Dispatch + Dispatch + 1

Less(n) == IF n > 0 THEN n - 1 ELSE 0

\* Time passes unless a thread has used up the time of its dispatch.
Tick ==
    /\ \A j \in Jobs : job[j].pc # "idle" => job[j].left > 0
    /\ now' = IF now < MaxTime THEN now + 1 ELSE now
    /\ quiet' = IF quiet < Horizon THEN quiet + 1 ELSE quiet
    /\ cache' = [known |-> cache.known, enabled |-> cache.enabled,
                 since |-> cache.since, left |-> Less(cache.left)]
    /\ job' = [j \in Jobs |-> [pc |-> job[j].pc, enabled |-> job[j].enabled,
                               since |-> job[j].since, left |-> Less(job[j].left)]]
    /\ UNCHANGED <<settings, opened, paged, faults>>

AlertOpens ==
    /\ opened = 0
    /\ opened' = now
    /\ UNCHANGED <<now, settings, cache, job, paged, quiet, faults>>

Fault ==
    /\ faults < MaxFaults
    /\ faults' = faults + 1

(***************************************************************************)
(* set_datadog_paging().                                                   *)
(***************************************************************************)

Asked(o, label, stamp) ==
    request' = [request EXCEPT ![o] = [pc |-> label, stamp |-> stamp]]

\* The first transaction.  Turning the switch off ends there; a failure of it changes
\* nothing.
SetEnabled(o, on) ==
    /\ request[o].pc = "idle"
    /\ writes < MaxWrites
    /\ writes' = writes + 1
    /\ enabled' = on
    /\ turned_on' = IF on /\ ~enabled THEN now ELSE turned_on
    /\ Asked(o, IF on THEN "stamp" ELSE "idle", 0)
    /\ quiet' = 0
    /\ UNCHANGED <<now, since, cache, job, opened, paged, faults>>

\* now_iso is taken when the request goes on.
TakeTime(o) ==
    /\ request[o].pc = "stamp"
    /\ Asked(o, "write", now)
    /\ UNCHANGED <<now, enabled, since, turned_on, cache, job, opened, paged, quiet, writes, faults>>

\* The second transaction.
SetSince(o) ==
    /\ request[o].pc = "write"
    /\ since' = request[o].stamp
    /\ Asked(o, "idle", 0)
    /\ quiet' = 0
    /\ UNCHANGED <<now, enabled, turned_on, cache, job, opened, paged, writes, faults>>

\* It fails, or the process ends before it: the switch stays on.
SetSinceFails(o) ==
    /\ request[o].pc # "idle"
    /\ Fault
    /\ Asked(o, "idle", 0)
    /\ UNCHANGED <<now, enabled, since, turned_on, cache, job, opened, paged, quiet, writes>>

(***************************************************************************)
(* _paging_runtime(), at the start of a dispatch.                          *)
(***************************************************************************)

\* Mutant: a dispatch may last one unit too long.
GotoLate(j, label, on, mark, time) ==
    job' = [job EXCEPT ![j] = [pc |-> label, enabled |-> on, since |-> mark, left |-> time + 1]]

Goto(j, label, on, mark, time) ==
    job' = [job EXCEPT ![j] = [pc |-> label, enabled |-> on, since |-> mark, left |-> time]]

\* The two keys of a cache that is fresh are read one after the other ...
ReadCache(j) ==
    /\ job[j].pc = "idle"
    /\ cache.left > 0
    /\ Goto(j, "half", cache.enabled, 0, Dispatch)
    /\ UNCHANGED <<now, settings, cache, opened, paged, quiet, faults>>

\* ... and another thread may have updated it in between.
ReadCacheSince(j) ==
    /\ job[j].pc = "half"
    /\ Goto(j, "dispatch", job[j].enabled, cache.since, job[j].left)
    /\ UNCHANGED <<now, settings, cache, opened, paged, quiet, faults>>

\* Mutant: a switch that was read as off is not read again.
SelectIfOn(j) ==
    /\ job[j].pc = "idle"
    /\ cache.left = 0
    /\ cache.known => cache.enabled
    /\ Goto(j, "update", enabled, since, Dispatch)
    /\ UNCHANGED <<now, settings, cache, opened, paged, quiet, faults>>

\* Otherwise both rows are read in one statement.
Select(j) ==
    /\ job[j].pc = "idle"
    /\ cache.left = 0
    /\ Goto(j, "update", enabled, since, Dispatch)
    /\ UNCHANGED <<now, settings, cache, opened, paged, quiet, faults>>

\* Mutant: what is read over a known cache keeps the mark it had.
UpdateCacheEnabled(j) ==
    /\ job[j].pc = "update"
    /\ cache' = [known |-> TRUE, enabled |-> job[j].enabled,
                 since |-> IF cache.known THEN cache.since ELSE job[j].since, left |-> Fresh]
    /\ Goto(j, "dispatch", job[j].enabled, job[j].since, job[j].left)
    /\ UNCHANGED <<now, settings, opened, paged, quiet, faults>>

\* The cache is given them with the time taken before the query.
UpdateCache(j) ==
    /\ job[j].pc = "update"
    /\ cache' = [known |-> TRUE, enabled |-> job[j].enabled, since |-> job[j].since,
                 left |-> IF Dispatch - job[j].left < Fresh
                          THEN Fresh - (Dispatch - job[j].left) ELSE 0]
    /\ Goto(j, "dispatch", job[j].enabled, job[j].since, job[j].left)
    /\ UNCHANGED <<now, settings, opened, paged, quiet, faults>>

\* The query fails: the old values, however old, or enabled and no mark.
SelectFails(j) ==
    /\ job[j].pc = "idle"
    /\ cache.left = 0
    /\ Fault
    /\ quiet' = 0
    /\ IF cache.known THEN Goto(j, "dispatch", cache.enabled, cache.since, Dispatch)
       ELSE Goto(j, "dispatch", TRUE, 0, Dispatch)
    /\ UNCHANGED <<now, settings, cache, opened, paged>>

(***************************************************************************)
(* dispatch_datadog_new().                                                 *)
(***************************************************************************)

OpenedAfter(mark) == opened >= mark

Pages(j) ==
    /\ opened # 0
    /\ ~paged
    /\ job[j].enabled
    /\ OpenedAfter(job[j].since)

Leave(j) == Goto(j, "idle", TRUE, 0, 0)

Page(j) ==
    /\ job[j].pc = "dispatch"
    /\ Pages(j)
    /\ paged' = TRUE
    /\ Leave(j)
    /\ UNCHANGED <<now, settings, cache, opened, quiet, faults>>

PageFails(j) ==
    /\ job[j].pc = "dispatch"
    /\ Pages(j)
    /\ Fault
    /\ Leave(j)
    /\ UNCHANGED <<now, settings, cache, opened, paged, quiet>>

Skip(j) ==
    /\ job[j].pc = "dispatch"
    /\ ~Pages(j)
    /\ Leave(j)
    /\ UNCHANGED <<now, settings, cache, opened, paged, quiet, faults>>

Step(j) ==
    \/ ReadCache(j) \/ ReadCacheSince(j) \/ Select(j) \/ UpdateCache(j) \/ Page(j) \/ Skip(j)

Next ==
    \/ Tick \/ AlertOpens
    \/ \E o \in Operators :
           \/ \E on \in BOOLEAN : SetEnabled(o, on)
           \/ TakeTime(o) \/ SetSince(o) \/ SetSinceFails(o)
    \/ \E j \in Jobs : Step(j) \/ SelectFails(j) \/ PageFails(j)

Spec == Init /\ [][Next]_vars

\* Time passes, and the interval trigger starts every vendor's job again and again.
LiveSpec == Spec /\ WF_vars(Tick) /\ \A j \in Jobs : WF_vars(Step(j))

(***************************************************************************)
(* What is checked.                                                        *)
(***************************************************************************)

\* The type invariant.
TypeOK ==
    /\ now \in Time
    /\ enabled \in BOOLEAN
    /\ since \in Time
    /\ turned_on \in Time
    /\ request \in [Operators -> [pc : {"idle", "stamp", "write"}, stamp : Time]]
    /\ cache \in [known : BOOLEAN, enabled : BOOLEAN, since : Time, left : 0..Fresh]
    /\ job \in [Jobs -> [pc : {"idle", "half", "update", "dispatch"},
                         enabled : BOOLEAN, since : Time, left : 0..Dispatch]]
    /\ opened \in Time
    /\ paged \in BOOLEAN
    /\ quiet \in Nat
    /\ writes \in Nat
    /\ faults \in Nat

Paging == paged' # paged

\* Collectors page by settings that are read, torn and shared between threads, but what
\* they page by is never older than the dispatch that read it, one life of the cache and
\* the dispatch that uses it: after that an alert is paged only if the switch is on, and
\* only if it was opened after its mark.
SettledPaging ==
    [][Paging /\ quiet > Fresh + Dispatch + Dispatch => enabled /\ opened >= since]_vars

\* An alert opened under a switch that stays on is paged in the end, whatever the jobs
\* had cached when it was turned on and whatever failed on the way.
OnTakesEffect == <>[](enabled /\ opened # 0 /\ opened >= since) => <>paged

\* "Enabling ... never backfills the older open alerts" (settings.py:193-194).
NeverBackfills == [][Paging => opened >= turned_on]_vars
=============================================================================
