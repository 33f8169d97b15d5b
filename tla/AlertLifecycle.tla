---------------------------- MODULE AlertLifecycle ----------------------------
(***************************************************************************)
(* The life of the alerts of ONE storage array in the collector process:   *)
(* raised and cleared on the array, polled by the vendor's alert           *)
(* collector, kept as rows of USM.messages, announced to Teams, opened and *)
(* resolved as Datadog events, purged by the nightly clean-up.             *)
(*                                                                         *)
(* Arrays never share a row (UNIQUE(array_name, message_id)), and one      *)
(* scheduler runs at most one instance of a vendor's job, so one array and *)
(* one collector thread stand for the fleet.  `vendor' says whose          *)
(* collector polls the array: the seven differ in what a fetch can return, *)
(* in how save() is cut into transactions, and in what closes an alert.    *)
(***************************************************************************)
EXTENDS Integers

CONSTANTS
    Ids,          \* alerts the array may raise
    Severe,       \* those whose severity, overrides applied, is in ALERT_SEVERITIES
    Vendors,      \* the vendors this instance considers
    Endpoints,    \* endpoints of the vendors that fetch in several requests
    EndpointOf,   \* [Ids -> Endpoints]
    PagingReads,  \* what _paging_runtime and the allow-lists may answer
    Faults,       \* what the environment may do: see FaultKinds
    Seeds,        \* hash seeds a restart may draw ({0}: PYTHONHASHSEED pinned)
    NotifyAge,    \* alert_notify_max_age_hours, in clock ticks
    FetchAge,     \* the 24 h window of the NetApp request
    LookbackAge,  \* hpe_alert_lookback_days, hitachi_alert_lookback_days
    ResolveAge,   \* alert_resolve_days
    PurgeAge,     \* alert_purge_days
    MaxTime,      \* bound on the clock
    MaxRaises,    \* bound on the times one alert is raised
    MaxRestarts   \* bound on the restarts of the collector process

AllVendors == {"pure", "hpe", "hitachi", "dell", "oracle", "storagegrid", "netapp"}
FaultKinds == {"fetch", "page", "db", "post", "ack", "crash"}
Time == 0..MaxTime

ASSUME ConstantsAssumption ==
    /\ Severe \subseteq Ids
    /\ Vendors \subseteq AllVendors
    /\ EndpointOf \in [Ids -> Endpoints]
    /\ PagingReads \subseteq [enabled : BOOLEAN, since : Time]
    /\ Faults \subseteq FaultKinds
    /\ {NotifyAge, FetchAge, LookbackAge, ResolveAge, PurgeAge} \subseteq Nat
    /\ FetchAge <= ResolveAge
    /\ {MaxTime, MaxRaises, MaxRestarts} \subseteq Nat
    /\ 0 \in Seeds

VARIABLES
    vendor,    \* whose array this is; never changes
    now,       \* the clock
    alert,     \* the array: is the alert up, since when, how often was it raised
    messages,  \* the rows of USM.messages for this array
    datadog,   \* the event Datadog holds under each aggregation key
    collector, \* the collector thread: where save() is, and its locals
    seed,      \* the process's string-hash seed
    restarts,  \* restarts so far (bounded)
    lost,      \* history: keys whose open event the store failed to record
    missed     \* history: alerts an answer that counted as one did not contain

vars == <<vendor, now, alert, messages, datadog, collector, seed, restarts, lost, missed>>

(***************************************************************************)
(* The store, Datadog and the thread.                                      *)
(***************************************************************************)

\* UNIQUE(array_name, message_id).  Dell and Oracle derive message_id from hash(),
\* so there the identity of an alert depends on the seed of the process.
Keys == Ids \X Seeds
Hashed == {"dell", "oracle"}
Key(id) == <<id, IF vendor \in Hashed THEN seed ELSE 0>>

MaxOccurrences == MaxRaises + 1
Row == [stored : BOOLEAN, resolved : BOOLEAN, teams_notified : BOOLEAN,
        datadog_notified : BOOLEAN, opened : Time, occurrence_count : 0..MaxOccurrences]
NoRow == [stored |-> FALSE, resolved |-> FALSE, teams_notified |-> FALSE,
          datadog_notified |-> FALSE, opened |-> 0, occurrence_count |-> 0]

Messages == [id : Ids, opened : Time]

\* What collect() returns, and with it what it does not tell: the alerts the array has
\* (up), those at endpoints that did not answer, and those beyond the page it asked for.
Fetch == [messages : SUBSET Messages, fetch_ok : BOOLEAN,
          up : SUBSET Ids, unanswered : SUBSET Ids, beyond : SUBSET Ids]
Phases == {"idle", "save", "resolve", "push", "pushing", "clear",
           "dispatch", "page", "stamp", "teams", "mark", "age"}

Open(k) == messages[k].stored /\ ~messages[k].resolved
Resolved(k) == messages[k].stored /\ messages[k].resolved
Older(opened, age) == now - opened > age

Failed(S) == [messages |-> {}, fetch_ok |-> FALSE, up |-> S, unanswered |-> {}, beyond |-> {}]
NoFetch == Failed({})
Idle == [phase |-> "idle", fetch |-> NoFetch, new_alerts |-> {}, todo |-> {},
         cur |-> {}]

TypeOK ==
    /\ vendor \in Vendors
    /\ now \in Time
    /\ alert \in [Ids -> [up : BOOLEAN, opened : Time, raises : 0..MaxRaises]]
    /\ messages \in [Keys -> Row]
    /\ datadog \in [Keys -> {"none", "open", "ok"}]
    /\ collector \in [phase : Phases, fetch : Fetch, new_alerts : SUBSET Messages,
                      todo : SUBSET Keys, cur : SUBSET Keys]
    /\ seed \in Seeds
    /\ restarts \in 0..MaxRestarts
    /\ lost \subseteq Keys
    /\ missed \subseteq Ids

Init ==
    /\ vendor \in Vendors
    /\ now = 0
    /\ alert = [i \in Ids |-> [up |-> FALSE, opened |-> 0, raises |-> 0]]
    /\ messages = [k \in Keys |-> NoRow]
    /\ datadog = [k \in Keys |-> "none"]
    /\ collector = Idle
    /\ seed = 0
    /\ restarts = 0
    /\ lost = {}
    /\ missed = {}

(***************************************************************************)
(* The array.                                                              *)
(***************************************************************************)

\* Event-log sequence numbers are never reused, so an HPE or NetApp alert does not recur.
Recurs == vendor \notin {"hpe", "netapp"}

Raise(i) ==
    /\ ~alert[i].up
    /\ alert[i].raises < MaxRaises
    /\ alert[i].raises = 0 \/ Recurs
    /\ alert' = [alert EXCEPT ![i] = [up |-> TRUE, opened |-> now,
                                      raises |-> alert[i].raises + 1]]
    /\ UNCHANGED <<vendor, now, messages, datadog, collector, seed, restarts, lost, missed>>

Clear(i) ==
    /\ alert[i].up
    /\ alert' = [alert EXCEPT ![i].up = FALSE]
    /\ UNCHANGED <<vendor, now, messages, datadog, collector, seed, restarts, lost, missed>>

Tick ==
    /\ now < MaxTime
    /\ now' = now + 1
    /\ UNCHANGED <<vendor, alert, messages, datadog, collector, seed, restarts, lost, missed>>

(***************************************************************************)
(* collect(): what one fetch can return.  A failed single request leaves   *)
(* fetch_ok FALSE; the vendors with several requests set it when ANY of    *)
(* them succeeded; and some read one page of the answer only, which says   *)
(* nothing of the rest.                                                    *)
(***************************************************************************)

Up == {i \in Ids : alert[i].up}
Within(age) == {i \in Up : ~Older(alert[i].opened, age)}
MessagesOf(S) == {[id |-> i, opened |-> alert[i].opened] : i \in S}

\* What the page a request asks for may hold of S: whatever the array puts on it (the
\* rest of the page goes to alerts and events that are not in Ids).
AnyPage(S) == IF "page" \in Faults THEN SUBSET S ELSE {S}

\* Newest first: nothing on the page is older than what is beyond it.
NewestPages(S) ==
    {p \in AnyPage(S) : \A i \in p, j \in S \ p : alert[i].opened >= alert[j].opened}
NewestPerEndpoint(S) ==
    {p \in AnyPage(S) : \A i \in p, j \in S \ p :
        EndpointOf[i] = EndpointOf[j] => alert[i].opened >= alert[j].opened}

OnPage(S, p) == [messages |-> MessagesOf(p), fetch_ok |-> TRUE, up |-> S,
                 unanswered |-> {}, beyond |-> S \ p]

\* Mutant: a failed request reported like an empty answer.
FetchPageTrusting(S, pages) ==
    {OnPage(S, p) : p \in pages}
        \cup (IF "fetch" \in Faults THEN {[Failed(S) EXCEPT !.fetch_ok = TRUE]} ELSE {})

\* One request: it is answered with a page, or it fails.
FetchPage(S, pages) ==
    {OnPage(S, p) : p \in pages} \cup (IF "fetch" \in Faults THEN {Failed(S)} ELSE {})

\* One request per endpoint, of which some may be answered.
AnsweredBy(S, p, answered) ==
    [messages |-> MessagesOf({i \in p : EndpointOf[i] \in answered}),
     fetch_ok |-> answered # {},
     up |-> S,
     unanswered |-> {i \in S : EndpointOf[i] \notin answered},
     beyond |-> {i \in S \ p : EndpointOf[i] \in answered}]

FetchByEndpoint(S, pages) ==
    UNION {{AnsweredBy(S, p, answered) : p \in pages} :
              answered \in IF "fetch" \in Faults THEN SUBSET Endpoints ELSE {Endpoints}}

PureFetch == FetchPage(Up, {Up})
HpeFetch == FetchPage(Within(LookbackAge), {Within(LookbackAge)})
HitachiFetch == FetchByEndpoint(Within(LookbackAge), NewestPerEndpoint(Within(LookbackAge)))
DellFetch == FetchPage(Up, AnyPage(Up))
OracleFetch == FetchPage(Up, {Up})
StorageGridFetch == FetchByEndpoint(Up, {Up})
NetAppFetch == FetchPage(Within(FetchAge), NewestPages(Within(FetchAge)))

Fetches == [pure |-> PureFetch, hpe |-> HpeFetch, hitachi |-> HitachiFetch,
            dell |-> DellFetch, oracle |-> OracleFetch,
            storagegrid |-> StorageGridFetch, netapp |-> NetAppFetch]

\* The alerts the array has and an answer that counts as one does not contain.
Unseen(f) == IF f.fetch_ok THEN f.unanswered \cup f.beyond ELSE {}

\* run(): authenticate() and collect(); a refusal or an exception ends the cycle here
\* and changes nothing.
Collect ==
    /\ collector.phase = "idle"
    /\ \E f \in Fetches[vendor] :
          /\ collector' = [Idle EXCEPT !.phase = "save", !.fetch = f]
          /\ missed' = missed \cup Unseen(f)
    /\ UNCHANGED <<vendor, now, alert, messages, datadog, seed, restarts, lost>>

(***************************************************************************)
(* save(): the upsert transaction.                                         *)
(***************************************************************************)

Seen == {m.id : m \in collector.fetch.messages}
MessageOf(i) == CHOOSE m \in collector.fetch.messages : m.id = i
SeenKeys == {Key(i) : i \in Seen}

Bump(n) == IF n < MaxOccurrences THEN n + 1 ELSE n

\* Mutant: the occurrence counted on every poll, not only when the row was resolved.
UpsertedCounting(k, stays) ==
    LET row == messages[k] IN
    IF row.stored
    THEN [row EXCEPT !.opened = MessageOf(k[1]).opened, !.resolved = stays,
                     !.occurrence_count = Bump(@)]
    ELSE [NoRow EXCEPT !.stored = TRUE, !.opened = MessageOf(k[1]).opened,
                       !.occurrence_count = 1]

\* One row after the upsert; `stays' is the value of resolved an UPDATE leaves.
Upserted(k, stays) ==
    LET row == messages[k] IN
    IF row.stored
    THEN [row EXCEPT !.opened = MessageOf(k[1]).opened, !.resolved = stays,
                     !.occurrence_count = IF row.resolved THEN Bump(@) ELSE @]
    ELSE [NoRow EXCEPT !.stored = TRUE, !.opened = MessageOf(k[1]).opened,
                       !.occurrence_count = 1]

\* Mutant: teams_notified not consulted.
NewAlertsAgain(recent) ==
    {m \in collector.fetch.messages :
        m.id \in Severe /\ (recent => ~Older(m.opened, NotifyAge))}

\* Mutant: only rows just inserted are notified, so a refused POST is never retried.
NewAlertsInserted(recent) ==
    {m \in collector.fetch.messages :
        /\ m.id \in Severe
        /\ ~messages[Key(m.id)].stored
        /\ recent => ~Older(m.opened, NotifyAge)}

\* The alerts save() hands to _send_notifications(): not yet notified to Teams and
\* severe; every vendor but NetApp also asks opened_recently().
NewAlerts(recent) ==
    {m \in collector.fetch.messages :
        /\ m.id \in Severe
        /\ ~messages[Key(m.id)].teams_notified
        /\ recent => ~Older(m.opened, NotifyAge)}

\* Mutant: nothing resolved when the array reports no alert at all (NOT IN of no ids).
AbsentResolvedIfAny(rows) ==
    [k \in Keys |-> IF SeenKeys # {} /\ rows[k].stored /\ k \notin SeenKeys
                    THEN [rows[k] EXCEPT !.resolved = TRUE] ELSE rows[k]]

\* resolve_absent_alerts(): the open rows that are not in the fetched set.
AbsentResolved(rows) ==
    [k \in Keys |-> IF rows[k].stored /\ k \notin SeenKeys
                    THEN [rows[k] EXCEPT !.resolved = TRUE] ELSE rows[k]]

UpsertedReopening == [k \in Keys |-> IF k \in SeenKeys THEN Upserted(k, FALSE)
                                                       ELSE messages[k]]
UpsertedKeeping == [k \in Keys |-> IF k \in SeenKeys
                                   THEN Upserted(k, messages[k].resolved)
                                   ELSE messages[k]]

\* The transaction commits rows and goes on at `next', or it rolls back: save()
\* then returns FALSE and the cycle ends.
CommitSave(rows, recent, next) ==
    /\ collector.phase = "save"
    /\ messages' = rows
    /\ collector' = [collector EXCEPT !.phase = next, !.new_alerts = NewAlerts(recent),
                                      !.fetch = IF next = "resolve" THEN @ ELSE NoFetch]
    /\ UNCHANGED <<vendor, now, alert, datadog, seed, restarts, lost, missed>>

Ok == collector.fetch.fetch_ok

\* Mutant: the alert resolved, push_datadog_resolutions() not called.
PureSaveSilent ==
    /\ vendor = "pure"
    /\ CommitSave(IF Ok THEN AbsentResolved(UpsertedReopening) ELSE UpsertedReopening,
                  TRUE, "dispatch")

PureSave ==
    /\ vendor = "pure"
    /\ CommitSave(IF Ok THEN AbsentResolved(UpsertedReopening) ELSE UpsertedReopening,
                  TRUE, IF Ok THEN "push" ELSE "dispatch")
HpeSave ==
    vendor = "hpe" /\ CommitSave(UpsertedReopening, TRUE, IF Ok THEN "resolve" ELSE "push")
HitachiSave ==
    vendor = "hitachi" /\ CommitSave(UpsertedReopening, TRUE, IF Ok THEN "resolve" ELSE "push")
DellSave ==
    vendor = "dell" /\ CommitSave(UpsertedReopening, TRUE, IF Ok THEN "resolve" ELSE "push")
OracleSave ==
    vendor = "oracle" /\ CommitSave(UpsertedReopening, TRUE, IF Ok THEN "resolve" ELSE "push")
StorageGridSave ==
    /\ vendor = "storagegrid"
    /\ CommitSave(UpsertedReopening, TRUE, IF Ok THEN "resolve" ELSE "dispatch")
NetAppSave ==
    vendor = "netapp" /\ CommitSave(UpsertedKeeping, FALSE, "dispatch")

SaveFails ==
    /\ collector.phase = "save"
    /\ "db" \in Faults
    /\ collector' = Idle
    /\ UNCHANGED <<vendor, now, alert, messages, datadog, seed, restarts, lost, missed>>

(***************************************************************************)
(* After the upsert: resolve what the array no longer reports.             *)
(***************************************************************************)

\* Goes on at phase p of save(), or ends the cycle.
GoTo(p) == IF p = "idle" THEN Idle
           ELSE [collector EXCEPT !.phase = p, !.fetch = NoFetch, !.todo = {}, !.cur = {}]

\* In a transaction of its own, whose failure is logged and ignored.
ResolveAbsent ==
    /\ collector.phase = "resolve"
    /\ messages' = AbsentResolved(messages)
    /\ collector' = GoTo("push")
    /\ UNCHANGED <<vendor, now, alert, datadog, seed, restarts, lost, missed>>

\* NetApp events have no end: rows are resolved by age.
ResolveAged ==
    /\ collector.phase = "age"
    /\ messages' = [k \in Keys |-> IF Open(k) /\ Older(messages[k].opened, ResolveAge)
                                   THEN [messages[k] EXCEPT !.resolved = TRUE]
                                   ELSE messages[k]]
    /\ collector' = GoTo("push")
    /\ UNCHANGED <<vendor, now, alert, datadog, seed, restarts, lost, missed>>

ResolveFails ==
    /\ collector.phase \in {"resolve", "age"}
    /\ "db" \in Faults
    /\ collector' = GoTo("push")
    /\ UNCHANGED <<vendor, now, alert, messages, datadog, seed, restarts, lost, missed>>

(***************************************************************************)
(* push_datadog_resolutions().                                             *)
(***************************************************************************)

AfterPush == IF vendor = "netapp" THEN "idle" ELSE "dispatch"

\* Mutant: the rows to settle chosen by their flag alone, open ones among them.
PendingAll == {k \in Keys : messages[k].stored /\ messages[k].datadog_notified}

Pending == {k \in Keys : Resolved(k) /\ messages[k].datadog_notified}

PushQuery ==
    /\ collector.phase = "push"
    /\ collector' = [collector EXCEPT !.phase = "pushing", !.todo = Pending]
    /\ UNCHANGED <<vendor, now, alert, messages, datadog, seed, restarts, lost, missed>>

PushQueryFails ==
    /\ collector.phase = "push"
    /\ "db" \in Faults
    /\ collector' = GoTo(AfterPush)
    /\ UNCHANGED <<vendor, now, alert, messages, datadog, seed, restarts, lost, missed>>

Taken(k) == [collector EXCEPT !.todo = @ \ {k}]

\* resolve_datadog_alert() posts status 'ok': acknowledged, delivered with the
\* answer lost, or refused.
PushOk(k) ==
    /\ collector.phase = "pushing" /\ k \in collector.todo
    /\ datadog' = [datadog EXCEPT ![k] = "ok"]
    /\ lost' = lost \ {k}
    /\ collector' = [Taken(k) EXCEPT !.phase = "clear", !.cur = {k}]
    /\ UNCHANGED <<vendor, now, alert, messages, seed, restarts, missed>>

PushUnacked(k) ==
    /\ collector.phase = "pushing" /\ k \in collector.todo
    /\ "ack" \in Faults
    /\ datadog' = [datadog EXCEPT ![k] = "ok"]
    /\ lost' = lost \ {k}
    /\ collector' = Taken(k)
    /\ UNCHANGED <<vendor, now, alert, messages, seed, restarts, missed>>

\* Mutant: the flag cleared whatever Datadog answered.
PushRefusedClearing(k) ==
    /\ collector.phase = "pushing" /\ k \in collector.todo
    /\ "post" \in Faults
    /\ collector' = [Taken(k) EXCEPT !.phase = "clear", !.cur = {k}]
    /\ UNCHANGED <<vendor, now, alert, messages, datadog, seed, restarts, lost, missed>>

PushRefused(k) ==
    /\ collector.phase = "pushing" /\ k \in collector.todo
    /\ "post" \in Faults
    /\ collector' = Taken(k)
    /\ UNCHANGED <<vendor, now, alert, messages, datadog, seed, restarts, lost, missed>>

PushDone ==
    /\ collector.phase = "pushing" /\ collector.todo = {}
    /\ collector' = GoTo(AfterPush)
    /\ UNCHANGED <<vendor, now, alert, messages, datadog, seed, restarts, lost, missed>>

\* An UPDATE of one row; a row that is gone is left alone.
Set(k, field, value) ==
    IF messages[k].stored THEN [messages EXCEPT ![k][field] = value] ELSE messages

ClearFlag ==
    /\ collector.phase = "clear"
    /\ \E k \in collector.cur : messages' = Set(k, "datadog_notified", FALSE)
    /\ collector' = [collector EXCEPT !.phase = "pushing", !.cur = {}]
    /\ UNCHANGED <<vendor, now, alert, datadog, seed, restarts, lost, missed>>

ClearFlagFails ==
    /\ collector.phase = "clear"
    /\ "db" \in Faults
    /\ collector' = [collector EXCEPT !.phase = "pushing", !.cur = {}]
    /\ UNCHANGED <<vendor, now, alert, messages, datadog, seed, restarts, lost, missed>>

(***************************************************************************)
(* _send_notifications(): dispatch_datadog_new(), then Teams.              *)
(***************************************************************************)

\* Mutant: the alerts to page named by message_id alone, without their array.
DispatchById ==
    /\ collector.phase = "dispatch"
    /\ \E r \in PagingReads :
          collector' = [collector EXCEPT
             !.phase = "page",
             !.todo = {m.id : m \in {n \in collector.new_alerts :
                                        r.enabled /\ n.opened >= r.since}}]
    /\ UNCHANGED <<vendor, now, alert, messages, datadog, seed, restarts, lost, missed>>

\* The gates before the loop: the runtime switch and the allow-lists, then the
\* high-water mark, alert by alert.
Dispatch ==
    /\ collector.phase = "dispatch"
    /\ \E r \in PagingReads :
          collector' = [collector EXCEPT
             !.phase = "page",
             !.todo = {Key(m.id) : m \in {n \in collector.new_alerts :
                                             r.enabled /\ n.opened >= r.since}}]
    /\ UNCHANGED <<vendor, now, alert, messages, datadog, seed, restarts, lost, missed>>

Noted(k) == messages[k].datadog_notified

PageSkipped(k) ==
    /\ collector.phase = "page" /\ k \in collector.todo
    /\ Noted(k)
    /\ collector' = Taken(k)
    /\ UNCHANGED <<vendor, now, alert, messages, datadog, seed, restarts, lost, missed>>

\* The event is delivered and acknowledged; the stamp follows in another transaction.
Deliver(k) ==
    /\ collector.phase = "page" /\ k \in collector.todo
    /\ datadog' = [datadog EXCEPT ![k] = "open"]
    /\ collector' = [Taken(k) EXCEPT !.phase = "stamp", !.cur = {k}]
    /\ UNCHANGED <<vendor, now, alert, messages, seed, restarts, missed>>

Page(k) == ~Noted(k) /\ Deliver(k) /\ UNCHANGED lost

\* The idempotency SELECT failed: its exception is swallowed and the alert is posted.
PageBlind(k) == "db" \in Faults /\ Noted(k) /\ Deliver(k) /\ lost' = lost \cup {k}

\* The POST timed out after Datadog took the event: reported as a failure.
PageUnacked(k) ==
    /\ collector.phase = "page" /\ k \in collector.todo
    /\ "ack" \in Faults
    /\ Noted(k) => "db" \in Faults
    /\ datadog' = [datadog EXCEPT ![k] = "open"]
    /\ lost' = lost \cup {k}
    /\ collector' = Taken(k)
    /\ UNCHANGED <<vendor, now, alert, messages, seed, restarts, missed>>

PageRefused(k) ==
    /\ collector.phase = "page" /\ k \in collector.todo
    /\ "post" \in Faults
    /\ collector' = Taken(k)
    /\ UNCHANGED <<vendor, now, alert, messages, datadog, seed, restarts, lost, missed>>

PageDone ==
    /\ collector.phase = "page" /\ collector.todo = {}
    /\ collector' = [collector EXCEPT !.phase = "teams",
                                      !.todo = {Key(m.id) : m \in collector.new_alerts}]
    /\ UNCHANGED <<vendor, now, alert, messages, datadog, seed, restarts, lost, missed>>

Stamp ==
    /\ collector.phase = "stamp"
    /\ \E k \in collector.cur :
          /\ messages' = Set(k, "datadog_notified", TRUE)
          /\ lost' = IF messages[k].stored THEN lost \ {k} ELSE lost \cup {k}
    /\ collector' = [collector EXCEPT !.phase = "page", !.cur = {}]
    /\ UNCHANGED <<vendor, now, alert, datadog, seed, restarts, missed>>

StampFails ==
    /\ collector.phase = "stamp"
    /\ "db" \in Faults
    /\ lost' = lost \cup collector.cur
    /\ collector' = [collector EXCEPT !.phase = "page", !.cur = {}]
    /\ UNCHANGED <<vendor, now, alert, messages, datadog, seed, restarts, missed>>

Teams(k) ==
    /\ collector.phase = "teams" /\ k \in collector.todo
    /\ collector' = [Taken(k) EXCEPT !.phase = "mark", !.cur = {k}]
    /\ UNCHANGED <<vendor, now, alert, messages, datadog, seed, restarts, lost, missed>>

TeamsFails(k) ==
    /\ collector.phase = "teams" /\ k \in collector.todo
    /\ Faults \cap {"post", "ack"} # {}
    /\ collector' = Taken(k)
    /\ UNCHANGED <<vendor, now, alert, messages, datadog, seed, restarts, lost, missed>>

TeamsDone ==
    /\ collector.phase = "teams" /\ collector.todo = {}
    /\ collector' = IF vendor = "netapp" THEN [Idle EXCEPT !.phase = "age"] ELSE Idle
    /\ UNCHANGED <<vendor, now, alert, messages, datadog, seed, restarts, lost, missed>>

Mark ==
    /\ collector.phase = "mark"
    /\ \E k \in collector.cur : messages' = Set(k, "teams_notified", TRUE)
    /\ collector' = [collector EXCEPT !.phase = "teams", !.cur = {}]
    /\ UNCHANGED <<vendor, now, alert, datadog, seed, restarts, lost, missed>>

\* Pure lets the exception out: save() returns FALSE and the rest is not notified.
MarkFails ==
    /\ collector.phase = "mark"
    /\ "db" \in Faults
    /\ collector' = IF vendor = "pure" THEN Idle
                    ELSE [collector EXCEPT !.phase = "teams", !.cur = {}]
    /\ UNCHANGED <<vendor, now, alert, messages, datadog, seed, restarts, lost, missed>>

(***************************************************************************)
(* The nightly purge, which runs in another thread, and the process.       *)
(***************************************************************************)

Purgeable(k) == Resolved(k) /\ Older(messages[k].opened, PurgeAge)

AlertCleanup ==
    /\ \E k \in Keys : Purgeable(k)
    /\ messages' = [k \in Keys |-> IF Purgeable(k) THEN NoRow ELSE messages[k]]
    /\ lost' = lost \cup {k \in Keys : Purgeable(k) /\ datadog[k] = "open"}
    /\ UNCHANGED <<vendor, now, alert, datadog, collector, seed, restarts, missed>>

Crash ==
    /\ "crash" \in Faults
    /\ restarts < MaxRestarts
    /\ restarts' = restarts + 1
    /\ seed' \in Seeds
    /\ collector' = Idle
    /\ lost' = IF collector.phase = "stamp" THEN lost \cup collector.cur ELSE lost
    /\ UNCHANGED <<vendor, now, alert, messages, datadog, missed>>

Save == \/ PureSave \/ HpeSave \/ HitachiSave \/ DellSave
        \/ OracleSave \/ StorageGridSave \/ NetAppSave

Cycle ==
    \/ Collect \/ Save \/ SaveFails
    \/ ResolveAbsent \/ ResolveAged \/ ResolveFails
    \/ PushQuery \/ PushQueryFails \/ PushDone \/ ClearFlag \/ ClearFlagFails
    \/ Dispatch \/ PageDone \/ Stamp \/ StampFails
    \/ TeamsDone \/ Mark \/ MarkFails
    \/ \E k \in Keys : \/ PushOk(k) \/ PushUnacked(k) \/ PushRefused(k)
                       \/ PageSkipped(k) \/ Page(k) \/ PageBlind(k)
                       \/ PageUnacked(k) \/ PageRefused(k)
                       \/ Teams(k) \/ TeamsFails(k)

Next ==
    \/ \E i \in Ids : Raise(i) \/ Clear(i)
    \/ Tick \/ Cycle \/ AlertCleanup \/ Crash

Spec == Init /\ [][Next]_vars

\* APScheduler starts a cycle again and again, and every step of a cycle ends (each
\* request has a timeout).  Outages end: from some time on every call is answered.
\* Nothing is promised of the array, the purge or the process.
Answered == collector.fetch.fetch_ok /\ collector.fetch.unanswered = {}

Fault ==
    \/ Collect /\ ~Answered'
    \/ SaveFails \/ ResolveFails \/ PushQueryFails \/ ClearFlagFails
    \/ StampFails \/ MarkFails
    \/ \E k \in Keys : \/ PushUnacked(k) \/ PushRefused(k) \/ PageUnacked(k)
                       \/ PageRefused(k) \/ TeamsFails(k)

\* A step that fails where there was nothing to do is one that succeeded.
Success ==
    \/ ResolveAbsent \/ ResolveAged \/ ClearFlag \/ Stamp \/ Mark
    \/ \E k \in Keys : PageSkipped(k)

Outage == Fault /\ ~Success

Fairness == WF_vars(Tick) /\ WF_vars(Cycle) /\ <>[][~Outage]_vars

LiveSpec == Spec /\ Fairness

(***************************************************************************)
(* Properties.                                                             *)
(***************************************************************************)

\* Whatever fails, an event Datadog holds open is one the store knows about
\* (datadog_notified is set, so the resolver will close it), one whose stamp is
\* still to come, or one whose record a named fault destroyed: a lost answer, a
\* failed stamp, a crash before it, a purge.  No ordinary interleaving of polls,
\* closures, reopenings and failed POSTs loses track of an open event.
EventTracked ==
    \A k \in Keys : datadog[k] = "open" =>
        \/ messages[k].datadog_notified
        \/ collector.phase = "stamp" /\ k \in collector.cur
        \/ k \in lost

\* The row of an alert as its readers see it.
RowOf(k) == IF ~messages[k].stored THEN "none"
            ELSE IF messages[k].resolved THEN "closed" ELSE "open"

Ledger == INSTANCE AlertLedger WITH
    Keys <- Keys,
    row <- [k \in Keys |-> RowOf(k)],
    event <- datadog,
    noted <- {k \in Keys : \/ messages[k].datadog_notified
                           \/ collector.phase = "stamp" /\ k \in collector.cur},
    told <- {k \in Keys : messages[k].teams_notified},
    lost <- lost

\* Whatever the vendor, the order of its transactions and POSTs, and the faults between
\* them: only rows that are open at that moment are paged and announced, although the
\* list was read many steps before; only rows that are not have their event resolved; and
\* datadog_notified goes only after that.
LedgerKept == Ledger!Spec

DeliversPage(k) ==
    collector.phase = "page" /\ collector'.phase = "stamp" /\ k \in collector'.cur

\* dispatch_datadog_new() pages an alert whose event is already open only when the
\* record of that event was lost, or could not be read.
NoDuplicatePage ==
    [][\A k \in Keys : DeliversPage(k) /\ datadog[k] = "open" => k \in lost']_vars

DeliversTeams(k) ==
    collector.phase = "teams" /\ collector'.phase = "mark" /\ k \in collector'.cur

\* Once teams_notified is stored, Teams never hears of that row again, although
\* the list of alerts to notify is read a whole cycle of POSTs before it is used.
NoTeamsRepeat ==
    [][\A k \in Keys : DeliversTeams(k) => ~messages[k].teams_notified]_vars

\* A row is closed only because the array no longer reported the alert when it was asked,
\* because the answer did not reach that far (an endpoint did not answer, a page ended),
\* because a NetApp row has aged, or because it is an orphan of another hash seed: never
\* by a failed poll, and never by what has cleared or come back since.
ResolvedOnlyIfGone ==
    [][\A k \in Keys : Open(k) /\ Resolved(k)' =>
          \/ k[1] \notin collector.fetch.up
          \/ k[1] \in Unseen(collector.fetch)
          \/ vendor = "netapp" /\ Older(messages[k].opened, ResolveAge)
          \/ k # Key(k[1])]_vars

\* occurrence_count never exceeds the number of times the array raised the alert, unless
\* some answer left the alert out although it was up: a failed poll, a failed transaction,
\* a crash or a purge is never taken for a recurrence, an answer that is not whole is.
OccurrenceGenuine ==
    \A k \in Keys : messages[k].occurrence_count <= alert[k[1]].raises \/ k[1] \in missed

\* An open Datadog event of a resolved alert is eventually resolved there too, unless
\* the alert reopens or its row is purged first: refused and failed calls are retried.
ResolutionReachesDatadog ==
    \A k \in Keys : Resolved(k) /\ Noted(k) /\ datadog[k] = "open"
                       ~> datadog[k] = "ok" \/ ~Resolved(k)

\* NetApp closes an alert by its age, the others when the array stops reporting it.
Gone(k) == IF vendor = "netapp" THEN messages[k].opened + ResolveAge < MaxTime
                                ELSE ~alert[k[1]].up

\* The row of an alert that is gone is eventually resolved, unless the alert comes back.
ClosureReachesStore ==
    \A k \in Keys : Open(k) /\ Gone(k) ~> ~Open(k) \/ ~Gone(k)

\* A severe alert that stays up and recent is eventually announced to Teams: a refused
\* POST or a failed mark leaves teams_notified unset, and the next poll tries again.
\* (Of an alert that stays beyond the page its vendor reads nothing is promised.)
AnnounceAge == IF vendor = "netapp" THEN FetchAge ELSE NotifyAge
EventuallyAnnounced ==
    \A i \in Severe :
        <>[](i \notin collector.fetch.beyond) =>
            (alert[i].up ~> \/ messages[Key(i)].teams_notified
                            \/ ~alert[i].up
                            \/ Older(alert[i].opened, AnnounceAge))

(***************************************************************************)
(* What a comment promises and the code does not keep.                     *)
(***************************************************************************)

\* "A Datadog event's lifecycle mirrors USM.messages": between cycles, a severe alert
\* the store holds open, and recent enough to be notified, is open in Datadog.
LifecycleMirrored ==
    \A k \in Keys :
        collector.phase = "idle" /\ Open(k) /\ k[1] \in Severe
        /\ ~Older(messages[k].opened, NotifyAge) => datadog[k] = "open"
=============================================================================
