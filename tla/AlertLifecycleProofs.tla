------------------------- MODULE AlertLifecycleProofs -------------------------
(***************************************************************************)
(* Proofs about AlertLifecycle, for every value of its constants: types,   *)
(* that no open Datadog event is lost track of, that no alert is paged or  *)
(* announced twice, that closures and recurrences are genuine, that the    *)
(* collectors implement AlertLedger, and how far Datadog mirrors the rows. *)
(***************************************************************************)
EXTENDS AlertLifecycle, TLAPS

\* A row that is not stored is the empty row.
RowsBlank == \A k \in Keys : messages[k].stored \/ messages[k] = NoRow

\* Only the phases after a POST hold a key, exactly one, and the flag about to be
\* cleared is that of an event already resolved.
PostedKey ==
    /\ collector.phase = "stamp" => \E k \in Keys : collector.cur = {k}
    /\ collector.phase = "clear" =>
          \E k \in Keys : collector.cur = {k} /\ datadog[k] = "ok"

TrackInv == TypeOK /\ RowsBlank /\ PostedKey /\ EventTracked

\* The key of an alert of the array is a key of the table.
LEMMA KeyInKeys ==
    ASSUME TypeOK, NEW i \in Ids
    PROVE  Key(i) \in Keys /\ Key(i)[1] = i
BY ConstantsAssumption DEF TypeOK, Key, Keys

\* Every message of the fetched set carries an alert and a time.
LEMMA MessageOfType ==
    ASSUME TypeOK, NEW i \in Seen
    PROVE  MessageOf(i) \in collector.fetch.messages /\ MessageOf(i).opened \in Time
<1>1. PICK m \in collector.fetch.messages : m.id = i
  BY DEF Seen
<1>2. MessageOf(i) \in collector.fetch.messages
  BY <1>1 DEF MessageOf
<1>3. collector.fetch.messages \subseteq Messages
  BY DEF TypeOK, Fetch
<1> QED BY <1>2, <1>3 DEF Messages

\* A key of the fetched set names a fetched alert.
LEMMA SeenKeyIsSeen ==
    ASSUME TypeOK, NEW k \in SeenKeys
    PROVE  k \in Keys /\ k[1] \in Seen
<1>1. PICK i \in Seen : k = Key(i)
  BY DEF SeenKeys
<1>2. i \in Ids
  BY DEF Seen, TypeOK, Fetch, Messages
<1> QED BY <1>1, <1>2, KeyInKeys

\* An alert that a fetch made now would contain, were nothing left out.
Fetchable(i) ==
    /\ alert[i].up
    /\ vendor \in {"hpe", "hitachi"} => ~Older(alert[i].opened, LookbackAge)
    /\ vendor = "netapp" => ~Older(alert[i].opened, FetchAge)

\* The messages of a set of alerts are one for each of them.
LEMMA MessagesOfSet ==
    ASSUME NEW S
    PROVE  /\ {m.id : m \in MessagesOf(S)} = S
           /\ \A m \in MessagesOf(S) : m.id \in S /\ m.opened = alert[m.id].opened
<1>1. \A m \in MessagesOf(S) : m.id \in S /\ m.opened = alert[m.id].opened
  BY DEF MessagesOf
<1>2. ASSUME NEW i \in S
      PROVE  \E m \in MessagesOf(S) : m.id = i
  <2>1. [id |-> i, opened |-> alert[i].opened] \in MessagesOf(S)
    BY DEF MessagesOf
  <2> QED BY <2>1
<1> QED BY <1>1, <1>2

\* Whatever the vendor, collect() returns a page of what is fetchable, or fails, or returns
\* of the page what the endpoints that answered hold.
LEMMA AnswerForms ==
    ASSUME TypeOK, NEW f \in Fetches[vendor], NEW S, S = {i \in Ids : Fetchable(i)}
    PROVE  \E p \in SUBSET S :
              \/ f = OnPage(S, p) \/ f = Failed(S)
              \/ \E answered \in SUBSET Endpoints : f = AnsweredBy(S, p, answered)
<1>1. vendor \in AllVendors
  BY ConstantsAssumption DEF TypeOK
<1>2. ASSUME NEW pages, pages \subseteq SUBSET S,
             f \in FetchPage(S, pages) \/ f \in FetchByEndpoint(S, pages)
      PROVE  \E p \in SUBSET S :
                \/ f = OnPage(S, p) \/ f = Failed(S)
                \/ \E answered \in SUBSET Endpoints : f = AnsweredBy(S, p, answered)
  <2>1. CASE f \in FetchPage(S, pages)
    <3>1. f = Failed(S) \/ \E p \in pages : f = OnPage(S, p)
      BY <2>1 DEF FetchPage
    <3>2. S \in SUBSET S
      OBVIOUS
    <3> QED BY <1>2, <3>1, <3>2
  <2>2. CASE f \in FetchByEndpoint(S, pages)
    <3>1. PICK answered \in IF "fetch" \in Faults THEN SUBSET Endpoints ELSE {Endpoints} :
            f \in {AnsweredBy(S, p, answered) : p \in pages}
      BY <2>2 DEF FetchByEndpoint
    <3>2. answered \in SUBSET Endpoints
      BY <3>1
    <3> QED BY <1>2, <3>1, <3>2
  <2> QED BY <1>2, <2>1, <2>2
<1>3. /\ {S} \subseteq SUBSET S /\ AnyPage(S) \subseteq SUBSET S
      /\ NewestPages(S) \subseteq SUBSET S /\ NewestPerEndpoint(S) \subseteq SUBSET S
  BY DEF AnyPage, NewestPages, NewestPerEndpoint
<1>4. \/ f \in FetchPage(S, {S}) \/ f \in FetchPage(S, AnyPage(S))
      \/ f \in FetchPage(S, NewestPages(S))
      \/ f \in FetchByEndpoint(S, {S}) \/ f \in FetchByEndpoint(S, NewestPerEndpoint(S))
  <2>1. CASE vendor \in {"pure", "dell", "oracle", "storagegrid"}
    <3>1. Up = S
      BY <2>1 DEF Up, Fetchable
    <3>2. Fetches[vendor] \in {PureFetch, DellFetch, OracleFetch, StorageGridFetch}
      BY <2>1 DEF Fetches
    <3> QED BY <3>1, <3>2 DEF PureFetch, DellFetch, OracleFetch, StorageGridFetch
  <2>2. CASE vendor \in {"hpe", "hitachi"}
    <3>1. Within(LookbackAge) = S
      BY <2>2 DEF Up, Within, Fetchable
    <3>2. Fetches[vendor] \in {HpeFetch, HitachiFetch}
      BY <2>2 DEF Fetches
    <3> QED BY <3>1, <3>2 DEF HpeFetch, HitachiFetch
  <2>3. CASE vendor = "netapp"
    <3>1. Within(FetchAge) = S
      BY <2>3 DEF Up, Within, Fetchable
    <3>2. Fetches[vendor] = NetAppFetch
      BY <2>3 DEF Fetches
    <3> QED BY <3>1, <3>2 DEF NetAppFetch
  <2> QED BY <1>1, <2>1, <2>2, <2>3 DEF AllVendors
<1>5. CASE f \in FetchPage(S, {S}) \/ f \in FetchByEndpoint(S, {S})
  <2> DEFINE all == {S}
  <2>1. all \subseteq SUBSET S
    BY <1>3
  <2>2. f \in FetchPage(S, all) \/ f \in FetchByEndpoint(S, all)
    BY <1>5
  <2> HIDE DEF all
  <2> QED BY <1>2, <2>1, <2>2
<1>6. CASE f \in FetchPage(S, AnyPage(S)) \/ f \in FetchPage(S, NewestPages(S))
  BY <1>2, <1>3, <1>6
<1>7. CASE f \in FetchByEndpoint(S, NewestPerEndpoint(S))
  BY <1>2, <1>3, <1>7
<1> QED BY <1>4, <1>5, <1>6, <1>7

\* The answer is a well-formed fetch.
LEMMA FetchesType ==
    ASSUME TypeOK, NEW f \in Fetches[vendor]
    PROVE  f \in Fetch /\ Unseen(f) \subseteq Ids
<1> DEFINE S == {i \in Ids : Fetchable(i)}
<1>1. PICK p \in SUBSET S :
         \/ f = OnPage(S, p) \/ f = Failed(S)
         \/ \E answered \in SUBSET Endpoints : f = AnsweredBy(S, p, answered)
  BY AnswerForms
<1>2. S \subseteq Ids
  OBVIOUS
<1> HIDE DEF S
<1>3. ASSUME NEW T, T \subseteq Ids
      PROVE  MessagesOf(T) \in SUBSET Messages
  BY <1>3 DEF MessagesOf, Messages, TypeOK
<1>4. CASE f = OnPage(S, p)
  <2>1. MessagesOf(p) \in SUBSET Messages
    BY <1>1, <1>2, <1>3
  <2> QED BY <1>1, <1>2, <1>4, <2>1 DEF OnPage, Fetch, Unseen
<1>5. CASE f = Failed(S)
  BY <1>2, <1>5 DEF Failed, Fetch, Unseen
<1>6. ASSUME NEW answered \in SUBSET Endpoints, f = AnsweredBy(S, p, answered)
      PROVE  f \in Fetch /\ Unseen(f) \subseteq Ids
  <2>1. MessagesOf({i \in p : EndpointOf[i] \in answered}) \in SUBSET Messages
    BY <1>1, <1>2, <1>3
  <2> QED BY <1>1, <1>2, <1>6, <2>1 DEF AnsweredBy, Fetch, Unseen
<1> QED BY <1>1, <1>4, <1>5, <1>6

\* What an upsert or a closure leaves of the notification columns: all of them.
KeepsFlags(rows) ==
    \A k \in Keys : /\ rows[k].datadog_notified = messages[k].datadog_notified
                    /\ rows[k].teams_notified = messages[k].teams_notified
                    /\ rows[k].stored \/ rows[k] = NoRow

\* The upsert of one row yields a row and keeps the notification columns.
LEMMA UpsertedRow ==
    ASSUME TypeOK, RowsBlank, NEW k \in SeenKeys, NEW stays \in BOOLEAN
    PROVE  /\ Upserted(k, stays) \in Row /\ Upserted(k, stays).stored
           /\ Upserted(k, stays).datadog_notified = messages[k].datadog_notified
           /\ Upserted(k, stays).teams_notified = messages[k].teams_notified
<1>1. k \in Keys /\ MessageOf(k[1]).opened \in Time
  BY SeenKeyIsSeen, MessageOfType
<1>2. messages[k] \in Row
  BY <1>1 DEF TypeOK
<1>3. \A n \in 0..MaxOccurrences : Bump(n) \in 0..MaxOccurrences
  BY ConstantsAssumption DEF Bump, MaxOccurrences
<1>4. 1 \in 0..MaxOccurrences /\ 0 \in Time
  BY ConstantsAssumption DEF MaxOccurrences, Time
<1>5. CASE messages[k].stored
  BY <1>1, <1>2, <1>3, <1>5 DEF Upserted, Row
<1>6. CASE ~messages[k].stored
  BY <1>1, <1>2, <1>4, <1>6 DEF Upserted, Row, NoRow, RowsBlank
<1> QED BY <1>5, <1>6

\* Closing by absence keeps a table of rows, its notification columns and its blanks.
LEMMA AbsentResolvedRows ==
    ASSUME NEW rows \in [Keys -> Row], KeepsFlags(rows)
    PROVE  AbsentResolved(rows) \in [Keys -> Row] /\ KeepsFlags(AbsentResolved(rows))
BY DEF AbsentResolved, Row, KeepsFlags

\* Each vendor's save() commits a table that keeps the notification columns.
LEMMA SaveCommits ==
    ASSUME TypeOK, RowsBlank, Save
    PROVE  \E rows \in [Keys -> Row], recent \in BOOLEAN,
              next \in {"resolve", "push", "dispatch"} :
                KeepsFlags(rows) /\ CommitSave(rows, recent, next)
<1>1. messages \in [Keys -> Row]
  BY DEF TypeOK
<1>2. UpsertedReopening \in [Keys -> Row] /\ KeepsFlags(UpsertedReopening)
  BY <1>1, UpsertedRow DEF UpsertedReopening, KeepsFlags, RowsBlank
<1>3. \A k \in Keys : messages[k].resolved \in BOOLEAN
  BY <1>1 DEF Row
<1>4. UpsertedKeeping \in [Keys -> Row] /\ KeepsFlags(UpsertedKeeping)
  BY <1>1, <1>3, UpsertedRow, SeenKeyIsSeen DEF UpsertedKeeping, KeepsFlags, RowsBlank
<1>5. AbsentResolved(UpsertedReopening) \in [Keys -> Row]
      /\ KeepsFlags(AbsentResolved(UpsertedReopening))
  BY <1>2, AbsentResolvedRows
<1>6. CASE PureSave
  BY <1>2, <1>5, <1>6 DEF PureSave
<1>7. CASE NetAppSave
  BY <1>4, <1>7 DEF NetAppSave
<1>8. CASE HpeSave \/ HitachiSave \/ DellSave \/ OracleSave \/ StorageGridSave
  BY <1>2, <1>8 DEF HpeSave, HitachiSave, DellSave, OracleSave, StorageGridSave
<1> QED BY <1>6, <1>7, <1>8 DEF Save

\* The fields of a well-typed thread, and what may be put in its place.
Threads == [phase : Phases, fetch : Fetch, new_alerts : SUBSET Messages,
            todo : SUBSET Keys, cur : SUBSET Keys]

LEMMA IdleThread == Idle \in Threads
<1>1. NoFetch \in Fetch
  BY DEF NoFetch, Failed, Fetch
<1> QED BY <1>1 DEF Idle, Threads, Phases

\* Moving a well-typed thread on, or ending its cycle, keeps it well-typed.
LEMMA GoToThread ==
    ASSUME TypeOK, NEW p \in Phases
    PROVE  GoTo(p) \in Threads /\ [collector EXCEPT !.phase = p, !.cur = {}] \in Threads
<1>1. collector \in Threads
  BY DEF TypeOK, Threads
<1>2. NoFetch \in Fetch
  BY DEF NoFetch, Failed, Fetch
<1> QED BY <1>1, <1>2, IdleThread DEF GoTo, Threads

\* So does taking a key off its list.
LEMMA TakenThread ==
    ASSUME TypeOK, NEW k
    PROVE  Taken(k) \in Threads
BY DEF Taken, TypeOK, Threads

\* Setting one column of one row keeps a table of rows.
LEMMA SetRow ==
    ASSUME TypeOK, NEW k \in Keys, NEW v \in BOOLEAN,
           NEW field \in {"teams_notified", "datadog_notified"}
    PROVE  Set(k, field, v) \in [Keys -> Row]
<1>1. messages \in [Keys -> Row]
  BY DEF TypeOK
<1>2. CASE field = "teams_notified"
  BY <1>1, <1>2 DEF Set, Row
<1>3. CASE field = "datadog_notified"
  BY <1>1, <1>3 DEF Set, Row
<1> QED BY <1>2, <1>3

\* Types hold initially.
LEMMA InitType == Init => TypeOK
<1> SUFFICES ASSUME Init PROVE TypeOK
  OBVIOUS
<1>1. 0 \in Time /\ 0 \in 0..MaxRaises /\ 0 \in 0..MaxRestarts /\ 0 \in 0..MaxOccurrences
  BY ConstantsAssumption DEF Time, MaxOccurrences
<1>2. NoRow \in Row
  BY <1>1 DEF NoRow, Row
<1>3. collector \in Threads
  BY IdleThread DEF Init
<1>4. alert \in [Ids -> [up : BOOLEAN, opened : Time, raises : 0..MaxRaises]]
  BY <1>1 DEF Init
<1>5. messages \in [Keys -> Row] /\ datadog \in [Keys -> {"none", "open", "ok"}]
  BY <1>2 DEF Init
<1> QED BY <1>1, <1>3, <1>4, <1>5, ConstantsAssumption DEF Init, TypeOK, Threads

\* Types are preserved by every step.
LEMMA TypeStep ==
    ASSUME TypeOK, RowsBlank, [Next]_vars
    PROVE  TypeOK'
<1> USE DEF Threads
<1>1. ASSUME NEW i \in Ids, Raise(i) \/ Clear(i)
      PROVE  TypeOK'
  <2>1. alert' \in [Ids -> [up : BOOLEAN, opened : Time, raises : 0..MaxRaises]]
    <3>1. CASE Raise(i)
      <4>1. alert[i].raises + 1 \in 0..MaxRaises
        BY <3>1, ConstantsAssumption DEF Raise, TypeOK
      <4> QED BY <3>1, <4>1 DEF Raise, TypeOK
    <3>2. CASE Clear(i)
      BY <3>2 DEF Clear, TypeOK
    <3> QED BY <1>1, <3>1, <3>2
  <2> QED BY <1>1, <2>1 DEF Raise, Clear, TypeOK
<1>2. CASE Tick
  BY <1>2, ConstantsAssumption DEF Tick, TypeOK, Time
<1>3. CASE Collect
  <2>1. PICK f \in Fetches[vendor] :
          /\ collector' = [Idle EXCEPT !.phase = "save", !.fetch = f]
          /\ missed' = missed \cup Unseen(f)
    BY <1>3 DEF Collect
  <2>2. collector' \in Threads
    BY <2>1, IdleThread, FetchesType DEF Phases
  <2>3. missed' \subseteq Ids
    BY <2>1, FetchesType DEF TypeOK
  <2> QED BY <1>3, <2>2, <2>3 DEF Collect, TypeOK
<1>4. CASE Save
  <2>1. PICK rows \in [Keys -> Row], recent \in BOOLEAN,
             next \in {"resolve", "push", "dispatch"} : CommitSave(rows, recent, next)
    BY <1>4, SaveCommits
  <2>2. NewAlerts(recent) \in SUBSET Messages
    BY DEF NewAlerts, TypeOK, Fetch
  <2>3. next \in Phases /\ NoFetch \in Fetch
    BY DEF Phases, NoFetch, Failed, Fetch
  <2>4. collector' \in Threads
    BY <2>1, <2>2, <2>3 DEF CommitSave, TypeOK
  <2> QED BY <2>1, <2>4 DEF CommitSave, TypeOK
<1>5. CASE SaveFails
  BY <1>5, IdleThread DEF SaveFails, TypeOK
<1>6. CASE ResolveAbsent
  <2>1. AbsentResolved(messages) \in [Keys -> Row]
    BY DEF AbsentResolved, TypeOK, Row
  <2> QED BY <1>6, <2>1, GoToThread DEF ResolveAbsent, TypeOK, Phases
<1>7. CASE ResolveAged
  <2>1. messages' \in [Keys -> Row]
    <3> DEFINE aged(k) == Open(k) /\ Older(messages[k].opened, ResolveAge)
    <3>1. messages' = [k \in Keys |-> IF aged(k)
                                      THEN [messages[k] EXCEPT !.resolved = TRUE]
                                      ELSE messages[k]]
      BY <1>7 DEF ResolveAged
    <3>2. messages \in [Keys -> Row]
      BY DEF TypeOK
    <3> HIDE DEF aged
    <3> QED BY <3>1, <3>2 DEF Row
  <2> QED BY <1>7, <2>1, GoToThread DEF ResolveAged, TypeOK, Phases
<1>8. CASE ResolveFails
  BY <1>8, GoToThread DEF ResolveFails, TypeOK, Phases
<1>9. CASE PushQuery
  <2>1. Pending \in SUBSET Keys
    BY DEF Pending
  <2>2. collector' \in Threads
    BY <1>9, <2>1 DEF PushQuery, TypeOK, Phases
  <2> QED BY <1>9, <2>2 DEF PushQuery, TypeOK
<1>10. CASE PushQueryFails \/ PushDone
  <2>1. AfterPush \in Phases
    BY DEF AfterPush, Phases
  <2> QED BY <1>10, <2>1, GoToThread DEF PushQueryFails, PushDone, TypeOK
<1>11. CASE ClearFlag
  <2>1. PICK k \in Keys : messages' = Set(k, "datadog_notified", FALSE)
    BY <1>11 DEF ClearFlag, TypeOK
  <2>2. messages' \in [Keys -> Row]
    BY <2>1, SetRow
  <2> QED BY <1>11, <2>2, GoToThread DEF ClearFlag, TypeOK, Phases
<1>12. CASE ClearFlagFails
  BY <1>12, GoToThread DEF ClearFlagFails, TypeOK, Phases
<1>13. CASE Dispatch
  <2>1. PICK r \in PagingReads :
          collector' = [collector EXCEPT
             !.phase = "page",
             !.todo = {Key(m.id) : m \in {n \in collector.new_alerts :
                                             r.enabled /\ n.opened >= r.since}}]
    BY <1>13 DEF Dispatch
  <2>2. \A m \in collector.new_alerts : Key(m.id) \in Keys
    BY KeyInKeys DEF TypeOK, Messages
  <2>3. {Key(m.id) : m \in {n \in collector.new_alerts :
                                r.enabled /\ n.opened >= r.since}} \in SUBSET Keys
    BY <2>2
  <2>4. collector' \in Threads
    BY <2>1, <2>3 DEF TypeOK, Phases
  <2> QED BY <1>13, <2>4 DEF Dispatch, TypeOK
<1>14. CASE PageDone
  <2>1. \A m \in collector.new_alerts : Key(m.id) \in Keys
    BY KeyInKeys DEF TypeOK, Messages
  <2>2. collector' \in Threads
    <3>1. {Key(m.id) : m \in collector.new_alerts} \in SUBSET Keys
      BY <2>1
    <3> QED BY <1>14, <3>1 DEF PageDone, TypeOK, Phases
  <2> QED BY <1>14, <2>2 DEF PageDone, TypeOK
<1>15. CASE Stamp
  <2>1. PICK k \in Keys : /\ messages' = Set(k, "datadog_notified", TRUE)
                          /\ lost' = IF messages[k].stored THEN lost \ {k}
                                                           ELSE lost \cup {k}
    BY <1>15 DEF Stamp, TypeOK
  <2>2. messages' \in [Keys -> Row]
    BY <2>1, SetRow
  <2>3. collector' \in Threads
    BY <1>15 DEF Stamp, TypeOK, Phases
  <2> QED BY <1>15, <2>1, <2>2, <2>3 DEF Stamp, TypeOK
<1>16. CASE StampFails
  BY <1>16, GoToThread DEF StampFails, TypeOK, Phases
<1>17. CASE TeamsDone
  <2>1. [Idle EXCEPT !.phase = "age"] \in Threads
    BY IdleThread DEF Phases
  <2> QED BY <1>17, <2>1, IdleThread DEF TeamsDone, TypeOK
<1>18. CASE Mark
  <2>1. PICK k \in Keys : messages' = Set(k, "teams_notified", TRUE)
    BY <1>18 DEF Mark, TypeOK
  <2>2. messages' \in [Keys -> Row]
    BY <2>1, SetRow
  <2> QED BY <1>18, <2>2, GoToThread DEF Mark, TypeOK, Phases
<1>19. CASE MarkFails
  BY <1>19, GoToThread, IdleThread DEF MarkFails, TypeOK, Phases
<1>20. ASSUME NEW k \in Keys, PushOk(k)
       PROVE  TypeOK'
  <2>1. collector' \in Threads
    BY <1>20, TakenThread DEF PushOk, Phases
  <2> QED BY <1>20, <2>1 DEF PushOk, TypeOK
<1>21. ASSUME NEW k \in Keys,
              \/ PushUnacked(k) \/ PushRefused(k) \/ PageSkipped(k)
              \/ PageUnacked(k) \/ PageRefused(k) \/ TeamsFails(k)
       PROVE  TypeOK'
  <2>1. collector' = Taken(k)
    BY <1>21 DEF PushUnacked, PushRefused, PageSkipped, PageUnacked, PageRefused, TeamsFails
  <2>2. collector' \in Threads
    BY <2>1, TakenThread
  <2> QED BY <1>21, <2>2
      DEF PushUnacked, PushRefused, PageSkipped, PageUnacked, PageRefused, TeamsFails, TypeOK
<1>22. ASSUME NEW k \in Keys, Page(k) \/ PageBlind(k)
       PROVE  TypeOK'
  <2>1. Deliver(k)
    BY <1>22 DEF Page, PageBlind
  <2>2. collector' \in Threads
    BY <2>1, TakenThread DEF Deliver, Phases
  <2> QED BY <1>22, <2>1, <2>2 DEF Page, PageBlind, Deliver, TypeOK
<1>26. ASSUME NEW k \in Keys, Teams(k)
       PROVE  TypeOK'
  <2>1. collector' \in Threads
    BY <1>26, TakenThread DEF Teams, Phases
  <2> QED BY <1>26, <2>1 DEF Teams, TypeOK
<1>23. CASE AlertCleanup
  <2>1. NoRow \in Row
    BY ConstantsAssumption DEF NoRow, Row, Time, MaxOccurrences
  <2>2. messages' \in [Keys -> Row]
    BY <1>23, <2>1 DEF AlertCleanup, TypeOK
  <2> QED BY <1>23, <2>2 DEF AlertCleanup, TypeOK
<1>24. CASE Crash
  BY <1>24, IdleThread, ConstantsAssumption DEF Crash, TypeOK
<1>25. CASE UNCHANGED vars
  BY <1>25 DEF vars, TypeOK
<1> QED BY <1>1, <1>2, <1>3, <1>4, <1>5, <1>6, <1>7, <1>8, <1>9, <1>10, <1>11, <1>12,
           <1>13, <1>14, <1>15, <1>16, <1>17, <1>18, <1>19, <1>20, <1>21, <1>22, <1>23,
           <1>24, <1>25, <1>26 DEF Next, Cycle

\* Writing one column of one row changes no other row and no other column.
LEMMA SetColumn ==
    ASSUME TypeOK, RowsBlank, NEW k \in Keys, NEW v \in BOOLEAN,
           NEW field \in {"teams_notified", "datadog_notified"},
           messages' = Set(k, field, v)
    PROVE  /\ RowsBlank'
           /\ \A j \in Keys \ {k} : messages'[j] = messages[j]
           /\ ~messages[k].stored => messages' = messages
           /\ field = "datadog_notified" /\ messages[k].stored =>
                 /\ messages'[k].datadog_notified = v
                 /\ messages'[k].teams_notified = messages[k].teams_notified
           /\ field = "teams_notified" /\ messages[k].stored =>
                 /\ messages'[k].teams_notified = v
                 /\ messages'[k].datadog_notified = messages[k].datadog_notified
<1>1. messages \in [Keys -> Row]
  BY DEF TypeOK
<1>2. CASE field = "teams_notified"
  BY <1>1, <1>2 DEF Set, Row, RowsBlank
<1>3. CASE field = "datadog_notified"
  BY <1>1, <1>3 DEF Set, Row, RowsBlank
<1> QED BY <1>2, <1>3

\* A step that leaves rows, events and the record of losses alone, and that neither
\* starts nor ends in a phase that holds a key, keeps the invariant.
LEMMA TrackSame ==
    ASSUME RowsBlank, EventTracked, UNCHANGED <<messages, datadog, lost>>,
           collector.phase # "stamp", collector'.phase \notin {"stamp", "clear"}
    PROVE  (RowsBlank /\ PostedKey /\ EventTracked)'
BY DEF RowsBlank, PostedKey, EventTracked

\* So does one that rewrites rows and keeps their notification columns.
LEMMA TrackRewrite ==
    ASSUME EventTracked, KeepsFlags(messages'), UNCHANGED <<datadog, lost>>,
           collector.phase # "stamp", collector'.phase \notin {"stamp", "clear"}
    PROVE  (RowsBlank /\ PostedKey /\ EventTracked)'
BY DEF RowsBlank, PostedKey, EventTracked, KeepsFlags

\* No open event is lost track of by any step.
LEMMA TrackStep ==
    ASSUME TrackInv, [Next]_vars
    PROVE  (RowsBlank /\ PostedKey /\ EventTracked)'
<1> USE DEF TrackInv
<1>1. ASSUME NEW i \in Ids, Raise(i) \/ Clear(i)
      PROVE  (RowsBlank /\ PostedKey /\ EventTracked)'
  BY <1>1 DEF Raise, Clear, RowsBlank, PostedKey, EventTracked
<1>2. CASE Tick \/ UNCHANGED vars
  BY <1>2 DEF Tick, vars, RowsBlank, PostedKey, EventTracked
<1>3. CASE Collect
  BY <1>3, TrackSame DEF Collect, Idle
<1>4. CASE Save
  <2>1. PICK rows \in [Keys -> Row], recent \in BOOLEAN,
             next \in {"resolve", "push", "dispatch"} :
               KeepsFlags(rows) /\ CommitSave(rows, recent, next)
    BY <1>4, SaveCommits
  <2>2. collector'.phase = next /\ collector.phase = "save"
    BY <2>1 DEF CommitSave, TypeOK
  <2> QED BY <2>1, <2>2, TrackRewrite DEF CommitSave
<1>5. CASE SaveFails
  BY <1>5, TrackSame DEF SaveFails, Idle
<1>6. CASE ResolveAbsent
  <2>1. KeepsFlags(messages)
    BY DEF KeepsFlags, RowsBlank
  <2>2. KeepsFlags(messages')
    BY <1>6, <2>1, AbsentResolvedRows DEF ResolveAbsent, TypeOK
  <2>3. collector.phase = "resolve" /\ collector'.phase = "push"
    BY <1>6 DEF ResolveAbsent, GoTo, TypeOK
  <2> QED BY <1>6, <2>2, <2>3, TrackRewrite DEF ResolveAbsent
<1>7. CASE ResolveAged
  <2>1. \A k \in Keys : \/ messages'[k] = messages[k]
                        \/ /\ messages[k].stored
                           /\ messages'[k] = [messages[k] EXCEPT !.resolved = TRUE]
    BY <1>7 DEF ResolveAged, Open
  <2>2. \A k \in Keys : messages[k] \in Row
    BY DEF TypeOK
  <2>3. KeepsFlags(messages')
    BY <2>1, <2>2 DEF KeepsFlags, RowsBlank, Row
  <2>4. collector.phase = "age" /\ collector'.phase = "push"
    BY <1>7 DEF ResolveAged, GoTo, TypeOK
  <2> QED BY <1>7, <2>3, <2>4, TrackRewrite DEF ResolveAged
<1>8. CASE ResolveFails
  <2>1. collector'.phase = "push"
    BY <1>8 DEF ResolveFails, GoTo, TypeOK
  <2> QED BY <1>8, <2>1, TrackSame DEF ResolveFails
<1>9. CASE PushQuery \/ Dispatch \/ PageDone
  <2>1. collector'.phase \in {"pushing", "page", "teams"}
    BY <1>9 DEF PushQuery, Dispatch, PageDone, TypeOK
  <2> QED BY <1>9, <2>1, TrackSame DEF PushQuery, Dispatch, PageDone
<1>10. CASE PushQueryFails \/ PushDone
  <2>1. GoTo("idle").phase = "idle" /\ GoTo("dispatch").phase = "dispatch"
    BY DEF GoTo, Idle, TypeOK
  <2>2. collector' = GoTo("idle") \/ collector' = GoTo("dispatch")
    BY <1>10 DEF PushQueryFails, PushDone, AfterPush
  <2>3. collector'.phase \in {"idle", "dispatch"}
    BY <2>1, <2>2
  <2> QED BY <1>10, <2>3, TrackSame DEF PushQueryFails, PushDone
<1>11. CASE ClearFlag
  <2>1. PICK k \in Keys : collector.cur = {k} /\ datadog[k] = "ok"
    BY <1>11 DEF ClearFlag, PostedKey
  <2>2. messages' = Set(k, "datadog_notified", FALSE)
    BY <1>11, <2>1 DEF ClearFlag
  <2>3. RowsBlank' /\ \A j \in Keys \ {k} : messages'[j] = messages[j]
    BY <2>2, SetColumn
  <2>4. collector'.phase = "pushing"
    BY <1>11 DEF ClearFlag, TypeOK
  <2> QED BY <1>11, <2>1, <2>3, <2>4 DEF ClearFlag, PostedKey, EventTracked
<1>12. CASE ClearFlagFails
  <2>1. collector'.phase = "pushing"
    BY <1>12 DEF ClearFlagFails, TypeOK
  <2> QED BY <1>12, <2>1, TrackSame DEF ClearFlagFails
<1>13. CASE Stamp
  <2>1. PICK k \in Keys : collector.cur = {k}
    BY <1>13 DEF Stamp, PostedKey
  <2>2. /\ messages' = Set(k, "datadog_notified", TRUE)
        /\ lost' = IF messages[k].stored THEN lost \ {k} ELSE lost \cup {k}
    BY <1>13, <2>1 DEF Stamp
  <2>3. /\ RowsBlank'
        /\ \A j \in Keys \ {k} : messages'[j] = messages[j]
        /\ messages[k].stored => messages'[k].datadog_notified
    BY <2>2, SetColumn
  <2>4. collector'.phase = "page" /\ datadog' = datadog
    BY <1>13 DEF Stamp, TypeOK
  <2>5. EventTracked'
    BY <2>1, <2>2, <2>3, <2>4 DEF EventTracked
  <2> QED BY <2>3, <2>4, <2>5 DEF PostedKey
<1>14. CASE StampFails
  <2>1. collector'.phase = "page"
    BY <1>14 DEF StampFails, TypeOK
  <2> QED BY <1>14, <2>1 DEF StampFails, RowsBlank, PostedKey, EventTracked
<1>15. CASE TeamsDone
  <2>1. collector'.phase \in {"age", "idle"}
    BY <1>15 DEF TeamsDone, Idle
  <2> QED BY <1>15, <2>1, TrackSame DEF TeamsDone
<1>16. CASE Mark
  <2>1. PICK k \in Keys : messages' = Set(k, "teams_notified", TRUE)
    BY <1>16 DEF Mark, TypeOK
  <2>2. /\ RowsBlank'
        /\ \A j \in Keys : messages'[j].datadog_notified = messages[j].datadog_notified
    BY <2>1, SetColumn
  <2>3. collector'.phase = "teams"
    BY <1>16 DEF Mark, TypeOK
  <2> QED BY <1>16, <2>2, <2>3 DEF Mark, PostedKey, EventTracked
<1>17. CASE MarkFails
  <2>1. collector'.phase \in {"idle", "teams"}
    BY <1>17 DEF MarkFails, Idle, TypeOK
  <2> QED BY <1>17, <2>1, TrackSame DEF MarkFails
<1>18. ASSUME NEW k \in Keys, PushOk(k)
       PROVE  (RowsBlank /\ PostedKey /\ EventTracked)'
  <2>1. collector'.phase = "clear" /\ collector'.cur = {k}
    BY <1>18 DEF PushOk, Taken, TypeOK
  <2>2. \A j \in Keys : datadog'[j] = IF j = k THEN "ok" ELSE datadog[j]
    BY <1>18 DEF PushOk, TypeOK
  <2> QED BY <1>18, <2>1, <2>2 DEF PushOk, RowsBlank, PostedKey, EventTracked
<1>19. ASSUME NEW k \in Keys, PushUnacked(k)
       PROVE  (RowsBlank /\ PostedKey /\ EventTracked)'
  <2>1. collector'.phase = "pushing"
    BY <1>19 DEF PushUnacked, Taken, TypeOK
  <2>2. \A j \in Keys : datadog'[j] = IF j = k THEN "ok" ELSE datadog[j]
    BY <1>19 DEF PushUnacked, TypeOK
  <2> QED BY <1>19, <2>1, <2>2 DEF PushUnacked, RowsBlank, PostedKey, EventTracked
<1>20. ASSUME NEW k \in Keys,
              PushRefused(k) \/ PageSkipped(k) \/ PageRefused(k) \/ TeamsFails(k)
       PROVE  (RowsBlank /\ PostedKey /\ EventTracked)'
  <2>1. collector'.phase = collector.phase /\ collector.phase \in {"pushing", "page", "teams"}
    BY <1>20 DEF PushRefused, PageSkipped, PageRefused, TeamsFails, Taken, TypeOK
  <2> QED BY <1>20, <2>1, TrackSame DEF PushRefused, PageSkipped, PageRefused, TeamsFails
<1>21. ASSUME NEW k \in Keys, Page(k) \/ PageBlind(k)
       PROVE  (RowsBlank /\ PostedKey /\ EventTracked)'
  <2>1. Deliver(k) /\ lost \subseteq lost'
    BY <1>21 DEF Page, PageBlind
  <2>2. collector'.phase = "stamp" /\ collector'.cur = {k} /\ collector.phase = "page"
    BY <2>1 DEF Deliver, Taken, TypeOK
  <2>3. \A j \in Keys : datadog'[j] = IF j = k THEN "open" ELSE datadog[j]
    BY <2>1 DEF Deliver, TypeOK
  <2> QED BY <2>1, <2>2, <2>3 DEF Deliver, RowsBlank, PostedKey, EventTracked
<1>22. ASSUME NEW k \in Keys, PageUnacked(k)
       PROVE  (RowsBlank /\ PostedKey /\ EventTracked)'
  <2>1. collector'.phase = "page" /\ collector.phase = "page"
    BY <1>22 DEF PageUnacked, Taken, TypeOK
  <2>2. \A j \in Keys : datadog'[j] = IF j = k THEN "open" ELSE datadog[j]
    BY <1>22 DEF PageUnacked, TypeOK
  <2> QED BY <1>22, <2>1, <2>2 DEF PageUnacked, RowsBlank, PostedKey, EventTracked
<1>23. ASSUME NEW k \in Keys, Teams(k)
       PROVE  (RowsBlank /\ PostedKey /\ EventTracked)'
  <2>1. collector'.phase = "mark"
    BY <1>23 DEF Teams, Taken, TypeOK
  <2> QED BY <1>23, <2>1, TrackSame DEF Teams
<1>24. CASE AlertCleanup
  <2>1. \A k \in Keys : messages'[k] = IF Purgeable(k) THEN NoRow ELSE messages[k]
    BY <1>24 DEF AlertCleanup
  <2> QED BY <1>24, <2>1 DEF AlertCleanup, RowsBlank, PostedKey, EventTracked
<1>25. CASE Crash
  <2>1. collector'.phase = "idle"
    BY <1>25 DEF Crash, Idle
  <2> QED BY <1>25, <2>1 DEF Crash, RowsBlank, PostedKey, EventTracked
<1> QED BY <1>1, <1>2, <1>3, <1>4, <1>5, <1>6, <1>7, <1>8, <1>9, <1>10, <1>11, <1>12,
           <1>13, <1>14, <1>15, <1>16, <1>17, <1>18, <1>19, <1>20, <1>21, <1>22, <1>23,
           <1>24, <1>25 DEF Next, Cycle

\* The strengthened invariant holds initially and is preserved.
LEMMA TrackInvariant == Spec => []TrackInv
<1>1. Init => TrackInv
  <2> SUFFICES ASSUME Init PROVE TrackInv
    OBVIOUS
  <2>1. collector.phase = "idle"
    BY DEF Init, Idle
  <2> QED BY <2>1, InitType DEF Init, TrackInv, RowsBlank, PostedKey, EventTracked
<1>2. TrackInv /\ [Next]_vars => TrackInv'
  BY TypeStep, TrackStep DEF TrackInv
<1> QED BY <1>1, <1>2, PTL DEF Spec

\* Type correctness of the alert life cycle.
THEOREM TypeCorrect == Spec => []TypeOK
BY TrackInvariant, PTL DEF TrackInv

\* Whatever fails and in whatever order, no open Datadog event is lost track of
\* other than by a fault that destroys its record.
THEOREM OpenEventsTracked == Spec => []EventTracked
BY TrackInvariant, PTL DEF TrackInv

\* dispatch_datadog_new() never pages an alert whose event it knows to be open.
THEOREM NeverPagedTwice == Spec => NoDuplicatePage
<1>1. ASSUME TrackInv, [Next]_vars,
             NEW k \in Keys, DeliversPage(k), datadog[k] = "open"
      PROVE  k \in lost'
  <2> USE <1>1 DEF TrackInv
  <2>1. collector.phase = "page" /\ collector'.phase = "stamp" /\ k \in collector'.cur
    BY DEF DeliversPage
  <2>2. CASE \E j \in Keys : Page(j) \/ PageBlind(j)
    <3>1. PICK j \in Keys : Page(j) \/ PageBlind(j)
      BY <2>2
    <3>2. collector'.cur = {j}
      BY <3>1 DEF Page, PageBlind, Deliver, Taken, TypeOK
    <3>3. k = j
      BY <2>1, <3>2
    <3> QED BY <2>1, <3>1, <3>3 DEF Page, PageBlind, Deliver, Noted, EventTracked
  <2>3. CASE \/ SaveFails \/ ResolveFails \/ MarkFails \/ TeamsDone \/ Crash \/ UNCHANGED vars
    BY <2>1, <2>3 DEF SaveFails, ResolveFails, MarkFails, TeamsDone, Crash, Idle, vars
  <2>4. CASE \E j \in Keys : PageSkipped(j) \/ PageUnacked(j) \/ PageRefused(j)
    BY <2>1, <2>4 DEF PageSkipped, PageUnacked, PageRefused, Taken, TypeOK
  <2>5. CASE PageDone
    BY <2>1, <2>5 DEF PageDone, TypeOK
  <2>6. CASE \/ \E i \in Ids : Raise(i) \/ Clear(i)
             \/ Tick \/ AlertCleanup
    BY <2>1, <2>6 DEF Raise, Clear, Tick, AlertCleanup
  <2>7. CASE \/ Collect \/ Save \/ ResolveAbsent \/ ResolveAged
             \/ PushQuery \/ PushQueryFails \/ PushDone \/ ClearFlag \/ ClearFlagFails
             \/ Dispatch \/ Stamp \/ StampFails \/ Mark
             \/ \E j \in Keys : \/ PushOk(j) \/ PushUnacked(j) \/ PushRefused(j)
                                \/ Teams(j) \/ TeamsFails(j)
    BY <2>1, <2>7
       DEF Collect, Save, PureSave, HpeSave, HitachiSave, DellSave, OracleSave,
           StorageGridSave, NetAppSave, CommitSave, ResolveAbsent, ResolveAged,
           PushQuery, PushQueryFails, PushDone, ClearFlag, ClearFlagFails, Dispatch,
           Stamp, StampFails, Mark, PushOk, PushUnacked, PushRefused, Teams, TeamsFails
  <2> QED BY <2>2, <2>3, <2>4, <2>5, <2>6, <2>7 DEF Next, Cycle
<1>2. TrackInv /\ [Next]_vars =>
         [\A k \in Keys : DeliversPage(k) /\ datadog[k] = "open" => k \in lost']_vars
  BY <1>1
<1> QED BY <1>2, TrackInvariant, PTL DEF Spec, NoDuplicatePage

(***************************************************************************)
(* No alert is announced twice to Teams.                                   *)
(***************************************************************************)

\* What the thread is about to announce is not marked as announced: not the alerts
\* save() selected, until they become the list of keys to post; nor that list, from
\* which the key being marked was taken.
Unannounced ==
    /\ collector.phase \in {"resolve", "push", "pushing", "clear", "dispatch", "page", "stamp"}
          => \A m \in collector.new_alerts : ~messages[Key(m.id)].teams_notified
    /\ collector.phase \in {"teams", "mark"}
          => \A k \in collector.todo : ~messages[k].teams_notified
    /\ collector.phase = "mark" => collector.cur \cap collector.todo = {}
    /\ collector.phase = "age" => collector.new_alerts = {}

AnnounceInv == TrackInv /\ Unannounced

\* A step that marks no row, and keeps the list of alerts or drops it, keeps the
\* invariant before the Teams phases.
LEMMA UnannouncedSame ==
    ASSUME TypeOK, Unannounced, UNCHANGED <<vendor, seed>>,
           \A k \in Keys : messages'[k].teams_notified => messages[k].teams_notified,
           collector.phase \in {"resolve", "push", "pushing", "clear", "dispatch",
                                "page", "stamp", "age"},
           collector'.phase \in {"push", "pushing", "clear", "dispatch", "page", "stamp"},
           collector'.new_alerts = collector.new_alerts
    PROVE  Unannounced'
<1>1. \A m \in collector.new_alerts : Key(m.id) \in Keys
  BY KeyInKeys DEF TypeOK, Messages
<1>2. \A m : Key(m.id)' = Key(m.id)
  BY DEF Key
<1> QED BY <1>1, <1>2 DEF Unannounced

\* Nothing announced becomes something to announce.
LEMMA UnannouncedStep ==
    ASSUME AnnounceInv, [Next]_vars
    PROVE  Unannounced'
<1> USE DEF AnnounceInv, TrackInv
<1>1. ASSUME NEW i \in Ids, Raise(i) \/ Clear(i)
      PROVE  Unannounced'
  BY <1>1 DEF Raise, Clear, Unannounced, Key
<1>2. CASE Tick \/ UNCHANGED vars
  BY <1>2 DEF Tick, vars, Unannounced, Key
<1>3. CASE Collect \/ SaveFails \/ TeamsDone \/ Crash
  <2>1. Idle.phase = "idle" /\ Idle.new_alerts = {}
    BY DEF Idle
  <2>2. \/ collector'.phase \in {"save", "idle"}
        \/ collector'.phase = "age" /\ collector'.new_alerts = {}
    BY <1>3, <2>1 DEF Collect, SaveFails, TeamsDone, Crash, Idle
  <2> QED BY <2>2 DEF Unannounced
<1>4. CASE Save
  <2>1. PICK rows \in [Keys -> Row], recent \in BOOLEAN,
             next \in {"resolve", "push", "dispatch"} :
               KeepsFlags(rows) /\ CommitSave(rows, recent, next)
    BY <1>4, SaveCommits
  <2>2. collector'.phase = next /\ collector'.new_alerts = NewAlerts(recent)
    BY <2>1 DEF CommitSave, TypeOK
  <2>3. \A m \in NewAlerts(recent) :
           Key(m.id) \in Keys /\ ~messages[Key(m.id)].teams_notified
    BY KeyInKeys DEF NewAlerts, TypeOK, Fetch, Messages
  <2>4. \A m : Key(m.id)' = Key(m.id)
    BY <2>1 DEF CommitSave, Key
  <2> QED BY <2>1, <2>2, <2>3, <2>4 DEF CommitSave, KeepsFlags, Unannounced
<1>5. CASE ResolveAbsent \/ ResolveAged \/ ResolveFails
  <2>1. GoTo("push").phase = "push" /\ GoTo("push").new_alerts = collector.new_alerts
    BY DEF GoTo, TypeOK
  <2>2. \A k \in Keys : messages[k] \in Row
    BY DEF TypeOK
  <2>3. \A k \in Keys : messages'[k].teams_notified => messages[k].teams_notified
    <3>1. CASE ResolveAbsent
      BY <2>2, <3>1 DEF ResolveAbsent, AbsentResolved, Row
    <3>2. CASE ResolveAged
      <4>1. \A k \in Keys : \/ messages'[k] = messages[k]
                            \/ messages'[k] = [messages[k] EXCEPT !.resolved = TRUE]
        BY <3>2 DEF ResolveAged
      <4> QED BY <2>2, <4>1 DEF Row
    <3>3. CASE ResolveFails
      BY <3>3 DEF ResolveFails
    <3> QED BY <1>5, <3>1, <3>2, <3>3
  <2> QED BY <1>5, <2>1, <2>3, UnannouncedSame DEF ResolveAbsent, ResolveAged, ResolveFails
<1>6. CASE PushQuery \/ Dispatch
  <2>1. /\ collector'.phase \in {"pushing", "page"}
        /\ collector'.new_alerts = collector.new_alerts
    BY <1>6 DEF PushQuery, Dispatch, TypeOK
  <2> QED BY <1>6, <2>1, UnannouncedSame DEF PushQuery, Dispatch
<1>7. CASE PushQueryFails \/ PushDone
  <2>1. /\ GoTo("idle").phase = "idle" /\ GoTo("dispatch").phase = "dispatch"
        /\ GoTo("dispatch").new_alerts = collector.new_alerts
    BY DEF GoTo, Idle, TypeOK
  <2>2. collector' = GoTo("idle") \/ collector' = GoTo("dispatch")
    BY <1>7 DEF PushQueryFails, PushDone, AfterPush
  <2>3. CASE collector' = GoTo("idle")
    BY <2>1, <2>3 DEF Unannounced
  <2>4. CASE collector' = GoTo("dispatch")
    BY <1>7, <2>1, <2>4, UnannouncedSame DEF PushQueryFails, PushDone
  <2> QED BY <2>2, <2>3, <2>4
<1>8. CASE ClearFlag \/ ClearFlagFails
  <2>1. /\ collector'.phase = "pushing"
        /\ collector'.new_alerts = collector.new_alerts
    BY <1>8 DEF ClearFlag, ClearFlagFails, TypeOK
  <2>2. \A k \in Keys : messages'[k].teams_notified => messages[k].teams_notified
    <3>1. CASE ClearFlag
      <4>1. PICK k \in Keys : messages' = Set(k, "datadog_notified", FALSE)
        BY <3>1 DEF ClearFlag, TypeOK
      <4> QED BY <4>1, SetColumn
    <3>2. CASE ClearFlagFails
      BY <3>2 DEF ClearFlagFails
    <3> QED BY <1>8, <3>1, <3>2
  <2> QED BY <1>8, <2>1, <2>2, UnannouncedSame DEF ClearFlag, ClearFlagFails
<1>9. CASE PageDone
  <2>1. /\ collector'.phase = "teams" /\ collector.phase = "page"
        /\ collector'.todo = {Key(m.id) : m \in collector.new_alerts}
        /\ messages' = messages
    BY <1>9 DEF PageDone, TypeOK
  <2> QED BY <2>1 DEF Unannounced
<1>10. CASE Stamp \/ StampFails
  <2>1. /\ collector'.phase = "page"
        /\ collector'.new_alerts = collector.new_alerts
    BY <1>10 DEF Stamp, StampFails, TypeOK
  <2>2. \A k \in Keys : messages'[k].teams_notified => messages[k].teams_notified
    <3>1. CASE Stamp
      <4>1. PICK k \in Keys : messages' = Set(k, "datadog_notified", TRUE)
        BY <3>1 DEF Stamp, TypeOK
      <4> QED BY <4>1, SetColumn
    <3>2. CASE StampFails
      BY <3>2 DEF StampFails
    <3> QED BY <1>10, <3>1, <3>2
  <2> QED BY <1>10, <2>1, <2>2, UnannouncedSame DEF Stamp, StampFails
<1>11. ASSUME NEW k \in Keys,
              \/ PushOk(k) \/ PushUnacked(k) \/ PushRefused(k)
              \/ PageSkipped(k) \/ PageUnacked(k) \/ PageRefused(k)
       PROVE  Unannounced'
  <2>1. /\ collector.phase \in {"pushing", "page"}
        /\ collector'.phase \in {"pushing", "clear", "page"}
        /\ collector'.new_alerts = collector.new_alerts
    BY <1>11 DEF PushOk, PushUnacked, PushRefused, PageSkipped, PageUnacked, PageRefused,
                 Taken, TypeOK
  <2> QED BY <1>11, <2>1, UnannouncedSame
      DEF PushOk, PushUnacked, PushRefused, PageSkipped, PageUnacked, PageRefused
<1>12. ASSUME NEW k \in Keys, Page(k) \/ PageBlind(k)
       PROVE  Unannounced'
  <2>1. Deliver(k)
    BY <1>12 DEF Page, PageBlind
  <2>2. /\ collector.phase = "page" /\ collector'.phase = "stamp"
        /\ collector'.new_alerts = collector.new_alerts
    BY <2>1 DEF Deliver, Taken, TypeOK
  <2> QED BY <2>1, <2>2, UnannouncedSame DEF Deliver
<1>13. ASSUME NEW k \in Keys, Teams(k) \/ TeamsFails(k)
       PROVE  Unannounced'
  <2>1. /\ collector.phase = "teams" /\ collector'.phase \in {"teams", "mark"}
        /\ collector'.todo = collector.todo \ {k} /\ messages' = messages
        /\ collector'.phase = "mark" => collector'.cur = {k}
    BY <1>13 DEF Teams, TeamsFails, Taken, TypeOK
  <2> QED BY <2>1 DEF Unannounced
<1>14. CASE Mark
  <2>1. PICK k \in collector.cur : messages' = Set(k, "teams_notified", TRUE)
    BY <1>14 DEF Mark
  <2>2. k \in Keys /\ collector.todo \subseteq Keys
    BY DEF TypeOK
  <2>3. \A j \in Keys \ {k} : messages'[j] = messages[j]
    BY <2>1, <2>2, SetColumn
  <2>4. /\ collector.phase = "mark" /\ collector'.phase = "teams"
        /\ collector'.todo = collector.todo
    BY <1>14 DEF Mark, TypeOK
  <2> QED BY <2>1, <2>2, <2>3, <2>4 DEF Unannounced
<1>15. CASE MarkFails
  <2>1. \/ collector'.phase = "idle"
        \/ /\ collector.phase = "mark" /\ collector'.phase = "teams"
           /\ collector'.todo = collector.todo /\ messages' = messages
    BY <1>15 DEF MarkFails, Idle, TypeOK
  <2> QED BY <2>1 DEF Unannounced
<1>16. CASE AlertCleanup
  <2>1. \A k \in Keys : messages'[k].teams_notified => messages[k].teams_notified
    BY <1>16 DEF AlertCleanup, NoRow
  <2>2. \A m \in collector.new_alerts : Key(m.id) \in Keys
    BY KeyInKeys DEF TypeOK, Messages
  <2>3. \A m : Key(m.id)' = Key(m.id)
    BY <1>16 DEF AlertCleanup, Key
  <2>4. collector' = collector /\ collector.todo \subseteq Keys
    BY <1>16 DEF AlertCleanup, TypeOK
  <2> QED BY <2>1, <2>2, <2>3, <2>4 DEF Unannounced
<1> QED BY <1>1, <1>2, <1>3, <1>4, <1>5, <1>6, <1>7, <1>8, <1>9, <1>10, <1>11, <1>12,
           <1>13, <1>14, <1>15, <1>16 DEF Next, Cycle

\* The invariant with the list of alerts to announce.
LEMMA AnnounceInvariant == Spec => []AnnounceInv
<1>1. Init => Unannounced
  BY DEF Init, Idle, Unannounced
<1>2. AnnounceInv /\ [Next]_vars => Unannounced'
  BY UnannouncedStep
<1>3. Unannounced /\ []TrackInv /\ [][Next]_vars => []Unannounced
  <2>1. Unannounced /\ TrackInv /\ [Next]_vars => Unannounced'
    BY <1>2 DEF AnnounceInv
  <2> QED BY <2>1, PTL
<1> QED BY <1>1, <1>3, TrackInvariant, PTL DEF Spec, AnnounceInv

\* Once teams_notified is stored, Teams does not hear of that row again.
THEOREM NeverAnnouncedTwice == Spec => NoTeamsRepeat
<1>1. ASSUME AnnounceInv, [Next]_vars, NEW k \in Keys, DeliversTeams(k)
      PROVE  ~messages[k].teams_notified
  <2> USE <1>1 DEF AnnounceInv, TrackInv
  <2>1. collector.phase = "teams" /\ collector'.phase = "mark" /\ k \in collector'.cur
    BY DEF DeliversTeams
  <2>2. CASE \E j \in Keys : Teams(j)
    <3>1. PICK j \in Keys : Teams(j)
      BY <2>2
    <3>2. collector'.cur = {j} /\ j \in collector.todo
      BY <3>1 DEF Teams, Taken, TypeOK
    <3> QED BY <2>1, <3>2 DEF Unannounced
  <2>3. CASE \/ SaveFails \/ ResolveFails \/ MarkFails \/ Crash \/ UNCHANGED vars
    BY <2>1, <2>3 DEF SaveFails, ResolveFails, MarkFails, Crash, Idle, vars
  <2>4. CASE \E j \in Keys : TeamsFails(j)
    BY <2>1, <2>4 DEF TeamsFails, Taken, TypeOK
  <2>5. CASE TeamsDone
    BY <2>1, <2>5 DEF TeamsDone, Idle
  <2>6. CASE \/ \E i \in Ids : Raise(i) \/ Clear(i)
             \/ Tick \/ AlertCleanup
    BY <2>1, <2>6 DEF Raise, Clear, Tick, AlertCleanup
  <2>7. CASE \/ Collect \/ Save \/ ResolveAbsent \/ ResolveAged
             \/ PushQuery \/ PushQueryFails \/ PushDone \/ ClearFlag \/ ClearFlagFails
             \/ Dispatch \/ PageDone \/ Stamp \/ StampFails \/ Mark
             \/ \E j \in Keys : \/ PushOk(j) \/ PushUnacked(j) \/ PushRefused(j)
                                \/ PageSkipped(j) \/ Page(j) \/ PageBlind(j)
                                \/ PageUnacked(j) \/ PageRefused(j)
    BY <2>1, <2>7
       DEF Collect, Save, PureSave, HpeSave, HitachiSave, DellSave, OracleSave,
           StorageGridSave, NetAppSave, CommitSave, ResolveAbsent, ResolveAged,
           PushQuery, PushQueryFails, PushDone, ClearFlag, ClearFlagFails, Dispatch,
           PageDone, Stamp, StampFails, Mark, PushOk, PushUnacked, PushRefused,
           PageSkipped, Page, PageBlind, Deliver, PageUnacked, PageRefused
  <2> QED BY <2>2, <2>3, <2>4, <2>5, <2>6, <2>7 DEF Next, Cycle
<1>2. AnnounceInv /\ [Next]_vars =>
         [\A k \in Keys : DeliversTeams(k) => ~messages[k].teams_notified]_vars
  BY <1>1
<1> QED BY <1>2, AnnounceInvariant, PTL DEF Spec, NoTeamsRepeat

(***************************************************************************)
(* What is closed by absence was absent.                                   *)
(***************************************************************************)

\* What the thread holds of its fetch: everything the array reported is in an answer but
\* for what it names as left out, and rows are closed by absence only after an answer.
FetchInv ==
    /\ collector.phase = "age" => vendor = "netapp"
    /\ collector.phase = "resolve" => collector.fetch.fetch_ok
    /\ collector.fetch.fetch_ok => Seen = collector.fetch.up \ Unseen(collector.fetch)

\* An answer has the alerts it should, as the array has them, but for those left out.
LEMMA FetchTells ==
    ASSUME TypeOK, NEW f \in Fetches[vendor]
    PROVE  /\ \A m \in f.messages :
                 m.id \in Ids /\ Fetchable(m.id) /\ m.opened = alert[m.id].opened
           /\ f.fetch_ok => /\ f.up = {i \in Ids : Fetchable(i)}
                            /\ {m.id : m \in f.messages} = f.up \ Unseen(f)
<1> DEFINE S == {i \in Ids : Fetchable(i)}
<1>1. PICK p \in SUBSET S :
         \/ f = OnPage(S, p) \/ f = Failed(S)
         \/ \E answered \in SUBSET Endpoints : f = AnsweredBy(S, p, answered)
  BY AnswerForms
<1>2. \A i \in S : i \in Ids /\ Fetchable(i)
  OBVIOUS
<1> HIDE DEF S
<1>3. ASSUME NEW T \in SUBSET p, f.messages = MessagesOf(T)
      PROVE  /\ \A m \in f.messages :
                   m.id \in Ids /\ Fetchable(m.id) /\ m.opened = alert[m.id].opened
             /\ {m.id : m \in f.messages} = T
  <2>1. \A m \in f.messages : m.id \in T /\ m.opened = alert[m.id].opened
    BY <1>3, MessagesOfSet
  <2>2. T \subseteq S
    BY <1>1
  <2>3. {m.id : m \in f.messages} = T
    BY <1>3, MessagesOfSet
  <2> QED BY <1>2, <2>1, <2>2, <2>3
<1>4. CASE f = OnPage(S, p)
  <2>1. /\ f.messages = MessagesOf(p) /\ f.up = S /\ f.fetch_ok
        /\ f.unanswered = {} /\ f.beyond = S \ p
    BY <1>4 DEF OnPage
  <2>2. S \ Unseen(f) = p
    BY <1>1, <2>1 DEF Unseen
  <2> QED BY <1>3, <2>1, <2>2 DEF S
<1>5. CASE f = Failed(S)
  <2>1. f.messages = {} /\ ~f.fetch_ok
    BY <1>5 DEF Failed
  <2> QED BY <2>1
<1>6. ASSUME NEW answered \in SUBSET Endpoints, f = AnsweredBy(S, p, answered)
      PROVE  /\ \A m \in f.messages :
                   m.id \in Ids /\ Fetchable(m.id) /\ m.opened = alert[m.id].opened
             /\ f.fetch_ok => /\ f.up = S
                              /\ {m.id : m \in f.messages} = f.up \ Unseen(f)
  <2> DEFINE T == {i \in p : EndpointOf[i] \in answered}
  <2>1. /\ f.messages = MessagesOf(T) /\ f.up = S
        /\ f.unanswered = {i \in S : EndpointOf[i] \notin answered}
        /\ f.beyond = {i \in S \ p : EndpointOf[i] \in answered}
    BY <1>6 DEF AnsweredBy
  <2>2. f.fetch_ok => S \ Unseen(f) = T
    BY <1>1, <2>1 DEF Unseen
  <2>3. T \in SUBSET p
    OBVIOUS
  <2> HIDE DEF T
  <2> QED BY <1>3, <2>1, <2>2, <2>3
<1> QED BY <1>1, <1>4, <1>5, <1>6 DEF S

\* Where a committed upsert leaves the thread, and what it keeps.
CommitsTo(next) ==
    /\ collector'.phase = next
    /\ collector'.fetch = IF next = "resolve" THEN collector.fetch ELSE NoFetch
    /\ UNCHANGED <<vendor, now, alert, seed>>

LEMMA CommitGoesOn ==
    ASSUME TypeOK, NEW rows, NEW recent, NEW next, CommitSave(rows, recent, next)
    PROVE  CommitsTo(next) /\ messages' = rows
BY DEF CommitSave, CommitsTo, TypeOK

\* A thread that has dropped its fetch, and one that has it still and goes on.
LEMMA FetchDropped ==
    ASSUME collector'.fetch = NoFetch, collector'.phase # "resolve",
           collector'.phase = "age" => vendor' = "netapp"
    PROVE  FetchInv'
BY DEF FetchInv, NoFetch, Failed

LEMMA FetchKept ==
    ASSUME FetchInv, collector'.fetch = collector.fetch, vendor' = vendor,
           collector'.phase \notin {"resolve", "age"}
    PROVE  FetchInv'
BY DEF FetchInv, Seen

LEMMA FetchStep ==
    ASSUME TypeOK, FetchInv, [Next]_vars
    PROVE  FetchInv'
<1>1. CASE \/ \E i \in Ids : Raise(i) \/ Clear(i)
           \/ Tick \/ AlertCleanup \/ UNCHANGED vars
  BY <1>1 DEF Raise, Clear, Tick, AlertCleanup, vars, FetchInv, Seen
<1>2. CASE Collect
  <2>1. PICK f \in Fetches[vendor] :
          collector' = [Idle EXCEPT !.phase = "save", !.fetch = f]
    BY <1>2 DEF Collect
  <2>2. collector'.phase = "save" /\ collector'.fetch = f /\ vendor' = vendor
    BY <1>2, <2>1 DEF Collect, Idle
  <2>3. f.fetch_ok => Seen' = f.up \ Unseen(f)
    BY <2>2, FetchTells DEF Seen
  <2> QED BY <2>2, <2>3 DEF FetchInv
<1>3. CASE Save
  <2>1. \/ CommitsTo("resolve") /\ Ok
        \/ CommitsTo("push")
        \/ CommitsTo("dispatch")
    <3>1. CASE PureSave
      BY <3>1, CommitGoesOn DEF PureSave
    <3>2. CASE HpeSave \/ HitachiSave \/ DellSave \/ OracleSave
      BY <3>2, CommitGoesOn DEF HpeSave, HitachiSave, DellSave, OracleSave
    <3>3. CASE StorageGridSave
      BY <3>3, CommitGoesOn DEF StorageGridSave
    <3>4. CASE NetAppSave
      BY <3>4, CommitGoesOn DEF NetAppSave
    <3> QED BY <1>3, <3>1, <3>2, <3>3, <3>4 DEF Save
  <2>2. CASE CommitsTo("resolve") /\ Ok
    BY <2>2 DEF CommitsTo, FetchInv, Seen, Ok
  <2>3. CASE CommitsTo("push") \/ CommitsTo("dispatch")
    BY <2>3, FetchDropped DEF CommitsTo
  <2> QED BY <2>1, <2>2, <2>3
<1>4. CASE SaveFails \/ Crash \/ TeamsDone
  <2>1. /\ Idle.phase = "idle" /\ Idle.fetch = NoFetch
        /\ [Idle EXCEPT !.phase = "age"].phase = "age"
        /\ [Idle EXCEPT !.phase = "age"].fetch = NoFetch
    BY DEF Idle
  <2> QED BY <1>4, <2>1, FetchDropped DEF SaveFails, Crash, TeamsDone
<1>5. CASE \/ ResolveAbsent \/ ResolveAged \/ ResolveFails \/ PushQueryFails \/ PushDone
  <2>1. \A p \in {"push", "idle", "dispatch"} : GoTo(p).phase = p /\ GoTo(p).fetch = NoFetch
    BY DEF GoTo, Idle, TypeOK
  <2>2. \E p \in {"push", "idle", "dispatch"} : collector' = GoTo(p)
    BY <1>5 DEF ResolveAbsent, ResolveAged, ResolveFails, PushQueryFails, PushDone, AfterPush
  <2> QED BY <2>1, <2>2, FetchDropped
<1>6. CASE PushQuery \/ ClearFlag \/ ClearFlagFails \/ Dispatch \/ PageDone \/ Stamp
           \/ StampFails \/ Mark
  <2>1. /\ collector'.phase \notin {"resolve", "age"}
        /\ collector'.fetch = collector.fetch /\ vendor' = vendor
    BY <1>6 DEF PushQuery, ClearFlag, ClearFlagFails, Dispatch, PageDone, Stamp,
                StampFails, Mark, TypeOK
  <2> QED BY <2>1, FetchKept
<1>7. CASE MarkFails
  <2>1. CASE collector' = Idle
    BY <2>1, FetchDropped DEF Idle
  <2>2. CASE collector' = [collector EXCEPT !.phase = "teams", !.cur = {}]
    <3>1. collector'.phase = "teams" /\ collector'.fetch = collector.fetch
      BY <2>2 DEF TypeOK
    <3> QED BY <1>7, <3>1, FetchKept DEF MarkFails
  <2> QED BY <1>7, <2>1, <2>2 DEF MarkFails
<1>8. ASSUME NEW k \in Keys,
             \/ PushOk(k) \/ PushUnacked(k) \/ PushRefused(k) \/ PageSkipped(k)
             \/ Deliver(k) \/ PageUnacked(k) \/ PageRefused(k)
             \/ Teams(k) \/ TeamsFails(k)
      PROVE  FetchInv'
  <2>1. /\ collector'.phase \in {"pushing", "clear", "page", "stamp", "teams", "mark"}
        /\ collector'.fetch = collector.fetch /\ vendor' = vendor
    BY <1>8 DEF PushOk, PushUnacked, PushRefused, PageSkipped, Deliver, PageUnacked,
                PageRefused, Teams, TeamsFails, Taken, TypeOK
  <2> QED BY <2>1, FetchKept
<1> QED BY <1>1, <1>2, <1>3, <1>4, <1>5, <1>6, <1>7, <1>8 DEF Next, Cycle, Page, PageBlind

LEMMA FetchInvariant == Spec => [](TrackInv /\ FetchInv)
<1>1. Init => FetchInv
  BY DEF Init, Idle, NoFetch, Failed, FetchInv
<1>2. TrackInv /\ FetchInv /\ [Next]_vars => FetchInv'
  BY FetchStep DEF TrackInv
<1> QED BY <1>1, <1>2, TrackInvariant, PTL DEF Spec

\* The columns of a row that say whether and how often the alert was seen.
SameCounts(k) ==
    /\ messages'[k].stored = messages[k].stored
    /\ messages'[k].resolved = messages[k].resolved
    /\ messages'[k].opened = messages[k].opened
    /\ messages'[k].occurrence_count = messages[k].occurrence_count

\* Setting a notification column leaves them alone.
LEMMA SetKeepsCounts ==
    ASSUME TypeOK, NEW j \in Keys, NEW field \in {"teams_notified", "datadog_notified"},
           NEW v \in BOOLEAN, messages' = Set(j, field, v)
    PROVE  \A k \in Keys : SameCounts(k) /\ (messages[k] = NoRow => messages'[k] = NoRow)
<1>1. messages \in [Keys -> Row]
  BY DEF TypeOK
<1>2. CASE ~messages[j].stored
  BY <1>2 DEF Set, SameCounts
<1>5. ASSUME messages[j].stored
      PROVE  messages[j] # NoRow
  BY <1>5 DEF NoRow
<1>3. CASE messages[j].stored /\ field = "teams_notified"
  <2>1. \A k \in Keys : messages'[k] = IF k = j THEN [messages[j] EXCEPT !.teams_notified = v]
                                                ELSE messages[k]
    BY <1>1, <1>3 DEF Set
  <2>2. \A k \in Keys : messages[k] = NoRow => messages'[k] = NoRow
    BY <1>3, <1>5, <2>1
  <2> QED BY <1>1, <2>1, <2>2 DEF Row, SameCounts
<1>4. CASE messages[j].stored /\ field = "datadog_notified"
  <2>1. \A k \in Keys : messages'[k] = IF k = j
                                       THEN [messages[j] EXCEPT !.datadog_notified = v]
                                       ELSE messages[k]
    BY <1>1, <1>4 DEF Set
  <2>2. \A k \in Keys : messages[k] = NoRow => messages'[k] = NoRow
    BY <1>4, <1>5, <2>1
  <2> QED BY <1>1, <2>1, <2>2 DEF Row, SameCounts
<1> QED BY <1>2, <1>3, <1>4


\* The upsert of one row leaves it open, or as NetApp's query found it.
LEMMA UpsertedResolved ==
    ASSUME TypeOK, NEW k \in Keys, NEW stays \in BOOLEAN, Upserted(k, stays).resolved
    PROVE  stays /\ messages[k].stored
BY DEF Upserted, NoRow, TypeOK, Row

\* Rows are closed by absence only when the array did not report the alert, or the answer
\* left it out; no failed fetch closes one, nor what clears or comes back meanwhile.
THEOREM ClosedOnlyIfGone == Spec => ResolvedOnlyIfGone
<1> DEFINE Excused(k) == \/ k[1] \notin collector.fetch.up
                         \/ k[1] \in Unseen(collector.fetch)
                         \/ vendor = "netapp" /\ Older(messages[k].opened, ResolveAge)
                         \/ k # Key(k[1])
<1>1. ASSUME TrackInv, FetchInv, [Next]_vars, NEW k \in Keys, Open(k), Resolved(k)'
      PROVE  Excused(k)
  <2> USE <1>1 DEF TrackInv
  <2>1. /\ messages[k].stored /\ ~messages[k].resolved
        /\ messages'[k].stored /\ messages'[k].resolved
    BY DEF Open, Resolved
  <2>2. ASSUME Ok, k \notin SeenKeys
        PROVE  Excused(k)
    BY <2>2 DEF FetchInv, Ok, SeenKeys
  <2>3. ASSUME k \in SeenKeys
        PROVE  ~Upserted(k, FALSE).resolved /\ ~Upserted(k, messages[k].resolved).resolved
    <3>1. messages[k].resolved \in BOOLEAN
      BY DEF TypeOK, Row
    <3> QED BY <2>1, <3>1, UpsertedResolved
  <2>4. ~UpsertedReopening[k].resolved
    BY <2>1, <2>3 DEF UpsertedReopening
  <2>5. CASE Save
    <3>1. CASE PureSave
      <4>1. messages' = IF Ok THEN AbsentResolved(UpsertedReopening) ELSE UpsertedReopening
        BY <3>1 DEF PureSave, CommitSave
      <4>2. Ok /\ k \notin SeenKeys
        BY <2>1, <2>4, <4>1 DEF AbsentResolved
      <4> QED BY <2>2, <4>2
    <3>2. CASE HpeSave \/ HitachiSave \/ DellSave \/ OracleSave \/ StorageGridSave
      BY <2>1, <2>4, <3>2
         DEF HpeSave, HitachiSave, DellSave, OracleSave, StorageGridSave, CommitSave
    <3>3. CASE NetAppSave
      <4>1. messages' = UpsertedKeeping
        BY <3>3 DEF NetAppSave, CommitSave
      <4> QED BY <2>1, <2>3, <4>1 DEF UpsertedKeeping
    <3> QED BY <2>5, <3>1, <3>2, <3>3 DEF Save
  <2>6. CASE ResolveAbsent
    <3>1. messages' = AbsentResolved(messages) /\ Ok
      BY <2>6 DEF ResolveAbsent, FetchInv, Ok
    <3>2. k \notin SeenKeys
      BY <2>1, <3>1 DEF AbsentResolved
    <3> QED BY <2>2, <3>1, <3>2
  <2>7. CASE ResolveAged
    <3>1. vendor = "netapp"
      BY <2>7 DEF ResolveAged, FetchInv
    <3>2. Older(messages[k].opened, ResolveAge)
      BY <2>1, <2>7 DEF ResolveAged
    <3> QED BY <3>1, <3>2
  <2>8. CASE ClearFlag \/ Stamp \/ Mark
    <3>1. PICK j \in Keys, field \in {"teams_notified", "datadog_notified"}, v \in BOOLEAN :
            messages' = Set(j, field, v)
      <4>1. collector.cur \subseteq Keys
        BY DEF TypeOK
      <4> QED BY <2>8, <4>1 DEF ClearFlag, Stamp, Mark
    <3>2. SameCounts(k)
      BY <3>1, SetKeepsCounts
    <3> QED BY <2>1, <3>2 DEF SameCounts
  <2>9. CASE AlertCleanup
    BY <2>1, <2>9 DEF AlertCleanup, NoRow
  <2>10. CASE UNCHANGED messages
    BY <2>1, <2>10
  <2> QED BY <2>5, <2>6, <2>7, <2>8, <2>9, <2>10
      DEF Next, Cycle, vars, Raise, Clear, Tick, Collect, SaveFails, ResolveFails,
          PushQuery, PushQueryFails, PushDone, ClearFlagFails, Dispatch, PageDone,
          StampFails, TeamsDone, MarkFails, PushOk, PushUnacked, PushRefused, PageSkipped,
          Page, PageBlind, Deliver, PageUnacked, PageRefused, Teams, TeamsFails, Crash
<1>2. TrackInv /\ FetchInv /\ [Next]_vars =>
         [\A k \in Keys : Open(k) /\ Resolved(k)' => Excused(k)]_vars
  BY <1>1
<1> QED BY <1>2, FetchInvariant, PTL DEF Spec, ResolvedOnlyIfGone


(***************************************************************************)
(* Occurrences are counted when they occur.                                *)
(***************************************************************************)

Count(i) == messages[Key(i)].occurrence_count

\* The rise that a row has not counted yet, if the alert can be upserted again after the
\* row is closed: because a fetch would find it, has found it, or came before it.
Uncounted(i) ==
    /\ Resolved(Key(i)) /\ Fetchable(i) => Count(i) < alert[i].raises
    /\ collector.phase = "save" /\ i \in Seen /\ Resolved(Key(i)) =>
           Count(i) < alert[i].raises
    /\ /\ collector.phase \in {"save", "resolve"} /\ collector.fetch.fetch_ok
       /\ i \notin Seen /\ messages[Key(i)].stored /\ Fetchable(i)
       => Count(i) < alert[i].raises

\* NetApp's events are raised once, and their rows and messages say when.
Dated(i) ==
    /\ ~Recurs => alert[i].raises <= 1
    /\ vendor = "netapp" /\ messages[Key(i)].stored =>
           messages[Key(i)].opened = alert[i].opened
    /\ vendor = "netapp" /\ collector.phase = "save" =>
           \A m \in collector.fetch.messages : m.id = i => m.opened = alert[i].opened

\* Only of an alert that some answer left out is the count not known to be right.
Counted(i) ==
    /\ alert[i].up => alert[i].raises >= 1
    /\ collector.phase = "save" /\ i \in Seen => alert[i].raises >= 1
    /\ messages[Key(i)].stored => Count(i) >= 1 /\ alert[i].raises >= 1
    /\ i \notin missed => Count(i) <= alert[i].raises /\ Uncounted(i)
    /\ Dated(i)

\* The rows of earlier hash seeds are never upserted again: they keep their counts.
Orphaned(k) == k # Key(k[1])
OrphansCounted ==
    \A k \in Keys : Orphaned(k) /\ k[1] \notin missed =>
                        messages[k].occurrence_count <= alert[k[1]].raises

CountInv == OrphansCounted /\ \A i \in Ids : Counted(i)

\* Only a restart changes the key of an alert.
LEMMA KeySteady ==
    ASSUME UNCHANGED <<vendor, seed>>
    PROVE  \A i : Key(i) = Key(i)'
BY DEF Key

\* After a step, too, the key of an alert is a key of the table.
LEMMA KeyInKeysNext ==
    ASSUME TypeOK', NEW i \in Ids
    PROVE  Key(i)' \in Keys
BY ConstantsAssumption DEF TypeOK, Key, Keys

\* Orphans whose counts a step leaves alone stay below the rises.
LEMMA OrphansKept ==
    ASSUME TypeOK, TypeOK', CountInv, UNCHANGED <<vendor, seed, missed>>,
           \A i \in Ids : alert'[i].raises >= alert[i].raises,
           \A k \in Keys : Orphaned(k) =>
              \/ messages'[k].occurrence_count = messages[k].occurrence_count
              \/ messages'[k] = NoRow
    PROVE  OrphansCounted'
<1> SUFFICES ASSUME NEW k \in Keys, Orphaned(k)', k[1] \notin missed
             PROVE  messages'[k].occurrence_count <= alert'[k[1]].raises
  BY DEF OrphansCounted
<1>1. Orphaned(k) /\ k[1] \in Ids
  BY KeySteady DEF Orphaned, Keys
<1>2. messages[k].occurrence_count <= alert[k[1]].raises
  BY <1>1 DEF CountInv, OrphansCounted
<1>3. /\ messages[k].occurrence_count \in Int
      /\ alert[k[1]].raises \in Nat /\ alert'[k[1]].raises \in Nat
  BY <1>1, ConstantsAssumption DEF TypeOK, Row, MaxOccurrences
<1>4. CASE messages'[k].occurrence_count = messages[k].occurrence_count
  BY <1>1, <1>2, <1>3, <1>4
<1>5. CASE messages'[k] = NoRow
  BY <1>1, <1>3, <1>5 DEF NoRow
<1> QED BY <1>1, <1>4, <1>5

\* Types of what is counted.
LEMMA CountTypes ==
    ASSUME TypeOK, NEW i \in Ids
    PROVE  /\ messages[Key(i)] \in Row /\ Key(i) \in Keys /\ Key(i)[1] = i
           /\ Count(i) \in Nat /\ alert[i].raises \in Nat
           /\ alert[i].opened \in Nat /\ messages[Key(i)].opened \in Nat /\ now \in Nat
           /\ alert[i].up \in BOOLEAN
<1>1. Key(i) \in Keys /\ Key(i)[1] = i
  BY KeyInKeys
<1>2. messages[Key(i)] \in Row
  BY <1>1 DEF TypeOK
<1>3. alert[i] \in [up : BOOLEAN, opened : Time, raises : 0..MaxRaises] /\ now \in Time
  BY DEF TypeOK
<1>4. Time \subseteq Nat /\ 0..MaxRaises \subseteq Nat /\ 0..MaxOccurrences \subseteq Nat
  BY ConstantsAssumption DEF Time, MaxOccurrences
<1> QED BY <1>1, <1>2, <1>3, <1>4 DEF Count, Row

\* Steps that leave the array, the clock and these columns alone, outside the upsert and
\* the closure that follows it.
LEMMA CountSame ==
    ASSUME TypeOK, TypeOK', CountInv, UNCHANGED <<vendor, seed, now, alert, missed>>,
           \A k \in Keys : SameCounts(k), collector'.phase \notin {"save", "resolve"}
    PROVE  CountInv'
<1>1. \A i : Key(i) = Key(i)'
  BY KeySteady
<1>2. OrphansCounted'
  <2>1. \A i \in Ids : alert'[i].raises >= alert[i].raises
    BY CountTypes
  <2> QED BY <2>1, OrphansKept DEF SameCounts
<1>3. ASSUME NEW i \in Ids
      PROVE  Counted(i)'
  <2>1. Key(i) \in Keys /\ SameCounts(Key(i))
    BY CountTypes
  <2>2. Counted(i)
    BY DEF CountInv
  <2>3. i \notin missed => Uncounted(i)'
    BY <1>1, <2>1, <2>2
       DEF Counted, Uncounted, Count, SameCounts, Resolved, Fetchable, Older
  <2>4. Dated(i)'
    BY <1>1, <2>1, <2>2 DEF Counted, Dated, SameCounts, Recurs
  <2> QED BY <1>1, <2>1, <2>2, <2>3, <2>4 DEF Counted, Count, SameCounts
<1> QED BY <1>2, <1>3 DEF CountInv

\* The array raises an alert: nothing it has stored or sent can have counted that.
LEMMA CountRaise ==
    ASSUME TypeOK, TypeOK', CountInv, NEW j \in Ids, Raise(j)
    PROVE  CountInv'
<1>1. \A i : Key(i) = Key(i)'
  BY KeySteady DEF Raise
<1>2. OrphansCounted'
  <2>1. \A i \in Ids : alert[i].raises \in Nat /\ alert'[i].raises
                                              \in {alert[i].raises, alert[i].raises + 1}
    BY CountTypes DEF Raise, TypeOK
  <2>2. \A i \in Ids : alert'[i].raises >= alert[i].raises
    BY <2>1
  <2> QED BY <2>2, OrphansKept DEF Raise
<1>3. ASSUME NEW i \in Ids
      PROVE  Counted(i)'
  <2>1. Counted(i)
    BY DEF CountInv
  <2>2. CASE i # j
    <3>1. alert'[i] = alert[i]
      BY <2>2 DEF Raise, TypeOK
    <3> QED BY <1>1, <2>1, <3>1
        DEF Raise, Counted, Uncounted, Dated, Count, Resolved, Fetchable, Older, Recurs, Seen
  <2>3. CASE i = j
    <3>1. alert'[i].up /\ alert'[i].raises = alert[i].raises + 1
      BY <2>3 DEF Raise, TypeOK
    <3>2. Count(i)' = Count(i) /\ Count(i) \in Nat /\ alert[i].raises \in Nat
          /\ messages' = messages /\ collector' = collector /\ vendor' = vendor
      BY <1>1, CountTypes DEF Raise, Count
    <3>3. i \notin missed => Count(i)' < alert'[i].raises
      BY <2>1, <3>1, <3>2 DEF Counted
    <3>4. i \notin missed' => Uncounted(i)'
      BY <3>3 DEF Uncounted, Raise
    <3>5. alert[i].raises = 0 \/ Recurs
      BY <2>3 DEF Raise
    <3>6. vendor = "netapp" => alert[i].raises = 0
      BY <3>5 DEF Recurs
    <3>7. vendor = "netapp" => ~messages[Key(i)].stored
      BY <2>1, <3>2, <3>6 DEF Counted
    <3>8. vendor = "netapp" /\ collector.phase = "save" => i \notin Seen
      BY <2>1, <3>6 DEF Counted
    <3>9. Dated(i)'
      BY <1>1, <3>1, <3>2, <3>5, <3>7, <3>8 DEF Dated, Recurs, Seen
    <3>10. messages'[Key(i)'].stored => Count(i)' >= 1
      BY <1>1, <2>1, <3>2 DEF Counted
    <3>11. alert'[i].raises >= 1
      BY <3>1, <3>2
    <3>12. i \notin missed' => i \notin missed /\ Count(i)' <= alert'[i].raises
      BY <2>1, <3>1, <3>2 DEF Counted, Raise
    <3> QED BY <3>4, <3>9, <3>10, <3>11, <3>12 DEF Counted
  <2> QED BY <2>2, <2>3
<1> QED BY <1>2, <1>3 DEF CountInv

\* It clears one, or time passes: nothing becomes fetchable.
LEMMA CountAge ==
    ASSUME TypeOK, TypeOK', CountInv, Tick \/ \E j \in Ids : Clear(j)
    PROVE  CountInv'
<1>1. \A i : Key(i) = Key(i)'
  BY KeySteady DEF Tick, Clear
<1>2. UNCHANGED <<messages, collector, vendor, missed>>
  BY DEF Tick, Clear
<1>3. OrphansCounted'
  <2>1. \A i \in Ids : alert'[i].raises = alert[i].raises /\ alert[i].raises \in Nat
    BY CountTypes DEF Tick, Clear, TypeOK
  <2>2. \A i \in Ids : alert'[i].raises >= alert[i].raises
    BY <2>1
  <2>3. UNCHANGED seed
    BY DEF Tick, Clear
  <2> QED BY <1>2, <2>2, <2>3, OrphansKept
<1>4. ASSUME NEW i \in Ids
      PROVE  Counted(i)'
  <2>1. Counted(i)
    BY DEF CountInv
  <2>2. /\ alert'[i].raises = alert[i].raises /\ alert'[i].opened = alert[i].opened
        /\ alert'[i].up => alert[i].up
    BY DEF Tick, Clear, TypeOK
  <2>3. now' = now \/ now' = now + 1
    BY DEF Tick, Clear
  <2>4. Fetchable(i)' => Fetchable(i)
    BY <1>2, <2>2, <2>3, CountTypes, ConstantsAssumption DEF Fetchable, Older
  <2>5. Count(i)' = Count(i) /\ (Resolved(Key(i))' <=> Resolved(Key(i))) /\ Seen' = Seen
    BY <1>1, <1>2 DEF Count, Resolved, Seen
  <2>6. i \notin missed => Uncounted(i)'
    BY <1>1, <1>2, <2>1, <2>2, <2>4, <2>5 DEF Counted, Uncounted
  <2>7. Dated(i)'
    BY <1>1, <1>2, <2>1, <2>2 DEF Counted, Dated, Recurs
  <2> QED BY <1>1, <1>2, <2>1, <2>2, <2>5, <2>6, <2>7 DEF Counted
<1> QED BY <1>3, <1>4 DEF CountInv

\* A fetch holds what is up now, each with the rise its row has not counted if closed.
LEMMA CountCollect ==
    ASSUME TypeOK, TypeOK', CountInv, Collect
    PROVE  CountInv'
<1>1. \A i : Key(i) = Key(i)'
  BY KeySteady DEF Collect
<1>2. PICK f \in Fetches[vendor] : /\ collector' = [Idle EXCEPT !.phase = "save", !.fetch = f]
                                  /\ missed' = missed \cup Unseen(f)
  BY DEF Collect
<1>3. collector'.phase = "save" /\ collector'.fetch = f
  BY <1>2 DEF Idle
<1>4. UNCHANGED <<messages, vendor, now, alert>>
  BY DEF Collect
<1>5. OrphansCounted'
  BY <1>1, <1>2, <1>4 DEF CountInv, OrphansCounted, Orphaned
<1>6. ASSUME NEW i \in Ids
      PROVE  Counted(i)'
  <2>1. Counted(i)
    BY DEF CountInv
  <2>2. /\ Count(i)' = Count(i) /\ (Resolved(Key(i))' <=> Resolved(Key(i)))
        /\ (Fetchable(i)' <=> Fetchable(i))
    BY <1>1, <1>4 DEF Count, Resolved, Fetchable, Older
  <2>3. Seen' = {m.id : m \in f.messages}
    BY <1>3 DEF Seen
  <2>4. i \in Seen' => Fetchable(i)
    BY <2>3, FetchTells
  <2>5. f.fetch_ok /\ i \notin Seen' /\ i \notin missed' => ~Fetchable(i)
    BY <1>2, <2>3, FetchTells
  <2>6. Fetchable(i) => alert[i].raises >= 1
    BY <2>1 DEF Counted, Fetchable
  <2>7. i \notin missed' => i \notin missed /\ Uncounted(i)'
    BY <1>2, <1>3, <1>4, <2>1, <2>2, <2>4, <2>5 DEF Counted, Uncounted
  <2>8. \A m \in f.messages : m.id = i => m.opened = alert[i].opened
    BY FetchTells
  <2>9. Dated(i)'
    BY <1>1, <1>3, <1>4, <2>1, <2>8 DEF Counted, Dated, Recurs
  <2> QED BY <1>1, <1>4, <2>1, <2>2, <2>4, <2>6, <2>7, <2>9 DEF Counted
<1> QED BY <1>5, <1>6 DEF CountInv


\* What an upsert makes of the row of an alert it has seen: open unless it is NetApp's,
\* and counted as a recurrence only if the array raised it anew.
LEMMA CountUpserted ==
    ASSUME TypeOK, RowsBlank, CountInv, NEW i \in Ids,
           collector.phase = "save", i \in Seen, NEW stays \in BOOLEAN,
           stays => vendor = "netapp" /\ messages[Key(i)].resolved
    PROVE  LET row == Upserted(Key(i), stays)
           IN  /\ row.stored /\ row.occurrence_count >= 1
               /\ i \notin missed => ~row.resolved /\ row.occurrence_count <= alert[i].raises
               /\ vendor = "netapp" => row.opened = alert[i].opened
<1> DEFINE row == Upserted(Key(i), stays)
<1>1. Counted(i) /\ alert[i].raises >= 1
  BY DEF CountInv, Counted
<1>2. PICK m \in collector.fetch.messages : m.id = i
  BY DEF Seen
<1>3. MessageOf(i) \in collector.fetch.messages /\ MessageOf(i).id = i
  BY <1>2 DEF MessageOf
<1>4. vendor = "netapp" => MessageOf(i).opened = alert[i].opened
  BY <1>1, <1>3 DEF Counted, Dated
<1>5. messages[Key(i)] \in Row /\ Key(i)[1] = i
  BY CountTypes
<1>6. Count(i) \in Nat /\ alert[i].raises \in Nat
  BY CountTypes
<1>7. i \notin missed /\ messages[Key(i)].stored /\ messages[Key(i)].resolved =>
         Count(i) < alert[i].raises
  BY <1>1 DEF Counted, Uncounted, Resolved
<1>8. i \notin missed => ~stays
  <2> SUFFICES ASSUME stays, i \notin missed
               PROVE  FALSE
    OBVIOUS
  <2>1. messages[Key(i)].stored
    <3>1. ~messages[Key(i)].stored => messages[Key(i)] = NoRow
      BY CountTypes DEF RowsBlank
    <3> QED BY <3>1 DEF NoRow
  <2>2. Count(i) >= 1 /\ Count(i) < alert[i].raises
    BY <1>1, <1>7, <2>1 DEF Counted
  <2>3. alert[i].raises <= 1
    BY <1>1 DEF Counted, Dated, Recurs
  <2> QED BY <1>6, <2>2, <2>3
<1>9. \A n \in Nat : Bump(n) \in {n, n + 1}
  BY DEF Bump
<1>10. CASE messages[Key(i)].stored
  <2>1. /\ row.stored /\ row.resolved = stays /\ row.opened = MessageOf(i).opened
        /\ row.occurrence_count = IF messages[Key(i)].resolved THEN Bump(Count(i))
                                                               ELSE Count(i)
    BY <1>5, <1>10 DEF Upserted, Row, Count
  <2>2. Count(i) >= 1 /\ (i \notin missed => Count(i) <= alert[i].raises)
    BY <1>1, <1>10 DEF Counted
  <2>3. /\ row.occurrence_count >= 1
        /\ i \notin missed => row.occurrence_count <= alert[i].raises
    BY <1>6, <1>7, <1>9, <1>10, <2>1, <2>2
  <2> QED BY <1>4, <1>8, <2>1, <2>3
<1>11. CASE ~messages[Key(i)].stored
  <2>1. /\ row.stored /\ ~row.resolved /\ row.opened = MessageOf(i).opened
        /\ row.occurrence_count = 1
    BY <1>5, <1>11 DEF Upserted, NoRow
  <2> QED BY <1>1, <1>4, <1>6, <2>1
<1> QED BY <1>10, <1>11

\* The rows a committed upsert leaves: seen ones as above, the others as they were, or
\* closed after an answer that lacked them.
CountedRow(i) ==
    /\ i \in Seen =>
          LET row == messages'[Key(i)]
          IN  /\ row.stored /\ row.occurrence_count >= 1
              /\ i \notin missed => ~row.resolved /\ row.occurrence_count <= alert[i].raises
              /\ vendor = "netapp" => row.opened = alert[i].opened
    /\ i \notin Seen =>
          \/ messages'[Key(i)] = messages[Key(i)]
          \/ /\ Ok
             /\ messages'[Key(i)] = [messages[Key(i)] EXCEPT !.resolved = TRUE]

LEMMA SeenBySeenKey ==
    ASSUME TypeOK, NEW i \in Ids
    PROVE  Key(i) \in SeenKeys <=> i \in Seen
<1>1. ASSUME Key(i) \in SeenKeys
      PROVE  i \in Seen
  <2>1. PICK j \in Seen : Key(i) = Key(j)
    BY <1>1 DEF SeenKeys
  <2> QED BY <2>1 DEF Key
<1> QED BY <1>1 DEF SeenKeys

LEMMA CountRows ==
    ASSUME TypeOK, RowsBlank, CountInv, Save
    PROVE  /\ \A i \in Ids : CountedRow(i)
           /\ \A k \in Keys : Orphaned(k) =>
                 \/ messages'[k] = messages[k]
                 \/ messages'[k] = [messages[k] EXCEPT !.resolved = TRUE]
<1>1. collector.phase = "save"
  BY DEF Save, PureSave, HpeSave, HitachiSave, DellSave, OracleSave, StorageGridSave,
         NetAppSave, CommitSave
<1>2. \A k \in Keys : Orphaned(k) => k \notin SeenKeys
  <2>1. ASSUME NEW k \in Keys, k \in SeenKeys
        PROVE  k = Key(k[1])
    <3>1. PICK j \in Seen : k = Key(j)
      BY <2>1 DEF SeenKeys
    <3> QED BY <3>1 DEF Key
  <2> QED BY <2>1 DEF Orphaned
<1>3. CASE NetAppSave
  <2>1. messages' = UpsertedKeeping /\ vendor = "netapp"
    BY <1>3 DEF NetAppSave, CommitSave
  <2>2. ASSUME NEW i \in Ids
        PROVE  CountedRow(i)
    <3>1. Key(i) \in Keys /\ messages[Key(i)].resolved \in BOOLEAN
      BY CountTypes DEF Row
    <3>2. CASE i \in Seen
      <4>1. messages'[Key(i)] = Upserted(Key(i), messages[Key(i)].resolved)
        BY <2>1, <3>1, <3>2, SeenBySeenKey DEF UpsertedKeeping
      <4> QED BY <1>1, <2>1, <3>1, <3>2, <4>1, CountUpserted DEF CountedRow
    <3>3. CASE i \notin Seen
      BY <2>1, <3>1, <3>3, SeenBySeenKey DEF UpsertedKeeping, CountedRow
    <3> QED BY <3>2, <3>3
  <2> QED BY <1>2, <2>1, <2>2 DEF UpsertedKeeping
<1>4. CASE \/ PureSave \/ HpeSave \/ HitachiSave \/ DellSave
           \/ OracleSave \/ StorageGridSave
  <2>1. \/ messages' = UpsertedReopening
        \/ Ok /\ messages' = AbsentResolved(UpsertedReopening)
    BY <1>4 DEF PureSave, HpeSave, HitachiSave, DellSave, OracleSave, StorageGridSave,
                CommitSave
  <2>2. ASSUME NEW i \in Ids
        PROVE  CountedRow(i)
    <3>1. Key(i) \in Keys
      BY CountTypes
    <3>2. CASE i \in Seen
      <4>1. messages'[Key(i)] = Upserted(Key(i), FALSE)
        BY <2>1, <3>1, <3>2, SeenBySeenKey DEF UpsertedReopening, AbsentResolved
      <4> QED BY <1>1, <3>2, <4>1, CountUpserted DEF CountedRow
    <3>3. CASE i \notin Seen
      BY <2>1, <3>1, <3>3, SeenBySeenKey DEF UpsertedReopening, AbsentResolved, CountedRow
    <3> QED BY <3>2, <3>3
  <2> QED BY <1>2, <2>1, <2>2 DEF UpsertedReopening, AbsentResolved
<1> QED BY <1>3, <1>4 DEF Save

\* A row that is closed, or left as it was, keeps its count.
LEMMA ClosedRow ==
    ASSUME TypeOK, NEW k \in Keys,
           \/ messages'[k] = messages[k]
           \/ messages'[k] = [messages[k] EXCEPT !.resolved = TRUE]
    PROVE  /\ messages'[k].stored = messages[k].stored
           /\ messages'[k].opened = messages[k].opened
           /\ messages'[k].occurrence_count = messages[k].occurrence_count
BY DEF TypeOK, Row

LEMMA CountSave ==
    ASSUME TypeOK, TypeOK', RowsBlank, CountInv, Save
    PROVE  CountInv'
<1>1. UNCHANGED <<vendor, seed, missed>> /\ \A i : Key(i) = Key(i)'
  <2>1. UNCHANGED <<vendor, seed, missed>>
    BY DEF Save, PureSave, HpeSave, HitachiSave, DellSave, OracleSave, StorageGridSave,
           NetAppSave, CommitSave
  <2> QED BY <2>1, KeySteady
<1>2. collector.phase = "save"
  BY DEF Save, PureSave, HpeSave, HitachiSave, DellSave, OracleSave, StorageGridSave,
         NetAppSave, CommitSave
<1>3. \/ CommitsTo("resolve")
      \/ CommitsTo("push")
      \/ CommitsTo("dispatch")
  <2>1. CASE PureSave
    BY <2>1, CommitGoesOn DEF PureSave
  <2>2. CASE HpeSave \/ HitachiSave \/ DellSave \/ OracleSave
    BY <2>2, CommitGoesOn DEF HpeSave, HitachiSave, DellSave, OracleSave
  <2>3. CASE StorageGridSave
    BY <2>3, CommitGoesOn DEF StorageGridSave
  <2>4. CASE NetAppSave
    BY <2>4, CommitGoesOn DEF NetAppSave
  <2> QED BY <2>1, <2>2, <2>3, <2>4 DEF Save
<1>4. /\ UNCHANGED <<vendor, now, alert>>
      /\ collector'.phase \in {"resolve", "push", "dispatch"}
      /\ collector'.phase = "resolve" =>
            collector'.fetch = collector.fetch /\ messages' = UpsertedReopening
  <2>1. collector'.phase = "resolve" => messages' = UpsertedReopening
    BY CommitGoesOn DEF Save, PureSave, HpeSave, HitachiSave, DellSave, OracleSave,
       StorageGridSave, NetAppSave, CommitSave, TypeOK
  <2> QED BY <1>3, <2>1 DEF CommitsTo
<1>5. OrphansCounted'
  <2>1. \A i \in Ids : alert'[i].raises >= alert[i].raises
    BY <1>4, CountTypes
  <2>2. \A k \in Keys : Orphaned(k) =>
          messages'[k].occurrence_count = messages[k].occurrence_count
    BY CountRows, ClosedRow
  <2> QED BY <1>1, <1>4, <2>1, <2>2, OrphansKept
<1>6. ASSUME NEW i \in Ids
      PROVE  Counted(i)'
  <2>1. Counted(i) /\ CountedRow(i) /\ Key(i) \in Keys
    BY CountRows, CountTypes DEF CountInv
  <2>2. /\ Count(i)' = messages'[Key(i)].occurrence_count
        /\ (Resolved(Key(i))' <=> messages'[Key(i)].stored /\ messages'[Key(i)].resolved)
        /\ (Fetchable(i)' <=> Fetchable(i))
    BY <1>1, <1>4 DEF Count, Resolved, Fetchable, Older
  <2>3. CASE i \in Seen
    <3>1. collector'.phase = "resolve" => i \in Seen'
      BY <1>4, <2>3 DEF Seen
    <3>2. i \notin missed => Uncounted(i)'
      BY <1>4, <2>1, <2>2, <2>3, <3>1 DEF CountedRow, Uncounted
    <3>3. Dated(i)'
      BY <1>1, <1>4, <2>1, <2>3 DEF CountedRow, Counted, Dated, Recurs
    <3>4. alert[i].raises >= 1
      BY <1>2, <2>1, <2>3 DEF Counted
    <3> QED BY <1>1, <1>4, <2>1, <2>2, <2>3, <3>2, <3>3, <3>4 DEF CountedRow, Counted
  <2>4. CASE i \notin Seen
    <3>1. /\ messages'[Key(i)].stored = messages[Key(i)].stored
          /\ messages'[Key(i)].opened = messages[Key(i)].opened
          /\ messages'[Key(i)].occurrence_count = Count(i)
      BY <2>1, <2>4, ClosedRow DEF CountedRow, Count
    <3>2. Resolved(Key(i))' => Resolved(Key(i)) \/ (messages[Key(i)].stored /\ Ok)
      BY <2>1, <2>2, <2>4, <3>1 DEF CountedRow, Resolved
    <3>3. i \notin missed /\ Resolved(Key(i))' /\ Fetchable(i)' => Count(i) < alert[i].raises
      BY <1>2, <2>1, <2>2, <2>4, <3>2 DEF Counted, Uncounted, Ok
    <3>4. i \notin missed /\ collector'.phase = "resolve" /\ collector'.fetch.fetch_ok
          /\ messages'[Key(i)].stored /\ Fetchable(i)' => Count(i) < alert[i].raises
      BY <1>2, <1>4, <2>1, <2>2, <2>4, <3>1 DEF Counted, Uncounted
    <3>5. i \notin missed => Uncounted(i)'
      BY <1>1, <1>4, <2>2, <3>1, <3>3, <3>4 DEF Uncounted
    <3>6. Dated(i)'
      BY <1>1, <1>4, <2>1, <3>1 DEF Counted, Dated, Recurs
    <3> QED BY <1>1, <1>4, <2>1, <2>2, <3>1, <3>5, <3>6 DEF Counted
  <2> QED BY <2>3, <2>4
<1> QED BY <1>5, <1>6 DEF CountInv


\* Rows closed after the upsert are those the fetch lacked, or for NetApp those too old
\* to be fetched again.
LEMMA CountResolve ==
    ASSUME TypeOK, TypeOK', FetchInv, CountInv, ResolveAbsent \/ ResolveAged
    PROVE  CountInv'
<1>1. \A i : Key(i) = Key(i)'
  BY KeySteady DEF ResolveAbsent, ResolveAged
<1>2. /\ UNCHANGED <<vendor, now, alert, missed>> /\ collector'.phase = "push"
  BY DEF ResolveAbsent, ResolveAged, GoTo, TypeOK
<1>3. \A k \in Keys : \/ messages'[k] = messages[k]
                      \/ /\ messages[k].stored
                         /\ messages'[k] = [messages[k] EXCEPT !.resolved = TRUE]
  BY DEF ResolveAbsent, ResolveAged, AbsentResolved, Open
<1>4. OrphansCounted'
  <2>1. \A i \in Ids : alert'[i].raises >= alert[i].raises
    BY <1>2, CountTypes
  <2>2. \A k \in Keys : messages'[k].occurrence_count = messages[k].occurrence_count
    BY <1>3, ClosedRow
  <2>3. UNCHANGED seed
    BY DEF ResolveAbsent, ResolveAged
  <2> QED BY <1>2, <2>1, <2>2, <2>3, OrphansKept
<1>5. ASSUME NEW i \in Ids
      PROVE  Counted(i)'
  <2>1. Counted(i) /\ Key(i) \in Keys
    BY CountTypes DEF CountInv
  <2>2. /\ messages'[Key(i)].stored = messages[Key(i)].stored
        /\ messages'[Key(i)].opened = messages[Key(i)].opened
        /\ messages'[Key(i)].occurrence_count = Count(i)
    BY <1>3, <2>1, ClosedRow DEF Count
  <2>3. /\ Count(i)' = messages'[Key(i)].occurrence_count
        /\ (Resolved(Key(i))' <=> messages'[Key(i)].stored /\ messages'[Key(i)].resolved)
        /\ (Fetchable(i)' <=> Fetchable(i))
    BY <1>1, <1>2 DEF Count, Resolved, Fetchable, Older
  <2>4. CASE messages'[Key(i)] = messages[Key(i)]
    <3>1. Resolved(Key(i))' <=> Resolved(Key(i))
      BY <2>3, <2>4 DEF Resolved
    <3>2. i \notin missed => Uncounted(i)'
      BY <1>2, <2>1, <2>2, <2>3, <3>1 DEF Counted, Uncounted
    <3>3. Dated(i)'
      BY <1>1, <1>2, <2>1, <2>2 DEF Counted, Dated, Recurs
    <3> QED BY <1>1, <1>2, <2>1, <2>2, <2>3, <3>2, <3>3 DEF Counted
  <2>5. CASE messages'[Key(i)] # messages[Key(i)]
    <3>1. messages[Key(i)].stored
      BY <1>3, <2>1, <2>5
    <3>2. i \notin missed /\ Fetchable(i) => Count(i) < alert[i].raises
      <4>1. CASE ResolveAbsent
        <5>1. collector.phase = "resolve" /\ collector.fetch.fetch_ok
          BY <4>1 DEF ResolveAbsent, FetchInv
        <5>2. i \notin Seen
          BY <2>1, <2>5, <4>1, SeenBySeenKey DEF ResolveAbsent, AbsentResolved
        <5> QED BY <2>1, <3>1, <5>1, <5>2 DEF Counted, Uncounted
      <4>2. CASE ResolveAged
        <5>1. vendor = "netapp"
          BY <4>2 DEF ResolveAged, FetchInv
        <5>2. Older(messages[Key(i)].opened, ResolveAge)
          BY <2>1, <2>5, <4>2 DEF ResolveAged
        <5>3. messages[Key(i)].opened = alert[i].opened
          BY <2>1, <3>1, <5>1 DEF Counted, Dated
        <5>4. Older(alert[i].opened, FetchAge)
          BY <5>2, <5>3, CountTypes, ConstantsAssumption DEF Older
        <5> QED BY <5>1, <5>4 DEF Fetchable
      <4> QED BY <4>1, <4>2
    <3>3. i \notin missed => Uncounted(i)'
      BY <1>2, <2>2, <2>3, <3>2 DEF Uncounted
    <3>4. Dated(i)'
      BY <1>1, <1>2, <2>1, <2>2 DEF Counted, Dated, Recurs
    <3> QED BY <1>1, <1>2, <2>1, <2>2, <2>3, <3>3, <3>4 DEF Counted
  <2> QED BY <2>4, <2>5
<1> QED BY <1>4, <1>5 DEF CountInv

\* A row that is purged counts from the start again.
LEMMA CountPurge ==
    ASSUME TypeOK, TypeOK', CountInv, AlertCleanup
    PROVE  CountInv'
<1>1. \A i : Key(i) = Key(i)'
  BY KeySteady DEF AlertCleanup
<1>2. UNCHANGED <<vendor, now, alert, collector, missed>>
  BY DEF AlertCleanup
<1>3. \A k \in Keys : messages'[k] = messages[k] \/ messages'[k] = NoRow
  BY DEF AlertCleanup
<1>4. OrphansCounted'
  <2>1. \A i \in Ids : alert'[i].raises >= alert[i].raises
    BY <1>2, CountTypes
  <2>2. \A k \in Keys : \/ messages'[k].occurrence_count = messages[k].occurrence_count
                       \/ messages'[k] = NoRow
    BY <1>3
  <2>3. UNCHANGED seed
    BY DEF AlertCleanup
  <2> QED BY <1>2, <2>1, <2>2, <2>3, OrphansKept
<1>5. ASSUME NEW i \in Ids
      PROVE  Counted(i)'
  <2>1. Counted(i) /\ Key(i) \in Keys /\ alert[i].raises \in Nat
    BY CountTypes DEF CountInv
  <2>2. /\ Count(i)' = messages'[Key(i)].occurrence_count
        /\ (Resolved(Key(i))' <=> messages'[Key(i)].stored /\ messages'[Key(i)].resolved)
        /\ (Fetchable(i)' <=> Fetchable(i)) /\ Seen' = Seen
    BY <1>1, <1>2 DEF Count, Resolved, Fetchable, Older, Seen
  <2>3. CASE messages'[Key(i)] = messages[Key(i)]
    <3>1. Count(i)' = Count(i) /\ (Resolved(Key(i))' <=> Resolved(Key(i)))
      BY <2>2, <2>3 DEF Count, Resolved
    <3>2. i \notin missed => Uncounted(i)'
      BY <1>1, <1>2, <2>1, <2>2, <2>3, <3>1 DEF Counted, Uncounted
    <3>3. Dated(i)'
      BY <1>1, <1>2, <2>1, <2>3 DEF Counted, Dated, Recurs
    <3> QED BY <1>1, <1>2, <2>1, <2>2, <2>3, <3>1, <3>2, <3>3 DEF Counted
  <2>4. CASE messages'[Key(i)] = NoRow
    <3>1. ~messages'[Key(i)].stored /\ Count(i)' = 0 /\ ~Resolved(Key(i))'
      BY <2>2, <2>4 DEF NoRow
    <3>2. i \notin missed => Uncounted(i)'
      BY <1>1, <1>2, <2>1, <2>2, <3>1 DEF Counted, Uncounted
    <3>3. Dated(i)'
      BY <1>1, <1>2, <2>1, <3>1 DEF Counted, Dated, Recurs
    <3> QED BY <1>1, <1>2, <2>1, <2>2, <3>1, <3>2, <3>3 DEF Counted
  <2> QED BY <1>3, <2>1, <2>3, <2>4
<1> QED BY <1>4, <1>5 DEF CountInv

\* No process hashes as an earlier one did whose rows are still there: PYTHONHASHSEED is
\* pinned, message_id is no hash, or the seed is drawn anew and differs.
FreshKeys == \A i \in Ids : Key(i)' # Key(i) => ~messages[Key(i)'].stored

\* A restart that renames the alerts starts counting in rows that do not exist yet.
LEMMA CountCrash ==
    ASSUME TypeOK, TypeOK', RowsBlank, CountInv, FreshKeys, Crash
    PROVE  CountInv'
<1>1. UNCHANGED <<messages, alert, vendor, now, missed>>
  BY DEF Crash
<1>2. collector'.phase = "idle"
  BY DEF Crash, Idle
<1>3. ASSUME NEW i \in Ids
      PROVE  Counted(i)'
  <2>1. Counted(i) /\ alert[i].raises \in Nat /\ Key(i)' \in Keys
    <3>1. Key(i)' \in Keys
      BY KeyInKeysNext
    <3> QED BY <3>1, CountTypes DEF CountInv
  <2>2. CASE Key(i)' = Key(i)
    <3>1. Count(i)' = Count(i) /\ (Resolved(Key(i))' <=> Resolved(Key(i)))
      BY <1>1, <2>2 DEF Count, Resolved
    <3>2. i \notin missed => Uncounted(i)'
      BY <1>1, <1>2, <2>1, <3>1 DEF Counted, Uncounted, Fetchable, Older
    <3>3. Dated(i)'
      BY <1>1, <1>2, <2>1, <2>2 DEF Counted, Dated, Recurs
    <3> QED BY <1>1, <1>2, <2>1, <2>2, <3>1, <3>2, <3>3 DEF Counted
  <2>3. CASE Key(i)' # Key(i)
    <3>1. ~messages'[Key(i)'].stored /\ messages'[Key(i)'] = NoRow
      BY <1>1, <2>1, <2>3 DEF FreshKeys, RowsBlank
    <3>2. Count(i)' = 0 /\ ~Resolved(Key(i))'
      BY <3>1 DEF Count, Resolved, NoRow
    <3>3. Uncounted(i)'
      BY <1>2, <3>1, <3>2 DEF Uncounted
    <3>4. Dated(i)'
      BY <1>1, <1>2, <2>1, <3>1 DEF Counted, Dated, Recurs
    <3> QED BY <1>1, <1>2, <2>1, <3>1, <3>2, <3>3, <3>4 DEF Counted
  <2> QED BY <2>2, <2>3
<1>4. ASSUME NEW k \in Keys, k[1] \notin missed
      PROVE  messages[k].occurrence_count <= alert[k[1]].raises
  <2>1. k[1] \in Ids
    BY DEF Keys
  <2> QED BY <1>4, <2>1 DEF CountInv, OrphansCounted, Orphaned, Counted, Count
<1>5. OrphansCounted'
  BY <1>1, <1>4 DEF OrphansCounted
<1> QED BY <1>3, <1>5 DEF CountInv

\* Every step counts rightly.
LEMMA CountStep ==
    ASSUME TrackInv, TypeOK', FetchInv, CountInv, FreshKeys, [Next]_vars
    PROVE  CountInv'
<1> USE DEF TrackInv
<1>1. vendor' = vendor /\ (seed' = seed \/ Crash) /\ (missed' = missed \/ Collect)
  BY DEF Next, Cycle, vars, Raise, Clear, Tick, Collect, Save, PureSave, HpeSave, HitachiSave,
         DellSave, OracleSave, StorageGridSave, NetAppSave, CommitSave, SaveFails,
         ResolveAbsent, ResolveAged, ResolveFails, PushQuery, PushQueryFails, PushDone,
         ClearFlag, ClearFlagFails, Dispatch, PageDone, Stamp, StampFails, TeamsDone, Mark,
         MarkFails, PushOk, PushUnacked, PushRefused, PageSkipped, Page, PageBlind, Deliver,
         PageUnacked, PageRefused, Teams, TeamsFails, AlertCleanup, Crash
<1>3. CASE \E i \in Ids : Raise(i)
  BY <1>3, CountRaise
<1>4. CASE Tick \/ \E i \in Ids : Clear(i)
  BY <1>4, CountAge
<1>5. CASE Collect
  BY <1>5, CountCollect
<1>6. CASE Save
  BY <1>6, CountSave
<1>7. CASE ResolveAbsent \/ ResolveAged
  BY <1>7, CountResolve
<1>8. CASE AlertCleanup
  BY <1>8, CountPurge
<1>9. CASE UNCHANGED vars
  <2>1. \A i : Key(i) = Key(i)'
    BY <1>9, KeySteady DEF vars
  <2> QED BY <1>9, <2>1
      DEF vars, CountInv, OrphansCounted, Orphaned, Counted, Uncounted, Dated, Count,
          Resolved, Fetchable,
          Older, Recurs, Seen
<1>15. CASE Crash
  BY <1>15, CountCrash
<1>10. CASE \/ SaveFails \/ TeamsDone \/ ResolveFails \/ PushQueryFails \/ PushDone
            \/ MarkFails
  <2>1. UNCHANGED <<messages, now, alert, seed, missed>>
    BY <1>10 DEF SaveFails, TeamsDone, ResolveFails, PushQueryFails, PushDone, MarkFails
  <2>2. \A p \in {"push", "idle", "dispatch"} : GoTo(p).phase = p
    BY DEF GoTo, Idle, TypeOK
  <2>3. collector'.phase \in {"idle", "age", "push", "dispatch", "teams"}
    <3>1. CASE SaveFails \/ TeamsDone
      <4>1. collector' = Idle \/ collector' = [Idle EXCEPT !.phase = "age"]
        BY <3>1 DEF SaveFails, TeamsDone
      <4> QED BY <4>1 DEF Idle
    <3>2. CASE ResolveFails \/ PushQueryFails \/ PushDone
      <4>1. \E p \in {"push", "idle", "dispatch"} : collector' = GoTo(p)
        BY <3>2 DEF ResolveFails, PushQueryFails, PushDone, AfterPush
      <4> QED BY <4>1, <2>2
    <3>3. CASE MarkFails
      <4>1. collector' = Idle \/ collector' = [collector EXCEPT !.phase = "teams", !.cur = {}]
        BY <3>3 DEF MarkFails
      <4>2. [collector EXCEPT !.phase = "teams", !.cur = {}].phase = "teams"
        BY DEF TypeOK
      <4>3. Idle.phase = "idle"
        BY DEF Idle
      <4>4. CASE collector' = Idle
        BY <4>3, <4>4
      <4>5. CASE collector' = [collector EXCEPT !.phase = "teams", !.cur = {}]
        BY <4>2, <4>5
      <4> QED BY <4>1, <4>4, <4>5
    <3> QED BY <1>10, <3>1, <3>2, <3>3
  <2> QED BY <1>1, <2>1, <2>3, CountSame DEF SameCounts
<1>11. CASE PushQuery \/ ClearFlagFails \/ Dispatch \/ PageDone \/ StampFails
  <2>1. /\ UNCHANGED <<messages, now, alert, seed, missed>>
        /\ collector'.phase \in {"pushing", "page", "teams"}
    BY <1>11 DEF PushQuery, ClearFlagFails, Dispatch, PageDone, StampFails, TypeOK
  <2> QED BY <1>1, <2>1, CountSame DEF SameCounts
<1>12. CASE ClearFlag \/ Stamp \/ Mark
  <2>1. PICK j \in Keys, field \in {"teams_notified", "datadog_notified"}, v \in BOOLEAN :
          messages' = Set(j, field, v)
    <3>1. collector.cur \subseteq Keys
      BY DEF TypeOK
    <3> QED BY <1>12, <3>1 DEF ClearFlag, Stamp, Mark
  <2>2. UNCHANGED <<now, alert, seed, missed>> /\ collector'.phase \in {"pushing", "page", "teams"}
    BY <1>12 DEF ClearFlag, Stamp, Mark, TypeOK
  <2>3. \A k \in Keys : SameCounts(k)
    BY <2>1, SetKeepsCounts
  <2> QED BY <1>1, <2>2, <2>3, CountSame
<1>13. ASSUME NEW k \in Keys,
              \/ PushOk(k) \/ PushUnacked(k) \/ PushRefused(k) \/ PageSkipped(k)
              \/ Deliver(k) /\ UNCHANGED messages
              \/ PageUnacked(k) \/ PageRefused(k) \/ Teams(k) \/ TeamsFails(k)
       PROVE  CountInv'
  <2>1. /\ UNCHANGED <<messages, now, alert, seed, missed>>
        /\ collector'.phase \in {"pushing", "clear", "page", "stamp", "teams", "mark"}
    BY <1>13 DEF PushOk, PushUnacked, PushRefused, PageSkipped, Deliver, PageUnacked,
                 PageRefused, Teams, TeamsFails, Taken, TypeOK
  <2> QED BY <1>1, <2>1, CountSame DEF SameCounts
<1>14. \A k \in Keys : Page(k) \/ PageBlind(k) => Deliver(k) /\ UNCHANGED messages
  BY DEF Page, PageBlind, Deliver
<1> QED BY <1>3, <1>4, <1>5, <1>6, <1>7, <1>8, <1>9, <1>10, <1>11, <1>12, <1>13, <1>14,
           <1>15
        DEF Next, Cycle

\* While no process hashes as an earlier one did, occurrences are counted rightly.
LEMMA CountInvariant == Spec /\ [][FreshKeys]_vars => []CountInv
<1>1. Init => CountInv
  <2> SUFFICES ASSUME Init
               PROVE  CountInv
    OBVIOUS
  <2>1. TypeOK
    BY InitType
  <2>2. \A k \in Keys : messages[k] = NoRow
    BY DEF Init
  <2>3. ASSUME NEW i \in Ids
        PROVE  Counted(i)
    <3>1. Key(i) \in Keys /\ messages[Key(i)] = NoRow
      BY <2>1, <2>2, KeyInKeys
    <3>2. ~messages[Key(i)].stored /\ Count(i) = 0
      BY <3>1 DEF NoRow, Count
    <3>3. alert[i].up = FALSE /\ alert[i].raises = 0 /\ collector.phase = "idle"
      BY DEF Init, Idle
    <3> QED BY <3>2, <3>3 DEF Counted, Uncounted, Dated, Resolved
  <2>4. OrphansCounted
    <3>1. \A k \in Keys : messages[k].occurrence_count = 0 /\ alert[k[1]].raises = 0
      BY <2>2 DEF Init, NoRow, Keys
    <3> QED BY <3>1 DEF OrphansCounted
  <2> QED BY <2>3, <2>4 DEF CountInv
<1>2. TrackInv /\ TrackInv' /\ FetchInv /\ CountInv /\ [Next]_vars
         /\ [FreshKeys]_vars => CountInv'
  <2> SUFFICES ASSUME TrackInv, TrackInv', FetchInv, CountInv,
                      [Next]_vars, [FreshKeys]_vars
               PROVE  CountInv'
    OBVIOUS
  <2>1. FreshKeys
    BY KeySteady DEF FreshKeys, vars
  <2> QED BY <2>1, CountStep DEF TrackInv
<1> QED BY <1>1, <1>2, FetchInvariant, PTL DEF Spec

\* Then no row counts more occurrences than the array raised its alert.
LEMMA CountsBelowRises ==
    ASSUME CountInv, NEW k \in Keys, k[1] \notin missed
    PROVE  messages[k].occurrence_count <= alert[k[1]].raises
<1>1. k[1] \in Ids
  BY DEF Keys
<1> QED BY <1>1 DEF CountInv, Counted, Count, OrphansCounted, Orphaned

\* So, however often the collector restarts, a failed poll, a failed transaction or a purge
\* is never counted as a recurrence; only an answer that left the alert out may be.
THEOREM FreshKeysCountGenuinely == Spec /\ [][FreshKeys]_vars => []OccurrenceGenuine
<1>1. CountInv => OccurrenceGenuine
  BY CountsBelowRises DEF OccurrenceGenuine
<1> QED BY <1>1, CountInvariant, PTL

\* Before the first restart every row bears the first seed.
FirstSeed == restarts = 0 => seed = 0 /\ \A k \in Keys : messages[k].stored => k[2] = 0

\* A step stores rows only under the seed of the process.
LEMMA StoredUnderSeed ==
    ASSUME TypeOK, [Next]_vars, NEW k \in Keys, messages'[k].stored
    PROVE  messages[k].stored \/ k[2] \in {0, seed}
<1>1. CASE Save
  <2>1. k \in SeenKeys => k[2] \in {0, seed}
    BY DEF SeenKeys, Key
  <2>2. k \notin SeenKeys /\ ~messages[k].stored => ~messages'[k].stored
    BY <1>1 DEF Save, PureSave, HpeSave, HitachiSave, DellSave, OracleSave,
       StorageGridSave, NetAppSave, CommitSave, AbsentResolved, UpsertedReopening,
       UpsertedKeeping
  <2> QED BY <2>1, <2>2
<1>2. CASE ResolveAbsent \/ ResolveAged
  BY <1>2 DEF ResolveAbsent, ResolveAged, AbsentResolved, Open
<1>3. CASE ClearFlag \/ Stamp \/ Mark
  <2>1. PICK j \in Keys, field \in {"teams_notified", "datadog_notified"}, v \in BOOLEAN :
          messages' = Set(j, field, v)
    <3>1. collector.cur \subseteq Keys
      BY DEF TypeOK
    <3> QED BY <1>3, <3>1 DEF ClearFlag, Stamp, Mark
  <2> QED BY <2>1, SetKeepsCounts DEF SameCounts
<1>4. CASE AlertCleanup
  BY <1>4 DEF AlertCleanup, NoRow
<1>5. CASE UNCHANGED messages
  BY <1>5
<1> QED BY <1>1, <1>2, <1>3, <1>4, <1>5
    DEF Next, Cycle, vars, Raise, Clear, Tick, Collect, SaveFails, ResolveFails,
        PushQuery, PushQueryFails, PushDone, ClearFlagFails, Dispatch, PageDone,
        StampFails, TeamsDone, MarkFails, PushOk, PushUnacked, PushRefused, PageSkipped,
        Page, PageBlind, Deliver, PageUnacked, PageRefused, Teams, TeamsFails, Crash

\* Every step but a restart leaves the count of restarts, and the seed, alone.
LEMMA RestartsCounted ==
    ASSUME TypeOK, [Next]_vars
    PROVE  \/ UNCHANGED <<vendor, seed, restarts>>
           \/ /\ Crash
              /\ UNCHANGED <<vendor, messages>>
              /\ restarts < MaxRestarts /\ restarts' = restarts + 1
BY DEF Next, Cycle, vars, Raise, Clear, Tick, Collect, Save, PureSave, HpeSave, HitachiSave,
       DellSave, OracleSave, StorageGridSave, NetAppSave, CommitSave, SaveFails,
       ResolveAbsent, ResolveAged, ResolveFails, PushQuery, PushQueryFails, PushDone,
       ClearFlag, ClearFlagFails, Dispatch, PageDone, Stamp, StampFails, TeamsDone, Mark,
       MarkFails, PushOk, PushUnacked, PushRefused, PageSkipped, Page, PageBlind, Deliver,
       PageUnacked, PageRefused, Teams, TeamsFails, AlertCleanup, Crash

LEMMA FirstSeedStep ==
    ASSUME TypeOK, FirstSeed, [Next]_vars
    PROVE  FirstSeed'
<1>1. CASE UNCHANGED <<vendor, seed, restarts>>
  <2> SUFFICES ASSUME restarts = 0
               PROVE  seed' = 0 /\ \A k \in Keys : messages'[k].stored => k[2] = 0
    BY <1>1 DEF FirstSeed
  <2>1. seed = 0 /\ \A k \in Keys : messages[k].stored => k[2] = 0
    BY DEF FirstSeed
  <2>2. ASSUME NEW k \in Keys, messages'[k].stored
        PROVE  k[2] = 0
    BY <2>1, <2>2, StoredUnderSeed
  <2> QED BY <1>1, <2>1, <2>2
<1>2. CASE restarts' = restarts + 1
  BY <1>2 DEF FirstSeed, TypeOK
<1> QED BY <1>1, <1>2, RestartsCounted

\* PYTHONHASHSEED pinned, or none of the vendors hashes.
SteadyKeys == Seeds = {0} \/ Vendors \cap Hashed = {}

\* Keys are fresh if they never change, and up to the end of the second process, whatever
\* seed that draws.
FewKeys == SteadyKeys \/ MaxRestarts <= 1 \/ "crash" \notin Faults

LEMMA KeysAreFresh ==
    ASSUME FewKeys
    PROVE  Spec => [][FreshKeys]_vars
<1>1. Init => FirstSeed
  <2>1. ~NoRow.stored
    BY DEF NoRow
  <2> QED BY <2>1 DEF Init, FirstSeed
<1>2. TrackInv /\ FirstSeed /\ [Next]_vars => FirstSeed'
  BY FirstSeedStep DEF TrackInv
<1>3. TrackInv /\ TrackInv' /\ FirstSeed /\ [Next]_vars => [FreshKeys]_vars
  <2> SUFFICES ASSUME TypeOK, TypeOK', FirstSeed, [Next]_vars, NEW i \in Ids,
                      Key(i)' # Key(i)
               PROVE  ~messages[Key(i)'].stored
    BY DEF TrackInv, FreshKeys
  <2>1. Crash /\ restarts < MaxRestarts /\ vendor' = vendor
    BY RestartsCounted, KeySteady
  <2>2. vendor \in Hashed /\ seed' # seed
    BY <2>1 DEF Key
  <2>3. ~SteadyKeys /\ "crash" \in Faults
    BY <2>1, <2>2 DEF SteadyKeys, TypeOK, Crash
  <2>4. restarts = 0
    BY <2>1, <2>3, ConstantsAssumption DEF TypeOK, FewKeys
  <2>5. Key(i)' = <<i, seed'>> /\ seed' # 0 /\ Key(i)' \in Keys
    BY <2>1, <2>2, <2>4, KeyInKeysNext DEF Key, FirstSeed
  <2> QED BY <2>4, <2>5 DEF FirstSeed
<1> QED BY <1>1, <1>2, <1>3, FetchInvariant, PTL DEF Spec

\* Then counts are genuine without further assumption.
THEOREM RecurrencesAreGenuine ==
    ASSUME FewKeys
    PROVE  Spec => []OccurrenceGenuine
BY KeysAreFresh, FreshKeysCountGenuinely, PTL

(***************************************************************************)
(* The ledger: what is paged or told is open, what is settled is not.      *)
(***************************************************************************)

Announcing == {"page", "stamp", "teams", "mark"}
Settling == {"pushing", "clear"}
Holding == {"stamp", "clear", "mark"}

\* What a cycle read of the rows many steps before it uses it.
ListInv ==
    /\ \A m \in collector.new_alerts : Open(Key(m.id))
    /\ collector.phase = "resolve" =>
           collector.new_alerts \subseteq collector.fetch.messages
    /\ collector.phase = "age" => collector.new_alerts = {}
    /\ collector.phase \in Announcing =>
           \A k \in collector.todo \cup collector.cur : Open(k)
    /\ collector.phase \in Settling =>
           \A k \in collector.todo \cup collector.cur : ~Open(k)
    /\ collector.phase = "stamp" => \A k \in collector.cur : datadog[k] = "open"
    /\ collector.phase \notin Holding => collector.cur = {}

\* A NetApp event is raised once and its row closed by age only, so a closed row is older
\* than anything a request still returns.
AgedRow(k) ==
    messages[k].stored =>
        /\ alert[k[1]].raises >= 1 /\ messages[k].opened = alert[k[1]].opened
        /\ messages[k].resolved => Older(messages[k].opened, ResolveAge)

AgedInv ==
    vendor = "netapp" =>
        /\ collector.phase # "resolve"
        /\ \A i \in Ids : alert[i].up => alert[i].raises >= 1
        /\ \A k \in Keys : AgedRow(k)
        /\ \A m \in collector.fetch.messages :
              /\ alert[m.id].raises >= 1 /\ m.opened = alert[m.id].opened
              /\ collector.phase = "save" => ~Resolved(Key(m.id))

LedgerInv == TrackInv /\ FetchInv /\ ListInv /\ AgedInv

\* A thread that has nothing on its lists.
LEMMA ListEmpty ==
    ASSUME collector'.new_alerts = {}, collector'.todo = {}, collector'.cur = {}
    PROVE  ListInv'
BY DEF ListInv

LEMMA IdleLists ==
    /\ Idle.new_alerts = {} /\ Idle.todo = {} /\ Idle.cur = {} /\ Idle.phase = "idle"
    /\ Idle.fetch = NoFetch /\ NoFetch.messages = {}
BY DEF Idle, NoFetch, Failed

\* The step closes and opens no row, and the process stays the same.
SameOpen == (\A k \in Keys : Open(k)' <=> Open(k)) /\ UNCHANGED <<vendor, seed>>

LEMMA NewAlertsStayOpen ==
    ASSUME TypeOK, ListInv, SameOpen, collector'.new_alerts \subseteq collector.new_alerts
    PROVE  \A m \in collector'.new_alerts : Open(Key(m.id))'
<1>1. ASSUME NEW m \in collector.new_alerts
      PROVE  Key(m.id) \in Keys /\ Key(m.id)' = Key(m.id) /\ Open(Key(m.id))
  <2>1. m.id \in Ids
    BY DEF TypeOK, Messages
  <2> QED BY <2>1, KeyInKeys DEF ListInv, SameOpen, Key
<1>2. \A k \in Keys : Open(k)' <=> Open(k)
  BY DEF SameOpen
<1>3. ASSUME NEW m \in collector'.new_alerts
      PROVE  Open(Key(m.id))'
  <2>1. Key(m.id) \in Keys /\ Key(m.id)' = Key(m.id) /\ Open(Key(m.id))
    BY <1>1
  <2> DEFINE k == Key(m.id)
  <2>2. Open(k)' 
    BY <1>2, <2>1
  <2> QED BY <2>1, <2>2 DEF Open
<1> QED BY <1>3

\* A thread that goes on in the same loop, with no more on its lists.
LEMMA ListShrinks ==
    ASSUME TypeOK, ListInv, SameOpen,
           collector'.new_alerts = collector.new_alerts,
           collector'.todo \cup collector'.cur \subseteq collector.todo \cup collector.cur,
           \/ collector.phase \in Announcing /\ collector'.phase \in Announcing
           \/ collector.phase \in Settling /\ collector'.phase \in Settling,
           collector'.phase = "stamp" => \A k \in collector'.cur : datadog'[k] = "open",
           collector'.phase \notin Holding => collector'.cur = {}
    PROVE  ListInv'
<1>1. \A m \in collector'.new_alerts : Open(Key(m.id))'
  BY NewAlertsStayOpen
<1>2. \A k \in collector.todo \cup collector.cur : k \in Keys
  BY DEF TypeOK
<1>3. collector'.phase \in Announcing =>
         \A k \in collector'.todo \cup collector'.cur : Open(k)'
  BY <1>2 DEF ListInv, SameOpen, Announcing, Settling
<1>4. collector'.phase \in Settling =>
         \A k \in collector'.todo \cup collector'.cur : ~Open(k)'
  BY <1>2 DEF ListInv, SameOpen, Announcing, Settling
<1> QED BY <1>1, <1>3, <1>4 DEF ListInv, Announcing, Settling, Holding

\* A thread between its loops, which keeps the list of alerts to announce.
LEMMA ListWaits ==
    ASSUME \A m \in collector'.new_alerts : Open(Key(m.id))',
           collector'.phase \in {"idle", "push", "dispatch"}, collector'.cur = {}
    PROVE  ListInv'
BY DEF ListInv, Announcing, Settling, Holding

\* What goes on at another phase of save() keeps that list too, or has none.
LEMMA GoToLists ==
    ASSUME TypeOK, NEW p, collector' = GoTo(p)
    PROVE  /\ collector'.phase = p /\ collector'.cur = {}
           /\ collector'.new_alerts \subseteq collector.new_alerts
BY DEF GoTo, Idle, TypeOK

\* Taking a key off the list, and holding it for the step after a POST.
LEMMA TakenLists ==
    ASSUME TypeOK, NEW k \in collector.todo, NEW p,
           \/ collector' = Taken(k) /\ p = collector.phase
           \/ collector' = [Taken(k) EXCEPT !.phase = p, !.cur = {k}]
    PROVE  /\ collector'.phase = p
           /\ collector'.new_alerts = collector.new_alerts
           /\ collector'.fetch = collector.fetch
           /\ collector'.todo \subseteq collector.todo
           /\ collector'.cur = collector.cur \/ collector'.cur \subseteq collector.todo
<1> DEFINE t == [collector EXCEPT !.todo = @ \ {k}]
<1>1. /\ t.phase = collector.phase /\ t.new_alerts = collector.new_alerts
      /\ t.fetch = collector.fetch /\ t.cur = collector.cur
      /\ t.todo = collector.todo \ {k} /\ t = Taken(k)
  BY DEF Taken, TypeOK
<1>2. CASE collector' = Taken(k) /\ p = collector.phase
  BY <1>1, <1>2
<1>3. CASE collector' = [Taken(k) EXCEPT !.phase = p, !.cur = {k}]
  <2>1. /\ collector'.phase = p /\ collector'.new_alerts = t.new_alerts
        /\ collector'.fetch = t.fetch /\ collector'.todo = t.todo /\ collector'.cur = {k}
    BY <1>3 DEF Taken, TypeOK
  <2> QED BY <1>1, <2>1
<1> QED BY <1>2, <1>3

\* Setting a notification column opens and closes nothing.
LEMMA SetKeepsOpen ==
    ASSUME TypeOK, UNCHANGED <<vendor, seed>>,
           NEW j \in Keys, NEW field \in {"teams_notified", "datadog_notified"},
           NEW v \in BOOLEAN, messages' = Set(j, field, v)
    PROVE  SameOpen
BY SetKeepsCounts DEF SameCounts, SameOpen, Open

\* A row upserted by a vendor that reopens is open; by NetApp's, it is too, because what
\* is still fetched is not closed.
LEMMA UpsertedOpen ==
    ASSUME TypeOK, RowsBlank, AgedInv, collector.phase = "save", NEW i \in Seen,
           \/ messages'[Key(i)] = Upserted(Key(i), FALSE)
           \/ /\ vendor = "netapp"
              /\ messages'[Key(i)] = Upserted(Key(i), messages[Key(i)].resolved)
    PROVE  messages'[Key(i)].stored /\ ~messages'[Key(i)].resolved
<1> DEFINE k == Key(i)
<1>1. i \in Ids /\ k \in SeenKeys
  BY DEF Seen, SeenKeys, TypeOK, Fetch, Messages
<1>2. k \in Keys /\ messages[k].resolved \in BOOLEAN
  BY <1>1, KeyInKeys DEF TypeOK, Row
<1> HIDE DEF k
<1>3. Upserted(k, FALSE).stored /\ Upserted(k, messages[k].resolved).stored
  BY <1>1, <1>2, UpsertedRow
<1>4. ~Upserted(k, FALSE).resolved
  BY <1>2, UpsertedResolved
<1>5. vendor = "netapp" => ~Upserted(k, messages[k].resolved).resolved
  <2>1. vendor = "netapp" => ~Resolved(k)
    BY DEF AgedInv, Seen, k
  <2> QED BY <1>2, <2>1, UpsertedResolved DEF Resolved
<1> QED BY <1>3, <1>4, <1>5 DEF k

\* The upsert: what it will announce it has just opened.
LEMMA ListSave ==
    ASSUME TypeOK, RowsBlank, AgedInv, ListInv, Save
    PROVE  ListInv'
<1>1. collector.phase = "save" /\ UNCHANGED <<vendor, seed>>
  BY DEF Save, PureSave, HpeSave, HitachiSave, DellSave, OracleSave, StorageGridSave,
         NetAppSave, CommitSave
<1>2. PICK recent \in BOOLEAN, next \in {"resolve", "push", "dispatch"} :
         /\ collector'.phase = next /\ collector'.new_alerts = NewAlerts(recent)
         /\ collector'.cur = collector.cur
         /\ next = "resolve" => collector'.fetch = collector.fetch
  BY DEF Save, PureSave, HpeSave, HitachiSave, DellSave, OracleSave, StorageGridSave,
         NetAppSave, CommitSave, TypeOK
<1>3. ASSUME NEW i \in Seen
      PROVE  \/ messages'[Key(i)] = Upserted(Key(i), FALSE)
             \/ /\ vendor = "netapp"
                /\ messages'[Key(i)] = Upserted(Key(i), messages[Key(i)].resolved)
  <2> DEFINE k == Key(i)
  <2>1. k \in SeenKeys /\ k \in Keys
    BY SeenKeyIsSeen DEF SeenKeys
  <2> HIDE DEF k
  <2>2. UpsertedReopening[k] = Upserted(k, FALSE)
        /\ AbsentResolved(UpsertedReopening)[k] = Upserted(k, FALSE)
        /\ UpsertedKeeping[k] = Upserted(k, messages[k].resolved)
    BY <2>1 DEF UpsertedReopening, AbsentResolved, UpsertedKeeping
  <2>3. \/ messages' = UpsertedReopening \/ messages' = AbsentResolved(UpsertedReopening)
        \/ vendor = "netapp" /\ messages' = UpsertedKeeping
    BY DEF Save, PureSave, HpeSave, HitachiSave, DellSave, OracleSave, StorageGridSave,
           NetAppSave, CommitSave
  <2> QED BY <2>2, <2>3 DEF k
<1>4. ASSUME NEW m \in NewAlerts(recent)
      PROVE  Open(Key(m.id))' /\ m \in collector.fetch.messages
  <2>1. m \in collector.fetch.messages /\ m.id \in Seen
    BY DEF NewAlerts, Seen
  <2>2. messages'[Key(m.id)].stored /\ ~messages'[Key(m.id)].resolved
    BY <1>1, <1>3, <2>1, UpsertedOpen
  <2>3. Key(m.id)' = Key(m.id)
    BY <1>1 DEF Key
  <2> QED BY <2>1, <2>2, <2>3 DEF Open
<1>5. collector.cur = {}
  BY <1>1 DEF ListInv, Holding
<1> QED BY <1>2, <1>4, <1>5 DEF ListInv, Announcing, Settling, Holding

\* Closing what the array no longer reports leaves what it reported open.
LEMMA ListResolve ==
    ASSUME TypeOK, ListInv, ResolveAbsent
    PROVE  ListInv'
<1>1. /\ collector'.phase = "push" /\ collector'.cur = {}
      /\ collector'.new_alerts \subseteq collector.new_alerts
  BY GoToLists DEF ResolveAbsent
<1>2. ASSUME NEW m \in collector.new_alerts
      PROVE  Open(Key(m.id))'
  <2> DEFINE k == Key(m.id)
  <2>1. m \in collector.fetch.messages /\ m.id \in Ids /\ Open(k)
    BY DEF ListInv, ResolveAbsent, TypeOK, Messages
  <2>2. k \in Keys /\ k \in SeenKeys
    BY <2>1, KeyInKeys DEF SeenKeys, Seen
  <2>3. Key(m.id)' = k
    BY DEF ResolveAbsent, Key
  <2> HIDE DEF k
  <2>4. messages'[k] = messages[k]
    BY <2>2 DEF ResolveAbsent, AbsentResolved
  <2> QED BY <2>1, <2>3, <2>4 DEF Open
<1> QED BY <1>1, <1>2, ListWaits

\* The purge deletes closed rows: nothing that is on a list as open.
LEMMA PurgeKeepsOpen ==
    ASSUME TypeOK, AlertCleanup
    PROVE  SameOpen
BY DEF AlertCleanup, SameOpen, Open, Purgeable, Resolved, NoRow

\* What a cycle has read of the rows still holds when it uses it.
LEMMA ListStep ==
    ASSUME LedgerInv, [Next]_vars
    PROVE  ListInv'
<1> USE DEF LedgerInv, TrackInv
<1>1. CASE \/ \E i \in Ids : Raise(i) \/ Clear(i)
           \/ Tick \/ UNCHANGED vars
  BY <1>1 DEF Raise, Clear, Tick, vars, ListInv, Open, Key
<1>2. CASE Collect \/ SaveFails \/ TeamsDone \/ Crash
  <2>1. /\ \A f : [Idle EXCEPT !.phase = "save", !.fetch = f].new_alerts = {}
        /\ \A f : [Idle EXCEPT !.phase = "save", !.fetch = f].todo = {}
        /\ \A f : [Idle EXCEPT !.phase = "save", !.fetch = f].cur = {}
        /\ [Idle EXCEPT !.phase = "age"].new_alerts = {}
        /\ [Idle EXCEPT !.phase = "age"].todo = {}
        /\ [Idle EXCEPT !.phase = "age"].cur = {}
    BY DEF Idle
  <2>2. collector'.new_alerts = {} /\ collector'.todo = {} /\ collector'.cur = {}
    BY <1>2, <2>1, IdleLists DEF Collect, SaveFails, TeamsDone, Crash
  <2> QED BY <2>2, ListEmpty
<1>3. CASE Save
  BY <1>3, ListSave
<1>4. CASE ResolveAbsent
  BY <1>4, ListResolve
<1>5. CASE ResolveAged
  <2>1. /\ collector'.phase = "push" /\ collector'.cur = {}
        /\ collector'.new_alerts \subseteq collector.new_alerts
    BY <1>5, GoToLists DEF ResolveAged
  <2>2. collector.new_alerts = {}
    BY <1>5 DEF ResolveAged, ListInv
  <2> QED BY <2>1, <2>2, ListWaits
<1>6. CASE ResolveFails \/ PushQueryFails \/ PushDone
  <2>1. SameOpen
    BY <1>6 DEF ResolveFails, PushQueryFails, PushDone, SameOpen, Open
  <2>2. \E p \in {"push", "idle", "dispatch"} : collector' = GoTo(p)
    BY <1>6 DEF ResolveFails, PushQueryFails, PushDone, AfterPush
  <2>3. /\ collector'.phase \in {"idle", "push", "dispatch"} /\ collector'.cur = {}
        /\ collector'.new_alerts \subseteq collector.new_alerts
    BY <2>2, GoToLists
  <2> QED BY <2>1, <2>3, NewAlertsStayOpen, ListWaits
<1>7. CASE PushQuery
  <2>1. SameOpen
    BY <1>7 DEF PushQuery, SameOpen, Open
  <2>2. /\ collector'.phase = "pushing" /\ collector'.todo = Pending
        /\ collector'.new_alerts = collector.new_alerts /\ collector'.cur = collector.cur
    BY <1>7 DEF PushQuery, TypeOK
  <2>3. \A k \in Pending : ~Open(k)'
    BY <1>7 DEF PushQuery, Pending, Open, Resolved
  <2>4. collector.cur = {}
    BY <1>7 DEF PushQuery, ListInv, Holding
  <2>5. \A m \in collector'.new_alerts : Open(Key(m.id))'
    BY <2>1, <2>2, NewAlertsStayOpen
  <2> QED BY <2>2, <2>3, <2>4, <2>5 DEF ListInv, Announcing, Settling, Holding
<1>8. CASE Dispatch
  <2>1. SameOpen
    BY <1>8 DEF Dispatch, SameOpen, Open
  <2>2. PICK r \in PagingReads :
          collector' = [collector EXCEPT
             !.phase = "page",
             !.todo = {Key(m.id) : m \in {n \in collector.new_alerts :
                                             r.enabled /\ n.opened >= r.since}}]
    BY <1>8 DEF Dispatch
  <2>3. /\ collector'.phase = "page" /\ collector'.new_alerts = collector.new_alerts
        /\ collector'.cur = collector.cur
        /\ \A k \in collector'.todo : \E m \in collector.new_alerts : k = Key(m.id)
    BY <2>2 DEF TypeOK
  <2>4. collector.cur = {}
    BY <1>8 DEF Dispatch, ListInv, Holding
  <2>5. \A m \in collector'.new_alerts : Open(Key(m.id))'
    BY <2>1, <2>3, NewAlertsStayOpen
  <2>6. \A m \in collector.new_alerts : Key(m.id)' = Key(m.id)
    BY <1>8 DEF Dispatch, Key
  <2>7. \A k \in collector'.todo : Open(k)'
    BY <2>3, <2>5, <2>6 DEF Open
  <2> QED BY <2>3, <2>4, <2>5, <2>7 DEF ListInv, Announcing, Settling, Holding
<1>9. CASE PageDone
  <2>1. SameOpen
    BY <1>9 DEF PageDone, SameOpen, Open
  <2>3. /\ collector'.phase = "teams" /\ collector'.new_alerts = collector.new_alerts
        /\ collector'.cur = collector.cur
        /\ \A k \in collector'.todo : \E m \in collector.new_alerts : k = Key(m.id)
    BY <1>9 DEF PageDone, TypeOK
  <2>4. collector.cur = {}
    BY <1>9 DEF PageDone, ListInv, Holding
  <2>5. \A m \in collector'.new_alerts : Open(Key(m.id))'
    BY <2>1, <2>3, NewAlertsStayOpen
  <2>6. \A m \in collector.new_alerts : Key(m.id)' = Key(m.id)
    BY <1>9 DEF PageDone, Key
  <2>7. \A k \in collector'.todo : Open(k)'
    BY <2>3, <2>5, <2>6 DEF Open
  <2> QED BY <2>3, <2>4, <2>5, <2>7 DEF ListInv, Announcing, Settling, Holding
<1>10. CASE ClearFlag \/ Stamp \/ Mark
  <2>1. PICK j \in Keys, field \in {"teams_notified", "datadog_notified"}, v \in BOOLEAN :
          messages' = Set(j, field, v)
    <3>1. collector.cur \subseteq Keys
      BY DEF TypeOK
    <3> QED BY <1>10, <3>1 DEF ClearFlag, Stamp, Mark
  <2>2. UNCHANGED <<vendor, seed, datadog>>
    BY <1>10 DEF ClearFlag, Stamp, Mark
  <2>3. SameOpen
    BY <2>1, <2>2, SetKeepsOpen
  <2>4. /\ collector'.new_alerts = collector.new_alerts
        /\ collector'.todo = collector.todo /\ collector'.cur = {}
        /\ \/ collector.phase \in Announcing /\ collector'.phase \in Announcing
           \/ collector.phase \in Settling /\ collector'.phase \in Settling
    BY <1>10 DEF ClearFlag, Stamp, Mark, Announcing, Settling, TypeOK
  <2> QED BY <2>3, <2>4, ListShrinks
<1>11. CASE ClearFlagFails \/ StampFails
  <2>1. SameOpen
    BY <1>11 DEF ClearFlagFails, StampFails, SameOpen, Open
  <2>2. /\ collector'.new_alerts = collector.new_alerts
        /\ collector'.todo = collector.todo /\ collector'.cur = {}
        /\ \/ collector.phase \in Announcing /\ collector'.phase \in Announcing
           \/ collector.phase \in Settling /\ collector'.phase \in Settling
    BY <1>11 DEF ClearFlagFails, StampFails, Announcing, Settling, TypeOK
  <2> QED BY <2>1, <2>2, ListShrinks
<1>12. CASE MarkFails
  <2>1. CASE collector' = Idle
    BY <2>1, IdleLists, ListEmpty
  <2>2. CASE collector' = [collector EXCEPT !.phase = "teams", !.cur = {}]
    <3>1. SameOpen
      BY <1>12 DEF MarkFails, SameOpen, Open
    <3>2. /\ collector'.new_alerts = collector.new_alerts
          /\ collector'.todo = collector.todo /\ collector'.cur = {}
          /\ collector.phase \in Announcing /\ collector'.phase = "teams"
      BY <1>12, <2>2 DEF MarkFails, Announcing, TypeOK
    <3> QED BY <3>1, <3>2, ListShrinks DEF Announcing
  <2> QED BY <1>12, <2>1, <2>2 DEF MarkFails
<1>13. ASSUME NEW k \in Keys,
              \/ PushOk(k) \/ PushUnacked(k) \/ PushRefused(k) \/ PageSkipped(k)
              \/ Deliver(k) \/ PageUnacked(k) \/ PageRefused(k)
              \/ Teams(k) \/ TeamsFails(k)
       PROVE  ListInv'
  <2>1. SameOpen
    BY <1>13 DEF PushOk, PushUnacked, PushRefused, PageSkipped, Deliver, PageUnacked,
                 PageRefused, Teams, TeamsFails, SameOpen, Open
  <2>2. /\ collector'.new_alerts = collector.new_alerts
        /\ collector'.todo \subseteq collector.todo
        /\ collector'.cur = collector.cur \/ collector'.cur \subseteq collector.todo
        /\ \/ collector.phase \in Announcing /\ collector'.phase \in Announcing
           \/ collector.phase \in Settling /\ collector'.phase \in Settling
    <3>1. CASE PushOk(k) \/ PushUnacked(k) \/ PushRefused(k)
      BY <3>1, TakenLists DEF PushOk, PushUnacked, PushRefused, Settling
    <3>2. CASE Deliver(k)
      BY <3>2, TakenLists DEF Deliver, Announcing
    <3>3. CASE PageSkipped(k) \/ PageUnacked(k) \/ PageRefused(k)
      BY <3>3, TakenLists DEF PageSkipped, PageUnacked, PageRefused, Announcing
    <3>4. CASE Teams(k) \/ TeamsFails(k)
      BY <3>4, TakenLists DEF Teams, TeamsFails, Announcing
    <3> QED BY <1>13, <3>1, <3>2, <3>3, <3>4
  <2>3. \/ collector'.phase \in Holding \ {"stamp"}
        \/ /\ collector'.phase = collector.phase /\ collector'.cur = collector.cur
           /\ collector.phase \notin Holding
        \/ /\ collector'.phase = "stamp" /\ collector'.cur = {k} /\ datadog'[k] = "open"
    BY <1>13 DEF PushOk, PushUnacked, PushRefused, PageSkipped, Deliver, PageUnacked,
                 PageRefused, Teams, TeamsFails, Taken, Holding, TypeOK
  <2>4. collector'.phase = "stamp" => \A j \in collector'.cur : datadog'[j] = "open"
    BY <2>3 DEF Holding
  <2>5. collector'.phase \notin Holding => collector'.cur = {}
    BY <2>3 DEF Holding, ListInv
  <2> QED BY <2>1, <2>2, <2>4, <2>5, ListShrinks
<1>14. CASE AlertCleanup
  <2>1. SameOpen /\ collector' = collector /\ datadog' = datadog
    BY <1>14, PurgeKeepsOpen DEF AlertCleanup
  <2>2. \A m \in collector'.new_alerts : Open(Key(m.id))'
    BY <2>1, NewAlertsStayOpen
  <2>3. \A k \in collector.todo \cup collector.cur : k \in Keys
    BY DEF TypeOK
  <2> QED BY <2>1, <2>2, <2>3 DEF ListInv, SameOpen
<1> QED BY <1>1, <1>2, <1>3, <1>4, <1>5, <1>6, <1>7, <1>8, <1>9, <1>10, <1>11, <1>12,
           <1>13, <1>14 DEF Next, Cycle, Page, PageBlind

\* The rows and messages of NetApp's events stay dated by their only rise, and what is
\* closed stays too old to be fetched.
LEMMA AgedSame ==
    ASSUME TypeOK, AgedInv, UNCHANGED <<vendor, now, alert, seed>>,
           \A k \in Keys : SameCounts(k),
           \/ collector'.fetch = NoFetch /\ collector'.phase # "resolve"
           \/ /\ collector'.fetch = collector.fetch
              /\ collector'.phase \notin {"save", "resolve"}
    PROVE  AgedInv'
<1>1. \A k \in Keys : vendor = "netapp" => AgedRow(k)'
  BY DEF AgedInv, AgedRow, SameCounts, Older
<1>2. CASE collector'.fetch = NoFetch /\ collector'.phase # "resolve"
  BY <1>1, <1>2, IdleLists DEF AgedInv
<1>3. CASE collector'.fetch = collector.fetch /\ collector'.phase \notin {"save", "resolve"}
  BY <1>1, <1>3 DEF AgedInv
<1> QED BY <1>2, <1>3

LEMMA AgedRaise ==
    ASSUME TypeOK, AgedInv, NEW j \in Ids, Raise(j)
    PROVE  AgedInv'
<1> SUFFICES ASSUME vendor = "netapp"
             PROVE  AgedInv'
  BY DEF AgedInv, Raise
<1>1. alert[j].raises = 0
  BY DEF Raise, Recurs
<1>2. \A i \in Ids : i # j => alert'[i] = alert[i]
  BY DEF Raise, TypeOK
<1>3. alert'[j].raises >= 1
  BY <1>1 DEF Raise, TypeOK
<1>4. ASSUME NEW k \in Keys
      PROVE  AgedRow(k)'
  <2>1. k[1] \in Ids
    BY DEF Keys
  <2>2. messages[k].stored => k[1] # j
    BY <1>1 DEF AgedInv, AgedRow
  <2> QED BY <1>2, <2>1, <2>2 DEF AgedInv, AgedRow, Raise, Older
<1>5. ASSUME NEW m \in collector.fetch.messages
      PROVE  /\ alert'[m.id].raises >= 1 /\ m.opened = alert'[m.id].opened
             /\ collector.phase = "save" => ~Resolved(Key(m.id))'
  <2>1. m.id \in Ids /\ m.id # j
    BY <1>1 DEF AgedInv, TypeOK, Fetch, Messages
  <2>2. alert'[m.id] = alert[m.id]
    BY <1>2, <2>1
  <2> QED BY <2>2 DEF AgedInv, Raise, Resolved, Key
<1> QED BY <1>2, <1>3, <1>4, <1>5 DEF AgedInv, Raise

LEMMA AgedTime ==
    ASSUME TypeOK, AgedInv, Tick \/ \E j \in Ids : Clear(j)
    PROVE  AgedInv'
<1>1. UNCHANGED <<vendor, messages, collector, seed>>
  BY DEF Tick, Clear
<1> SUFFICES ASSUME vendor = "netapp"
             PROVE  AgedInv'
  BY <1>1 DEF AgedInv
<1>2. \A i \in Ids : /\ alert'[i].raises = alert[i].raises
                     /\ alert'[i].opened = alert[i].opened
                     /\ alert'[i].up => alert[i].up
  BY DEF Tick, Clear, TypeOK
<1>3. now \in Nat /\ (now' = now \/ now' = now + 1)
  BY ConstantsAssumption DEF Tick, Clear, TypeOK, Time
<1>4. ASSUME NEW k \in Keys
      PROVE  AgedRow(k)'
  <2>1. k[1] \in Ids /\ AgedRow(k)
    BY DEF Keys, AgedInv
  <2>2. messages[k].opened \in Nat
    BY ConstantsAssumption DEF TypeOK, Row, Time
  <2>3. Older(messages[k].opened, ResolveAge) => Older(messages[k].opened, ResolveAge)'
    BY <1>1, <1>3, <2>2, ConstantsAssumption DEF Older
  <2> QED BY <1>1, <1>2, <2>1, <2>3 DEF AgedRow
<1>5. \A m \in collector.fetch.messages : m.id \in Ids
  BY DEF TypeOK, Fetch, Messages
<1> QED BY <1>1, <1>2, <1>4, <1>5 DEF AgedInv, Resolved, Key

LEMMA AgedCollect ==
    ASSUME TypeOK, AgedInv, Collect
    PROVE  AgedInv'
<1>1. UNCHANGED <<vendor, now, alert, messages, seed>>
  BY DEF Collect
<1> SUFFICES ASSUME vendor = "netapp"
             PROVE  AgedInv'
  BY <1>1 DEF AgedInv
<1>2. PICK f \in Fetches[vendor] :
        collector' = [Idle EXCEPT !.phase = "save", !.fetch = f]
  BY DEF Collect
<1>3. collector'.phase = "save" /\ collector'.fetch = f
  BY <1>2 DEF Idle
<1>4. ASSUME NEW m \in f.messages
      PROVE  /\ alert[m.id].raises >= 1 /\ m.opened = alert[m.id].opened
             /\ ~Resolved(Key(m.id))
  <2> DEFINE k == Key(m.id)
  <2>1. m.id \in Ids /\ Fetchable(m.id) /\ m.opened = alert[m.id].opened
    BY FetchTells
  <2>2. k \in Keys /\ k[1] = m.id
    BY <2>1, KeyInKeys
  <2> HIDE DEF k
  <2>3. alert[m.id].raises >= 1
    BY <2>1 DEF AgedInv, Fetchable
  <2>4. ~Older(alert[m.id].opened, FetchAge) /\ alert[m.id].opened \in Nat /\ now \in Nat
    BY <2>1, ConstantsAssumption DEF Fetchable, TypeOK, Time
  <2>5. ~Older(alert[m.id].opened, ResolveAge)
    BY <2>4, ConstantsAssumption DEF Older
  <2>6. ~Resolved(k)
    BY <2>2, <2>5 DEF AgedInv, AgedRow, Resolved
  <2> QED BY <2>1, <2>3, <2>6 DEF k
<1>5. \A k \in Keys : AgedRow(k)'
  BY <1>1 DEF AgedInv, AgedRow, Older
<1>6. \A m \in f.messages : ~Resolved(Key(m.id))'
  BY <1>1, <1>4 DEF Resolved, Key
<1> QED BY <1>1, <1>3, <1>4, <1>5, <1>6 DEF AgedInv

LEMMA AgedSave ==
    ASSUME TypeOK, RowsBlank, AgedInv, Save
    PROVE  AgedInv'
<1>1. UNCHANGED <<vendor, now, alert, seed>> /\ collector.phase = "save"
  BY DEF Save, PureSave, HpeSave, HitachiSave, DellSave, OracleSave, StorageGridSave,
         NetAppSave, CommitSave
<1> SUFFICES ASSUME vendor = "netapp"
             PROVE  AgedInv'
  BY <1>1 DEF AgedInv
<1>2. CommitSave(UpsertedKeeping, FALSE, "dispatch")
  BY DEF Save, PureSave, HpeSave, HitachiSave, DellSave, OracleSave, StorageGridSave,
         NetAppSave
<1>3. /\ collector'.phase = "dispatch" /\ collector'.fetch = NoFetch
      /\ messages' = UpsertedKeeping
  BY <1>2 DEF CommitSave, TypeOK
<1>4. ASSUME NEW k \in Keys
      PROVE  AgedRow(k)'
  <2>1. CASE k \notin SeenKeys
    BY <1>1, <1>3, <2>1 DEF UpsertedKeeping, AgedInv, AgedRow, Older
  <2>2. CASE k \in SeenKeys
    <3>1. PICK i \in Seen : k = Key(i)
      BY <2>2 DEF SeenKeys
    <3>2. k[1] = i /\ i \in Ids
      BY <3>1, KeyInKeys DEF Seen, TypeOK, Fetch, Messages
    <3>3. MessageOf(i) \in collector.fetch.messages /\ MessageOf(i).id = i
      BY DEF MessageOf, Seen
    <3>4. /\ alert[i].raises >= 1 /\ MessageOf(i).opened = alert[i].opened
          /\ ~Resolved(k)
      BY <1>1, <3>1, <3>3 DEF AgedInv
    <3>5. messages'[k] = Upserted(k, messages[k].resolved) /\ messages[k] \in Row
      BY <1>3, <2>2 DEF UpsertedKeeping, TypeOK
    <3>6. messages'[k].opened = MessageOf(i).opened
      <4>1. Upserted(k, messages[k].resolved).opened = MessageOf(k[1]).opened
        BY <3>5 DEF Upserted, Row, NoRow
      <4> QED BY <3>2, <3>5, <4>1
    <3>7. ~messages'[k].resolved
      <4>1. messages[k].resolved \in BOOLEAN
        BY <3>5 DEF Row
      <4> QED BY <3>4, <3>5, <4>1, UpsertedResolved, <2>2 DEF Resolved
    <3> QED BY <1>1, <3>2, <3>4, <3>6, <3>7 DEF AgedRow
  <2> QED BY <2>1, <2>2
<1> QED BY <1>1, <1>3, <1>4, IdleLists DEF AgedInv

LEMMA AgedResolve ==
    ASSUME TypeOK, RowsBlank, AgedInv, ResolveAged \/ ResolveAbsent \/ AlertCleanup
    PROVE  AgedInv'
<1>1. UNCHANGED <<vendor, now, alert, seed>>
  BY DEF ResolveAged, ResolveAbsent, AlertCleanup
<1> SUFFICES ASSUME vendor = "netapp"
             PROVE  AgedInv'
  BY <1>1 DEF AgedInv
<1>2. ~ResolveAbsent
  BY DEF ResolveAbsent, AgedInv
<1>3. CASE ResolveAged
  <2>1. ASSUME NEW k \in Keys
        PROVE  AgedRow(k)'
    <3>1. \/ messages'[k] = messages[k]
          \/ /\ messages'[k] = [messages[k] EXCEPT !.resolved = TRUE]
             /\ Open(k) /\ Older(messages[k].opened, ResolveAge)
      BY <1>3 DEF ResolveAged
    <3>2. AgedRow(k) /\ messages[k] \in Row
      BY DEF AgedInv, TypeOK
    <3>3. CASE messages'[k] = messages[k]
      BY <1>1, <3>2, <3>3 DEF AgedRow, Older
    <3>4. CASE /\ messages'[k] = [messages[k] EXCEPT !.resolved = TRUE]
               /\ Open(k) /\ Older(messages[k].opened, ResolveAge)
      <4>1. messages'[k].opened = messages[k].opened /\ messages[k].stored
        BY <3>2, <3>4 DEF Row, Open
      <4> QED BY <1>1, <3>2, <3>4, <4>1 DEF AgedRow, Older
    <3> QED BY <3>1, <3>3, <3>4
  <2>2. collector'.phase = "push" /\ collector'.fetch = NoFetch
    BY <1>3 DEF ResolveAged, GoTo, TypeOK
  <2> QED BY <1>1, <2>1, <2>2, IdleLists DEF AgedInv
<1>4. CASE AlertCleanup
  <2>1. ASSUME NEW k \in Keys
        PROVE  AgedRow(k)' /\ (Resolved(k)' => Resolved(k))
    <3>1. messages'[k] = messages[k] \/ messages'[k] = NoRow
      BY <1>4 DEF AlertCleanup
    <3>2. AgedRow(k)
      BY DEF AgedInv
    <3> QED BY <1>1, <3>1, <3>2 DEF AgedRow, Older, NoRow, Resolved
  <2>2. \A m \in collector.fetch.messages : Key(m.id) \in Keys /\ Key(m.id)' = Key(m.id)
    BY <1>1, KeyInKeys DEF TypeOK, Fetch, Messages, Key
  <2>3. \A m \in collector.fetch.messages :
           Resolved(Key(m.id))' => Resolved(Key(m.id))
    BY <2>1, <2>2 DEF Resolved
  <2> QED BY <1>1, <1>4, <2>1, <2>3 DEF AgedInv, AlertCleanup
<1> QED BY <1>2, <1>3, <1>4

LEMMA AgedStep ==
    ASSUME TypeOK, RowsBlank, AgedInv, [Next]_vars
    PROVE  AgedInv'
<1>1. CASE \E i \in Ids : Raise(i) \/ Clear(i)
  BY <1>1, AgedRaise, AgedTime
<1>2. CASE Tick \/ Collect \/ Save \/ ResolveAged \/ ResolveAbsent \/ AlertCleanup
  BY <1>2, AgedTime, AgedCollect, AgedSave, AgedResolve
<1>3. CASE UNCHANGED vars
  BY <1>3 DEF vars, AgedInv, AgedRow, Older, Resolved, Key
<1>4. CASE Crash
  <2>1. UNCHANGED <<vendor, now, alert, messages>> /\ collector' = Idle
    BY <1>4 DEF Crash
  <2> QED BY <2>1, IdleLists DEF AgedInv, AgedRow, Older
<1>5. CASE ClearFlag \/ Stamp \/ Mark
  <2>1. PICK j \in Keys, field \in {"teams_notified", "datadog_notified"}, v \in BOOLEAN :
          messages' = Set(j, field, v)
    <3>1. collector.cur \subseteq Keys
      BY DEF TypeOK
    <3> QED BY <1>5, <3>1 DEF ClearFlag, Stamp, Mark
  <2>2. \A k \in Keys : SameCounts(k)
    BY <2>1, SetKeepsCounts
  <2>3. /\ UNCHANGED <<vendor, now, alert, seed>> /\ collector'.fetch = collector.fetch
        /\ collector'.phase \notin {"save", "resolve"}
    BY <1>5 DEF ClearFlag, Stamp, Mark, TypeOK
  <2> QED BY <2>2, <2>3, AgedSame
<1>6. CASE \/ SaveFails \/ ResolveFails \/ PushQuery \/ PushQueryFails \/ PushDone
           \/ ClearFlagFails \/ Dispatch \/ PageDone \/ StampFails \/ TeamsDone \/ MarkFails
           \/ \E k \in Keys : \/ PushOk(k) \/ PushUnacked(k) \/ PushRefused(k)
                              \/ PageSkipped(k) \/ Deliver(k) \/ PageUnacked(k)
                              \/ PageRefused(k) \/ Teams(k) \/ TeamsFails(k)
  <2>1. UNCHANGED <<vendor, now, alert, seed, messages>>
    BY <1>6 DEF SaveFails, ResolveFails, PushQuery, PushQueryFails, PushDone,
        ClearFlagFails, Dispatch, PageDone, StampFails, TeamsDone, MarkFails, PushOk,
        PushUnacked, PushRefused, PageSkipped, Deliver, PageUnacked, PageRefused, Teams,
        TeamsFails
  <2>2. \/ collector'.fetch = NoFetch /\ collector'.phase # "resolve"
        \/ /\ collector'.fetch = collector.fetch
           /\ collector'.phase \notin {"save", "resolve"}
    <3>1. CASE SaveFails \/ TeamsDone
      <4>1. /\ [Idle EXCEPT !.phase = "age"].phase = "age"
            /\ [Idle EXCEPT !.phase = "age"].fetch = NoFetch
        BY DEF Idle
      <4> QED BY <3>1, <4>1, IdleLists DEF SaveFails, TeamsDone
    <3>2. CASE ResolveFails \/ PushQueryFails \/ PushDone
      <4>1. \A p \in {"push", "idle", "dispatch"} : GoTo(p).phase = p /\ GoTo(p).fetch = NoFetch
        BY IdleLists DEF GoTo, TypeOK
      <4>2. \E p \in {"push", "idle", "dispatch"} : collector' = GoTo(p)
        BY <3>2 DEF ResolveFails, PushQueryFails, PushDone, AfterPush
      <4> QED BY <4>1, <4>2
    <3>7. CASE MarkFails
      <4>1. CASE collector' = Idle
        BY <4>1, IdleLists
      <4>2. CASE collector' = [collector EXCEPT !.phase = "teams", !.cur = {}]
        BY <4>2 DEF TypeOK
      <4> QED BY <3>7, <4>1, <4>2 DEF MarkFails
    <3>3. CASE PushQuery \/ ClearFlagFails \/ Dispatch \/ PageDone \/ StampFails
      BY <3>3 DEF PushQuery, ClearFlagFails, Dispatch, PageDone, StampFails, TypeOK
    <3>4. ASSUME NEW k \in Keys, PushOk(k) \/ PushUnacked(k) \/ PushRefused(k)
          PROVE  /\ collector'.fetch = collector.fetch
                 /\ collector'.phase \notin {"save", "resolve"}
      BY <3>4 DEF PushOk, PushUnacked, PushRefused, Taken, TypeOK
    <3>5. ASSUME NEW k \in Keys,
                 PageSkipped(k) \/ Deliver(k) \/ PageUnacked(k) \/ PageRefused(k)
          PROVE  /\ collector'.fetch = collector.fetch
                 /\ collector'.phase \notin {"save", "resolve"}
      BY <3>5 DEF PageSkipped, Deliver, PageUnacked, PageRefused, Taken, TypeOK
    <3>6. ASSUME NEW k \in Keys, Teams(k) \/ TeamsFails(k)
          PROVE  /\ collector'.fetch = collector.fetch
                 /\ collector'.phase \notin {"save", "resolve"}
      BY <3>6 DEF Teams, TeamsFails, Taken, TypeOK
    <3> QED BY <1>6, <3>1, <3>2, <3>3, <3>4, <3>5, <3>6, <3>7
  <2>3. \A k \in Keys : SameCounts(k)
    BY <2>1 DEF SameCounts
  <2> QED BY <2>1, <2>2, <2>3, AgedSame
<1> QED BY <1>1, <1>2, <1>3, <1>4, <1>5, <1>6 DEF Next, Cycle, Page, PageBlind

LEMMA LedgerInvariant == Spec => []LedgerInv
<1>1. Init => ListInv /\ AgedInv
  <2> SUFFICES ASSUME Init PROVE ListInv /\ AgedInv
    OBVIOUS
  <2>1. collector = Idle /\ messages = [k \in Keys |-> NoRow]
        /\ \A i \in Ids : ~alert[i].up
    BY DEF Init
  <2>2. \A k \in Keys : ~messages[k].stored
    BY <2>1 DEF NoRow
  <2>3. ListInv
    BY <2>1, IdleLists DEF ListInv, Announcing, Settling, Holding
  <2>4. AgedInv
    BY <2>1, <2>2, IdleLists DEF AgedInv, AgedRow
  <2> QED BY <2>3, <2>4
<1>2. TrackInv /\ FetchInv /\ ListInv /\ AgedInv /\ [Next]_vars => ListInv' /\ AgedInv'
  BY ListStep, AgedStep DEF LedgerInv, TrackInv
<1> QED BY <1>1, <1>2, FetchInvariant, PTL DEF Spec, LedgerInv

\* The ledger as the store, Datadog and the thread show it.
LRow == [k \in Keys |-> RowOf(k)]
LNoted == {k \in Keys : \/ messages[k].datadog_notified
                        \/ collector.phase = "stamp" /\ k \in collector.cur}
LTold == {k \in Keys : messages[k].teams_notified}

\* A row reads as open exactly when it is.
LEMMA RowReads ==
    /\ LRow \in [Keys -> {"none", "open", "closed"}]
    /\ \A k \in Keys : /\ LRow[k] = RowOf(k)
                       /\ RowOf(k) = "open" <=> Open(k)
                       /\ RowOf(k) = "closed" <=> Resolved(k)
                       /\ RowOf(k) = "none" <=> ~messages[k].stored
BY DEF LRow, RowOf, Open, Resolved

\* A step that leaves rows and events alone, outside the phase between the POST and the
\* stamp, leaves the ledger alone.
LEMMA LedgerSame ==
    ASSUME UNCHANGED <<messages, datadog, lost>>,
           \/ collector' = collector
           \/ collector.phase # "stamp" /\ collector'.phase # "stamp"
    PROVE  UNCHANGED Ledger!vars
BY DEF Ledger!vars, RowOf

\* Rows rewritten with their notification columns: reported, closed, or as they were.
LEMMA LedgerRewrite ==
    ASSUME UNCHANGED <<datadog, lost>>, KeepsFlags(messages'),
           collector.phase # "stamp", collector'.phase # "stamp",
           \A k \in Keys : \/ messages'[k].stored = messages[k].stored
                           \/ messages'[k].stored /\ ~messages'[k].resolved
    PROVE  Ledger!Update
<1>1. LNoted' = LNoted /\ LTold' = LTold
  BY DEF KeepsFlags, LNoted, LTold
<1>2. LRow' \in [Keys -> {"none", "open", "closed"}]
  BY DEF LRow, RowOf
<1>3. \A k \in Keys : \/ LRow'[k] = LRow[k]
                      \/ LRow[k] # "open" /\ LRow'[k] = "open"
                      \/ LRow[k] = "open" /\ LRow'[k] = "closed"
  BY DEF LRow, RowOf
<1> QED BY <1>1, <1>2, <1>3
    DEF Ledger!Update, Ledger!Reported, Ledger!Closed, LRow, LNoted, LTold

\* Writing one row's notification column changes that alert's entry only.
LEMMA LedgerColumn ==
    ASSUME TypeOK, RowsBlank, NEW k \in Keys, NEW v \in BOOLEAN,
           NEW field \in {"teams_notified", "datadog_notified"},
           messages' = Set(k, field, v)
    PROVE  /\ LRow' = LRow
           /\ field = "datadog_notified" => LTold' = LTold
           /\ field = "teams_notified" /\ Open(k) =>
                 LTold' = IF v THEN LTold \cup {k} ELSE LTold \ {k}
           /\ \A j \in Keys \ {k} :
                 messages'[j].datadog_notified = messages[j].datadog_notified
           /\ messages'[k].datadog_notified =
                 IF field = "datadog_notified" /\ messages[k].stored
                 THEN v ELSE messages[k].datadog_notified
<1>1. \A j \in Keys : SameCounts(j)
  BY SetKeepsCounts
<1>2. LRow' = LRow
  BY <1>1 DEF SameCounts, LRow, RowOf
<1>3. /\ \A j \in Keys \ {k} : messages'[j] = messages[j]
      /\ ~messages[k].stored => messages' = messages
      /\ field = "datadog_notified" /\ messages[k].stored =>
            /\ messages'[k].datadog_notified = v
            /\ messages'[k].teams_notified = messages[k].teams_notified
      /\ field = "teams_notified" /\ messages[k].stored =>
            /\ messages'[k].teams_notified = v
            /\ messages'[k].datadog_notified = messages[k].datadog_notified
  BY SetColumn
<1>4. field = "datadog_notified" => LTold' = LTold
  BY <1>3 DEF LTold
<1>5. field = "teams_notified" /\ Open(k) =>
         LTold' = IF v THEN LTold \cup {k} ELSE LTold \ {k}
  BY <1>3 DEF LTold, Open
<1>6. messages'[k].datadog_notified =
         IF field = "datadog_notified" /\ messages[k].stored
         THEN v ELSE messages[k].datadog_notified
  BY <1>3
<1> QED BY <1>2, <1>3, <1>4, <1>5, <1>6

\* The upsert and the closures report and close alerts.
LEMMA LedgerSave ==
    ASSUME LedgerInv, Save \/ ResolveAbsent \/ ResolveAged
    PROVE  Ledger!Update
<1> USE DEF LedgerInv, TrackInv
<1>1. messages \in [Keys -> Row]
  BY DEF TypeOK
<1>2. CASE Save
  <2>1. PICK rows \in [Keys -> Row], recent \in BOOLEAN,
             next \in {"resolve", "push", "dispatch"} :
               KeepsFlags(rows) /\ CommitSave(rows, recent, next)
    BY <1>2, SaveCommits
  <2>2. /\ collector'.phase = next /\ collector.phase = "save" /\ KeepsFlags(messages')
        /\ UNCHANGED <<datadog, lost>>
    BY <2>1 DEF CommitSave, TypeOK
  <2>3. \/ messages' = UpsertedReopening \/ messages' = AbsentResolved(UpsertedReopening)
        \/ vendor = "netapp" /\ messages' = UpsertedKeeping
    BY <1>2 DEF Save, PureSave, HpeSave, HitachiSave, DellSave, OracleSave,
           StorageGridSave, NetAppSave, CommitSave
  <2>4. ASSUME NEW k \in Keys
        PROVE  \/ messages'[k].stored = messages[k].stored
               \/ messages'[k].stored /\ ~messages'[k].resolved
    <3>1. CASE k \in SeenKeys
      <4>1. PICK i \in Seen : k = Key(i)
        BY <3>1 DEF SeenKeys
      <4>2. UpsertedReopening[k] = Upserted(k, FALSE)
            /\ AbsentResolved(UpsertedReopening)[k] = Upserted(k, FALSE)
            /\ UpsertedKeeping[k] = Upserted(k, messages[k].resolved)
        BY <3>1 DEF UpsertedReopening, AbsentResolved, UpsertedKeeping
      <4>3. messages'[k].stored /\ ~messages'[k].resolved
        BY <2>2, <2>3, <4>1, <4>2, UpsertedOpen
      <4> QED BY <4>3
    <3>2. CASE k \notin SeenKeys
      <4>1. /\ UpsertedReopening[k] = messages[k] /\ UpsertedKeeping[k] = messages[k]
            /\ AbsentResolved(UpsertedReopening)[k].stored = messages[k].stored
        BY <1>1, <3>2 DEF UpsertedReopening, AbsentResolved, UpsertedKeeping, Row
      <4> QED BY <2>3, <4>1
    <3> QED BY <3>1, <3>2
  <2> QED BY <2>2, <2>4, LedgerRewrite
<1>3. CASE ResolveAbsent \/ ResolveAged
  <2>1. \A k \in Keys : \/ messages'[k] = messages[k]
                        \/ /\ messages[k].stored
                           /\ messages'[k] = [messages[k] EXCEPT !.resolved = TRUE]
    BY <1>3 DEF ResolveAbsent, ResolveAged, AbsentResolved, Open
  <2>2. KeepsFlags(messages') /\ \A k \in Keys : messages'[k].stored = messages[k].stored
    BY <1>1, <2>1 DEF KeepsFlags, RowsBlank, Row
  <2>3. /\ collector.phase \in {"resolve", "age"} /\ collector'.phase = "push"
        /\ UNCHANGED <<datadog, lost>>
    BY <1>3, GoToLists DEF ResolveAbsent, ResolveAged
  <2> QED BY <2>2, <2>3, LedgerRewrite
<1> QED BY <1>2, <1>3

\* The purge forgets closed alerts, and admits which of their events are still open.
LEMMA LedgerPurge ==
    ASSUME LedgerInv, AlertCleanup
    PROVE  Ledger!Forget
<1> USE DEF LedgerInv, TrackInv
<1>1. /\ \A k \in Keys : messages'[k] = IF Purgeable(k) THEN NoRow ELSE messages[k]
      /\ lost' = lost \cup {k \in Keys : Purgeable(k) /\ datadog[k] = "open"}
      /\ UNCHANGED <<datadog, collector>>
  BY DEF AlertCleanup
<1>2. ASSUME NEW k \in Keys
      PROVE  /\ Purgeable(k) <=> LRow[k] = "closed" /\ LRow'[k] = "none"
             /\ \/ LRow'[k] = LRow[k]
                \/ LRow[k] = "closed" /\ LRow'[k] = "none"
             /\ Purgeable(k) => /\ ~messages'[k].datadog_notified
                                /\ ~messages'[k].teams_notified /\ ~Open(k)
             /\ ~Purgeable(k) => messages'[k] = messages[k]
  <2>1. CASE Purgeable(k)
    BY <1>1, <2>1 DEF Purgeable, Resolved, Open, LRow, RowOf, NoRow
  <2>2. CASE ~Purgeable(k)
    <3>1. messages'[k] = messages[k]
      BY <1>1, <2>2
    <3>2. RowOf(k)' = RowOf(k)
      BY <3>1 DEF RowOf
    <3>3. LRow'[k] = LRow[k]
      BY <3>2 DEF LRow
    <3> QED BY <2>2, <3>1, <3>3
  <2> QED BY <2>1, <2>2
<1>3. ASSUME NEW k \in Keys
      PROVE  collector.phase = "stamp" /\ k \in collector.cur => ~Purgeable(k)
  BY DEF ListInv, Announcing, Open, Purgeable, Resolved
<1>4. LNoted' = {k \in LNoted : ~(LRow[k] = "closed" /\ LRow'[k] = "none")}
  BY <1>1, <1>2, <1>3 DEF LNoted
<1>5. LTold' = {k \in LTold : ~(LRow[k] = "closed" /\ LRow'[k] = "none")}
  BY <1>2 DEF LTold
<1>6. lost' = lost \cup {k \in Keys : /\ LRow[k] = "closed" /\ LRow'[k] = "none"
                                      /\ datadog[k] = "open"}
  BY <1>1, <1>2
<1>7. LRow' \in [Keys -> {"none", "open", "closed"}]
  BY DEF LRow, RowOf
<1> QED BY <1>1, <1>2, <1>4, <1>5, <1>6, <1>7
    DEF Ledger!Forget, Ledger!Forgotten, LRow, LNoted, LTold

\* A POST that pages, and the stamp that records it, or does not.
LEMMA LedgerPage ==
    ASSUME LedgerInv, NEW k \in Keys, Page(k) \/ PageBlind(k) \/ PageUnacked(k)
    PROVE  Ledger!Page(k)
<1> USE DEF LedgerInv, TrackInv
<1>1. /\ collector.phase = "page" /\ k \in collector.todo
      /\ datadog' = [datadog EXCEPT ![k] = "open"]
      /\ UNCHANGED messages
  BY DEF Page, PageBlind, PageUnacked, Deliver
<1>2. LRow[k] = "open" /\ LRow' = LRow /\ LTold' = LTold
  BY <1>1, RowReads DEF ListInv, Announcing, LTold, LRow, RowOf
<1>3. LNoted = {j \in Keys : messages[j].datadog_notified}
  BY <1>1 DEF LNoted
<1>4. CASE Deliver(k)
  <2>1. collector'.phase = "stamp" /\ collector'.cur = {k}
    BY <1>4 DEF Deliver, Taken, TypeOK
  <2>2. LNoted' = LNoted \cup {k}
    BY <1>1, <1>3, <2>1 DEF LNoted
  <2>3. \/ lost' = lost /\ k \notin LNoted
        \/ lost' = lost \cup {k}
    BY <1>3, <1>4 DEF Page, PageBlind, PageUnacked, Noted
  <2> QED BY <1>1, <1>2, <2>2, <2>3 DEF Ledger!Page, LRow, LNoted, LTold
<1>5. CASE PageUnacked(k)
  <2>1. collector'.phase = "page" /\ lost' = lost \cup {k}
    BY <1>5, TakenLists DEF PageUnacked
  <2>2. LNoted' = LNoted
    BY <1>1, <1>3, <2>1 DEF LNoted
  <2> QED BY <1>1, <1>2, <2>1, <2>2 DEF Ledger!Page, LRow, LNoted, LTold
<1> QED BY <1>4, <1>5 DEF Page, PageBlind

LEMMA LedgerStamp ==
    ASSUME LedgerInv, Stamp \/ StampFails \/ (Crash /\ collector.phase = "stamp")
    PROVE  \E k \in Keys : Ledger!Record(k) \/ Ledger!Lose(k)
<1> USE DEF LedgerInv, TrackInv
<1>1. collector.phase = "stamp" /\ UNCHANGED datadog
  BY DEF Stamp, StampFails, Crash
<1>2. PICK k \in Keys : collector.cur = {k}
  BY <1>1 DEF PostedKey
<1>3. LRow[k] = "open" /\ datadog[k] = "open" /\ k \in LNoted /\ Open(k)
  BY <1>1, <1>2, RowReads DEF ListInv, Announcing, LNoted
<1>4. CASE Stamp
  <2>1. /\ messages' = Set(k, "datadog_notified", TRUE) /\ lost' = lost \ {k}
        /\ collector'.phase = "page"
    BY <1>2, <1>3, <1>4 DEF Stamp, Open, TypeOK
  <2>2. /\ LRow' = LRow /\ LTold' = LTold
        /\ \A j \in Keys \ {k} :
              messages'[j].datadog_notified = messages[j].datadog_notified
        /\ messages'[k].datadog_notified
    BY <1>3, <2>1, LedgerColumn DEF Open
  <2>3. LNoted' = LNoted
    BY <1>1, <1>2, <2>1, <2>2 DEF LNoted
  <2> QED BY <1>1, <1>3, <2>1, <2>2, <2>3 DEF Ledger!Record, LRow, LNoted, LTold
<1>5. CASE StampFails \/ Crash
  <2>1. UNCHANGED messages /\ lost' = lost \cup {k} /\ collector'.phase # "stamp"
    BY <1>1, <1>2, <1>5, IdleLists DEF StampFails, Crash, TypeOK
  <2>2. LRow' = LRow /\ LTold' = LTold
    BY <2>1 DEF LRow, RowOf, LTold
  <2>3. LNoted' = LNoted \/ LNoted' = LNoted \ {k}
    BY <1>1, <1>2, <2>1 DEF LNoted
  <2> QED BY <1>1, <1>3, <2>1, <2>2, <2>3 DEF Ledger!Lose, LRow, LNoted, LTold
<1> QED BY <1>4, <1>5

\* A POST that resolves, and the flag cleared after it.
LEMMA LedgerResolve ==
    ASSUME LedgerInv, NEW k \in Keys, PushOk(k) \/ PushUnacked(k)
    PROVE  Ledger!Resolve(k)
<1> USE DEF LedgerInv, TrackInv
<1>1. /\ collector.phase = "pushing" /\ k \in collector.todo
      /\ datadog' = [datadog EXCEPT ![k] = "ok"] /\ lost' = lost \ {k}
      /\ UNCHANGED messages
  BY DEF PushOk, PushUnacked
<1>2. collector'.phase \in {"pushing", "clear"}
  BY <1>1, TakenLists DEF PushOk, PushUnacked
<1>3. LRow[k] # "open" /\ LRow' = LRow /\ LTold' = LTold
  BY <1>1, RowReads DEF ListInv, Settling, LTold, LRow, RowOf
<1>4. LNoted' = LNoted
  BY <1>1, <1>2 DEF LNoted
<1> QED BY <1>1, <1>3, <1>4 DEF Ledger!Resolve, LRow, LNoted, LTold

LEMMA LedgerWriteOff ==
    ASSUME LedgerInv, ClearFlag
    PROVE  \E k \in Keys : Ledger!WriteOff(k)
<1> USE DEF LedgerInv, TrackInv
<1>1. /\ collector.phase = "clear" /\ collector'.phase = "pushing"
      /\ UNCHANGED <<datadog, lost>>
  BY DEF ClearFlag, TypeOK
<1>2. PICK k \in Keys : collector.cur = {k} /\ datadog[k] = "ok"
  BY <1>1 DEF PostedKey
<1>3. LRow[k] # "open"
  BY <1>1, <1>2, RowReads DEF ListInv, Settling
<1>4. messages' = Set(k, "datadog_notified", FALSE)
  BY <1>2 DEF ClearFlag
<1>5. /\ LRow' = LRow /\ LTold' = LTold
      /\ \A j \in Keys \ {k} :
            messages'[j].datadog_notified = messages[j].datadog_notified
      /\ ~messages'[k].datadog_notified
  <2>1. ~messages[k].stored => ~messages[k].datadog_notified
    BY DEF RowsBlank, NoRow
  <2> QED BY <1>4, <2>1, LedgerColumn
<1>6. LNoted' = LNoted \ {k}
  BY <1>1, <1>5 DEF LNoted
<1> QED BY <1>1, <1>2, <1>3, <1>5, <1>6 DEF Ledger!WriteOff, LRow, LNoted, LTold

LEMMA LedgerTell ==
    ASSUME LedgerInv, Mark
    PROVE  \E k \in Keys : Ledger!Tell(k)
<1> USE DEF LedgerInv, TrackInv
<1>1. /\ collector.phase = "mark" /\ collector'.phase = "teams"
      /\ UNCHANGED <<datadog, lost>>
  BY DEF Mark, TypeOK
<1>2. PICK k \in collector.cur : messages' = Set(k, "teams_notified", TRUE)
  BY DEF Mark
<1>3. k \in Keys /\ Open(k) /\ LRow[k] = "open"
  BY <1>1, <1>2, RowReads DEF ListInv, Announcing, TypeOK
<1>4. /\ LRow' = LRow /\ LTold' = LTold \cup {k}
      /\ \A j \in Keys : messages'[j].datadog_notified = messages[j].datadog_notified
  BY <1>2, <1>3, LedgerColumn
<1>5. LNoted' = LNoted
  BY <1>1, <1>4 DEF LNoted
<1> QED BY <1>1, <1>3, <1>4, <1>5 DEF Ledger!Tell, LRow, LNoted, LTold

\* Every step of the collector is a step of the ledger, or none of its business.
LEMMA LedgerStep ==
    ASSUME LedgerInv, [Next]_vars
    PROVE  [Ledger!Next]_(Ledger!vars)
<1> USE DEF LedgerInv, TrackInv
<1>1. CASE Save \/ ResolveAbsent \/ ResolveAged \/ AlertCleanup
  BY <1>1, LedgerSave, LedgerPurge DEF Ledger!Next
<1>2. CASE \E k \in Keys : \/ Page(k) \/ PageBlind(k) \/ PageUnacked(k)
                           \/ PushOk(k) \/ PushUnacked(k)
  BY <1>2, LedgerPage, LedgerResolve DEF Ledger!Next
<1>3. CASE \/ Stamp \/ StampFails \/ ClearFlag \/ Mark
           \/ Crash /\ collector.phase = "stamp"
  BY <1>3, LedgerStamp, LedgerWriteOff, LedgerTell DEF Ledger!Next
<1>4. CASE \/ \E i \in Ids : Raise(i) \/ Clear(i)
           \/ Tick \/ UNCHANGED vars
  BY <1>4, LedgerSame DEF Raise, Clear, Tick, vars
<1>5. CASE \/ Collect \/ SaveFails \/ ResolveFails \/ PushQuery \/ PushQueryFails
           \/ PushDone \/ ClearFlagFails \/ Dispatch \/ PageDone \/ TeamsDone
           \/ MarkFails \/ (Crash /\ collector.phase # "stamp")
           \/ \E k \in Keys : \/ PushRefused(k) \/ PageSkipped(k) \/ PageRefused(k)
                              \/ Teams(k) \/ TeamsFails(k)
  <2>1. UNCHANGED <<messages, datadog>> /\ collector.phase # "stamp" /\ lost' = lost
    BY <1>5 DEF Collect, SaveFails, ResolveFails, PushQuery, PushQueryFails, PushDone,
        ClearFlagFails, Dispatch, PageDone, TeamsDone, MarkFails, Crash, PushRefused,
        PageSkipped, PageRefused, Teams, TeamsFails
  <2>2. collector'.phase # "stamp"
    <3>1. CASE Collect \/ SaveFails \/ TeamsDone \/ Crash
      <4>1. /\ [Idle EXCEPT !.phase = "age"].phase = "age"
            /\ \A f : [Idle EXCEPT !.phase = "save", !.fetch = f].phase = "save"
        BY DEF Idle
      <4> QED BY <3>1, <4>1, IdleLists DEF Collect, SaveFails, TeamsDone, Crash
    <3>2. CASE ResolveFails \/ PushQueryFails \/ PushDone
      BY <3>2, GoToLists DEF ResolveFails, PushQueryFails, PushDone, AfterPush
    <3>3. CASE PushQuery \/ ClearFlagFails \/ Dispatch \/ PageDone
      BY <3>3 DEF PushQuery, ClearFlagFails, Dispatch, PageDone, TypeOK
    <3>4. CASE MarkFails
      <4>1. CASE collector' = Idle
        BY <4>1, IdleLists
      <4>2. CASE collector' = [collector EXCEPT !.phase = "teams", !.cur = {}]
        BY <4>2 DEF TypeOK
      <4> QED BY <3>4, <4>1, <4>2 DEF MarkFails
    <3>5. ASSUME NEW k \in Keys, \/ PushRefused(k) \/ PageSkipped(k) \/ PageRefused(k)
                                 \/ Teams(k) \/ TeamsFails(k)
          PROVE  collector'.phase # "stamp"
      BY <2>1, <3>5, TakenLists DEF PushRefused, PageSkipped, PageRefused, Teams, TeamsFails
    <3> QED BY <1>5, <3>1, <3>2, <3>3, <3>4, <3>5
  <2> QED BY <2>1, <2>2, LedgerSame
<1>6. CASE Cycle
  <2>1. ASSUME NEW k \in Keys,
               \/ PushOk(k) \/ PushUnacked(k) \/ PushRefused(k) \/ PageSkipped(k)
               \/ Page(k) \/ PageBlind(k) \/ PageUnacked(k) \/ PageRefused(k)
               \/ Teams(k) \/ TeamsFails(k)
        PROVE  [Ledger!Next]_(Ledger!vars)
    BY <1>2, <1>5, <2>1
  <2> QED BY <1>1, <1>3, <1>5, <1>6, <2>1 DEF Cycle
<1>7. CASE Crash
  BY <1>3, <1>5, <1>7
<1> QED BY <1>1, <1>4, <1>6, <1>7 DEF Next

\* The collectors keep the ledger, all seven vendors, whatever fails and in whatever order:
\* what is paged or told is open at that moment, what is settled is not, and no event is
\* written off before Datadog has resolved it.
THEOREM LedgerIsKept == Spec => LedgerKept
<1>1. Init => Ledger!Init
  <2> SUFFICES ASSUME Init PROVE Ledger!Init
    OBVIOUS
  <2>1. /\ messages = [k \in Keys |-> NoRow] /\ collector = Idle /\ lost = {}
        /\ datadog = [k \in Keys |-> "none"]
    BY DEF Init
  <2>2. collector.phase # "stamp"
    BY <2>1, IdleLists
  <2>3. LRow = [k \in Keys |-> "none"] /\ LNoted = {} /\ LTold = {}
    BY <2>1, <2>2 DEF LRow, RowOf, LNoted, LTold, NoRow
  <2> QED BY <2>1, <2>3 DEF Ledger!Init, LRow, LNoted, LTold
<1> QED BY <1>1, LedgerInvariant, LedgerStep, PTL DEF Spec, LedgerKept, Ledger!Spec

\* The safety half of ResolutionReachesDatadog: once a closed alert's open event is known,
\* push_datadog_resolutions() owes Datadog its resolution until it is posted, or the alert
\* comes back or is purged.  No refused POST, failed transaction, crash, or interleaving of
\* the purge with the cycle makes the debt disappear.
THEOREM ResolutionStaysDue == Spec => Ledger!NeverDropped
<1>1. ASSUME TypeOK, [Ledger!Next]_(Ledger!vars), NEW k \in Keys, Ledger!StaysDue(k)
      PROVE  Ledger!StaysDue(k)' \/ datadog'[k] = "ok" \/ LRow'[k] # "closed"
  <2>1. LRow[k] = "closed" /\ datadog[k] = "open" /\ k \in LNoted
    BY <1>1 DEF Ledger!StaysDue, LRow, LNoted
  <2>2. \/ datadog'[k] = "open" /\ k \in LNoted'
        \/ datadog'[k] = "ok" \/ LRow'[k] # "closed"
    <3>1. CASE UNCHANGED Ledger!vars
      BY <2>1, <3>1 DEF Ledger!vars, LRow, LNoted
    <3>2. CASE Ledger!Update \/ Ledger!Forget
      BY <2>1, <3>2 DEF Ledger!Update, Ledger!Forget, Ledger!Forgotten, LRow, LNoted
    <3>3. ASSUME NEW j \in Keys, \/ Ledger!Page(j) \/ Ledger!Record(j) \/ Ledger!Lose(j)
                                 \/ Ledger!Resolve(j) \/ Ledger!WriteOff(j) \/ Ledger!Tell(j)
          PROVE  \/ datadog'[k] = "open" /\ k \in LNoted'
                 \/ datadog'[k] = "ok" \/ LRow'[k] # "closed"
      <4>1. CASE Ledger!Page(j)
        BY <2>1, <4>1 DEF Ledger!Page, LRow, LNoted
      <4>2. CASE Ledger!Record(j) \/ Ledger!Lose(j) \/ Ledger!Tell(j)
        BY <2>1, <4>2 DEF Ledger!Record, Ledger!Lose, Ledger!Tell, LRow, LNoted
      <4>3. CASE Ledger!Resolve(j)
        <5>1. datadog' = [datadog EXCEPT ![j] = "ok"] /\ LNoted' = LNoted
          BY <4>3 DEF Ledger!Resolve, LNoted
        <5>2. datadog'[k] = "ok" \/ datadog'[k] = datadog[k]
          BY <5>1 DEF TypeOK
        <5> QED BY <2>1, <5>1, <5>2
      <4>4. CASE Ledger!WriteOff(j)
        <5>1. datadog' = datadog /\ datadog[j] = "ok" /\ LNoted' = LNoted \ {j}
          BY <4>4 DEF Ledger!WriteOff, LNoted
        <5> QED BY <2>1, <5>1
      <4> QED BY <3>3, <4>1, <4>2, <4>3, <4>4
    <3> QED BY <1>1, <3>1, <3>2, <3>3 DEF Ledger!Next
  <2> QED BY <2>2 DEF Ledger!StaysDue, LRow, LNoted
<1>2. TypeOK /\ [Ledger!Next]_(Ledger!vars) =>
         [\A k \in Keys : Ledger!StaysDue(k) =>
             Ledger!StaysDue(k)' \/ datadog'[k] = "ok" \/ LRow'[k] # "closed"]_(Ledger!vars)
  BY <1>1
<1> QED BY <1>2, LedgerIsKept, TypeCorrect, PTL
        DEF LedgerKept, Ledger!Spec, Ledger!NeverDropped, LRow

(***************************************************************************)
(* How far "A Datadog event's lifecycle mirrors USM.messages" holds: until *)
(* an alert recurs.                                                        *)
(***************************************************************************)

\* Paging is on, no POST is refused and the process does not end within a cycle; requests,
\* statements and answers may be lost otherwise.
Undisturbed ==
    /\ PagingReads \subseteq {[enabled |-> TRUE, since |-> 0]}
    /\ Faults \cap {"post", "crash"} = {}

\* No alert is raised a second time.  (HPE and NetApp number theirs afresh.)
NothingRecurs == MaxRaises <= 1 \/ Vendors \subseteq {"hpe", "netapp"}

\* The page of k is still to come in this cycle.  (NetApp pushes after it has paged.)
Listed(k) == \E m \in collector.new_alerts : k = Key(m.id)
Ahead(k) ==
    \/ /\ collector.phase \in {"resolve", "push", "pushing", "clear"}
       /\ vendor # "netapp" /\ Listed(k)
    \/ collector.phase = "dispatch" /\ Listed(k)
    \/ collector.phase \in {"page", "stamp"} /\ k \in collector.todo

Recent(k) == ~Older(messages[k].opened, NotifyAge)

\* A severe, recent alert the store holds open is open in Datadog or about to be, and a
\* flag on an open row says so, unless an answer has left the alert out.
Mirrored(k) == k[1] \notin missed =>
    /\ Open(k) /\ k[1] \in Severe /\ Recent(k) => datadog[k] = "open" \/ Ahead(k)
    /\ Open(k) /\ Noted(k) => datadog[k] = "open"

\* Rows and messages of an alert raised once say when.
DatedOnce(opened, i) == opened = alert[i].opened /\ alert[i].raises >= 1
RaisedOnce ==
    /\ \A k \in Keys : messages[k].stored => DatedOnce(messages[k].opened, k[1])
    /\ \A m \in collector.fetch.messages : DatedOnce(m.opened, m.id)

MirrorInv == RaisedOnce /\ \A k \in Keys : Mirrored(k)

\* What a step may do to a row it does not open: leave its event open, and its page to come
\* until it is delivered.
LEMMA MirrorKept ==
    ASSUME TypeOK, TypeOK', \A k \in Keys : Mirrored(k), now' >= now,
           missed \subseteq missed',
           ASSUME NEW k \in Keys, k[1] \notin missed, Open(k)'
           PROVE  /\ Open(k) /\ messages'[k].opened = messages[k].opened
                  /\ Noted(k)' => Noted(k) \/ datadog'[k] = "open"
                  /\ datadog[k] = "open" => datadog'[k] = "open"
                  /\ Ahead(k) => Ahead(k)' \/ datadog'[k] = "open"
    PROVE  \A k \in Keys : Mirrored(k)'
<1> SUFFICES ASSUME NEW k \in Keys, k[1] \notin missed, Open(k)'
             PROVE  /\ k[1] \in Severe /\ Recent(k)' => datadog'[k] = "open" \/ Ahead(k)'
                    /\ Noted(k)' => datadog'[k] = "open"
  BY DEF Mirrored, Open
<1>1. /\ Open(k) /\ messages'[k].opened = messages[k].opened
      /\ Noted(k)' => Noted(k) \/ datadog'[k] = "open"
      /\ datadog[k] = "open" => datadog'[k] = "open"
      /\ Ahead(k) => Ahead(k)' \/ datadog'[k] = "open"
  OBVIOUS
<1>2. Mirrored(k)
  OBVIOUS
<1>3. Recent(k)' => Recent(k)
  <2>1. messages[k].opened \in Int /\ now \in Int /\ now' \in Int
    BY ConstantsAssumption DEF TypeOK, Row, Time
  <2> QED BY <1>1, <2>1, ConstantsAssumption DEF Recent, Older
<1> QED BY <1>1, <1>2, <1>3 DEF Mirrored

\* A step that changes no row, event or key, and whose pages to come stay to come.
LEMMA MirrorQuiet ==
    ASSUME TypeOK, TypeOK', \A k \in Keys : Mirrored(k), UNCHANGED <<messages, datadog>>,
           now' >= now, missed \subseteq missed', \A k \in Keys : Ahead(k) => Ahead(k)'
    PROVE  \A k \in Keys : Mirrored(k)'
<1>1. ASSUME NEW k \in Keys, Open(k)'
      PROVE  /\ Open(k) /\ messages'[k].opened = messages[k].opened
             /\ Noted(k)' => Noted(k) \/ datadog'[k] = "open"
             /\ datadog[k] = "open" => datadog'[k] = "open"
             /\ Ahead(k) => Ahead(k)' \/ datadog'[k] = "open"
  BY <1>1 DEF Open, Noted
<1> QED BY <1>1, MirrorKept

\* What a committed upsert is, for every vendor.
LEMMA SaveForm ==
    ASSUME TypeOK, Save
    PROVE  /\ UNCHANGED <<vendor, now, alert, datadog, seed>> /\ collector.phase = "save"
           /\ collector'.fetch.messages \subseteq collector.fetch.messages
           /\ collector'.phase \in {"resolve", "push", "dispatch"}
           /\ vendor = "netapp" => collector'.phase = "dispatch"
           /\ \E recent \in BOOLEAN : collector'.new_alerts = NewAlerts(recent)
           /\ missed' = missed
           /\ \A k \in Keys \ SeenKeys :
                 \/ messages'[k] = messages[k]
                 \/ messages'[k] = [messages[k] EXCEPT !.resolved = TRUE]
           /\ \A k \in SeenKeys : \E stays \in BOOLEAN : messages'[k] = Upserted(k, stays)
<1>1. ASSUME NEW rows, NEW recent \in BOOLEAN, NEW next \in {"resolve", "push", "dispatch"},
             CommitSave(rows, recent, next)
      PROVE  /\ UNCHANGED <<vendor, now, alert, datadog, seed>> /\ collector.phase = "save"
             /\ collector'.fetch.messages \subseteq collector.fetch.messages
             /\ collector'.phase = next /\ messages' = rows /\ missed' = missed
             /\ \E r \in BOOLEAN : collector'.new_alerts = NewAlerts(r)
  <2>1. NoFetch.messages = {}
    BY DEF NoFetch, Failed
  <2>2. /\ collector'.phase = next /\ collector'.new_alerts = NewAlerts(recent)
        /\ collector'.fetch = IF next = "resolve" THEN collector.fetch ELSE NoFetch
    BY <1>1 DEF CommitSave, TypeOK
  <2> QED BY <1>1, <2>1, <2>2 DEF CommitSave
<1>2. /\ \A k \in SeenKeys : k \in Keys /\ messages[k].resolved \in BOOLEAN
      /\ \A k \in SeenKeys : \E stays \in BOOLEAN : UpsertedKeeping[k] = Upserted(k, stays)
      /\ \A k \in SeenKeys : UpsertedReopening[k] = Upserted(k, FALSE)
      /\ \A k \in SeenKeys : AbsentResolved(UpsertedReopening)[k] = Upserted(k, FALSE)
  <2>1. \A k \in SeenKeys : k \in Keys /\ messages[k].resolved \in BOOLEAN
    BY SeenKeyIsSeen DEF TypeOK, Row
  <2> QED BY <2>1 DEF UpsertedKeeping, UpsertedReopening, AbsentResolved
<1>3. \A k \in Keys \ SeenKeys :
         /\ UpsertedKeeping[k] = messages[k] /\ UpsertedReopening[k] = messages[k]
         /\ \/ AbsentResolved(UpsertedReopening)[k] = messages[k]
            \/ AbsentResolved(UpsertedReopening)[k] = [messages[k] EXCEPT !.resolved = TRUE]
  BY DEF UpsertedKeeping, UpsertedReopening, AbsentResolved
<1>4. PICK rows \in {UpsertedKeeping, UpsertedReopening, AbsentResolved(UpsertedReopening)},
           recent \in BOOLEAN, next \in {"resolve", "push", "dispatch"} :
        CommitSave(rows, recent, next) /\ (vendor = "netapp" => next = "dispatch")
  BY DEF Save, PureSave, HpeSave, HitachiSave, DellSave, OracleSave, StorageGridSave,
         NetAppSave
<1>5. /\ UNCHANGED <<vendor, now, alert, datadog, seed>> /\ collector.phase = "save"
      /\ collector'.fetch.messages \subseteq collector.fetch.messages
      /\ collector'.phase = next /\ messages' = rows /\ missed' = missed
      /\ \E r \in BOOLEAN : collector'.new_alerts = NewAlerts(r)
  BY <1>1, <1>4
<1>6. \A k \in SeenKeys : \E stays \in BOOLEAN : rows[k] = Upserted(k, stays)
  BY <1>2, <1>4
<1>7. \A k \in Keys \ SeenKeys :
         rows[k] = messages[k] \/ rows[k] = [messages[k] EXCEPT !.resolved = TRUE]
  BY <1>3, <1>4
<1> QED BY <1>4, <1>5, <1>6, <1>7

\* The message an upsert takes for a key, and what it makes of its row.
LEMMA UpsertedDated ==
    ASSUME TypeOK, NEW k \in SeenKeys, NEW stays \in BOOLEAN
    PROVE  /\ k \in Keys /\ k[1] \in Seen /\ k = Key(k[1])
           /\ MessageOf(k[1]) \in collector.fetch.messages /\ MessageOf(k[1]).id = k[1]
           /\ Upserted(k, stays).stored
           /\ Upserted(k, stays).opened = MessageOf(k[1]).opened
           /\ Upserted(k, stays).datadog_notified =
                 IF messages[k].stored THEN messages[k].datadog_notified ELSE FALSE
<1>1. k \in Keys /\ k[1] \in Seen /\ k = Key(k[1])
  <2>1. PICK i \in Seen : k = Key(i)
    BY DEF SeenKeys
  <2>2. k[1] = i
    BY <2>1 DEF Key
  <2> QED BY <2>1, <2>2, SeenKeyIsSeen
<1>2. PICK m \in collector.fetch.messages : m.id = k[1]
  BY <1>1 DEF Seen
<1>3. MessageOf(k[1]) \in collector.fetch.messages /\ MessageOf(k[1]).id = k[1]
  BY <1>2 DEF MessageOf
<1>4. messages[k] \in Row
  BY <1>1 DEF TypeOK
<1>5. CASE messages[k].stored
  BY <1>1, <1>3, <1>4, <1>5 DEF Upserted, Row
<1>6. CASE ~messages[k].stored
  BY <1>1, <1>3, <1>6 DEF Upserted, NoRow
<1> QED BY <1>5, <1>6

\* An upsert opens only rows that are new, and lists them if they are to be paged.
LEMMA MirrorSave ==
    ASSUME TypeOK, RowsBlank, CountInv, MirrorInv, NothingRecurs, Save
    PROVE  MirrorInv'
<1>1. /\ UNCHANGED <<vendor, now, alert, datadog, seed>> /\ collector.phase = "save"
      /\ collector'.fetch.messages \subseteq collector.fetch.messages
      /\ collector'.phase \in {"resolve", "push", "dispatch"}
      /\ vendor = "netapp" => collector'.phase = "dispatch"
      /\ missed' = missed
  BY SaveForm
<1>2. PICK recent \in BOOLEAN : collector'.new_alerts = NewAlerts(recent)
  BY SaveForm
<1>3. ASSUME NEW k \in Keys \ SeenKeys
      PROVE  /\ messages'[k].stored = messages[k].stored
             /\ messages'[k].opened = messages[k].opened
             /\ messages'[k] = messages[k] \/ messages'[k].resolved
  <2>1. \/ messages'[k] = messages[k]
        \/ messages'[k] = [messages[k] EXCEPT !.resolved = TRUE]
    BY SaveForm
  <2>2. messages[k] \in Row
    BY DEF TypeOK
  <2> QED BY <2>1, <2>2 DEF Row
<1>4. ASSUME NEW k \in SeenKeys
      PROVE  /\ k \in Keys /\ k = Key(k[1])
             /\ messages'[k].stored /\ messages'[k].opened = MessageOf(k[1]).opened
             /\ DatedOnce(MessageOf(k[1]).opened, k[1])
             /\ MessageOf(k[1]) \in collector.fetch.messages /\ MessageOf(k[1]).id = k[1]
             /\ messages'[k].datadog_notified =
                   IF messages[k].stored THEN messages[k].datadog_notified ELSE FALSE
             /\ k[1] \notin missed => ~Resolved(k)
  <2>1. PICK stays \in BOOLEAN : messages'[k] = Upserted(k, stays)
    BY SaveForm
  <2>2. DatedOnce(MessageOf(k[1]).opened, k[1])
    BY UpsertedDated DEF MirrorInv, RaisedOnce
  <2>3. ASSUME k[1] \notin missed
        PROVE  ~Resolved(k)
    <3>1. k[1] \in Seen /\ k[1] \in Ids /\ k = Key(k[1])
      BY UpsertedDated DEF Keys
    <3>2. Counted(k[1])
      BY <3>1 DEF CountInv
    <3>3. Count(k[1]) \in Nat /\ alert[k[1]].raises \in 0..MaxRaises
      BY <3>1, CountTypes DEF TypeOK
    <3>4. alert[k[1]].raises <= 1
      BY <3>2, <3>3, ConstantsAssumption
      DEF NothingRecurs, Counted, Dated, Recurs, TypeOK
    <3>5. Resolved(k) => Count(k[1]) < alert[k[1]].raises /\ Count(k[1]) >= 1
      BY <1>1, <2>3, <3>1, <3>2 DEF Counted, Uncounted, Resolved
    <3> QED BY <3>3, <3>4, <3>5, ConstantsAssumption
  <2> QED BY <2>1, <2>2, <2>3, UpsertedDated
<1>5. RaisedOnce'
  <2>1. ASSUME NEW k \in Keys, messages'[k].stored
        PROVE  DatedOnce(messages'[k].opened, k[1])
    <3>1. CASE k \in SeenKeys
      BY <1>4, <3>1
    <3>2. CASE k \notin SeenKeys
      BY <1>3, <2>1, <3>2 DEF MirrorInv, RaisedOnce
    <3> QED BY <3>1, <3>2
  <2> QED BY <1>1, <2>1 DEF MirrorInv, RaisedOnce, DatedOnce
<1>6. ASSUME NEW k \in Keys, k[1] \notin missed, Open(k)'
      PROVE  /\ k[1] \in Severe /\ Recent(k)' => datadog'[k] = "open" \/ Ahead(k)'
             /\ Noted(k)' => datadog'[k] = "open"
  <2>1. Mirrored(k) /\ k[1] \notin missed /\ ~Ahead(k)
    BY <1>1, <1>6 DEF MirrorInv, Ahead
  <2>2. messages'[k].stored /\ ~messages'[k].resolved
    BY <1>6 DEF Open
  <2>3. CASE k \notin SeenKeys
    <3>1. messages'[k] = messages[k]
      BY <1>3, <2>2, <2>3
    <3> QED BY <1>1, <2>1, <2>2, <3>1 DEF Mirrored, Open, Noted, Recent, Older
  <2>4. CASE k \in SeenKeys /\ messages[k].stored
    <3>1. Open(k)
      BY <1>4, <1>6, <2>4 DEF Open, Resolved
    <3>2. messages'[k].opened = messages[k].opened
      BY <1>4, <2>4 DEF MirrorInv, RaisedOnce, DatedOnce
    <3>3. messages'[k].datadog_notified = messages[k].datadog_notified
      BY <1>4, <2>4
    <3> QED BY <1>1, <2>1, <3>1, <3>2, <3>3 DEF Mirrored, Noted, Recent, Older
  <2>5. CASE k \in SeenKeys /\ ~messages[k].stored
    <3>1. ~Noted(k)'
      BY <1>4, <2>5 DEF Noted
    <3>2. ASSUME k[1] \in Severe, Recent(k)'
          PROVE  Ahead(k)'
      <4>1. PICK m \in collector.fetch.messages : m = MessageOf(k[1]) /\ m.id = k[1]
        BY <1>4, <2>5
      <4>2. messages[k] = NoRow /\ ~NoRow.teams_notified
        BY <2>5 DEF RowsBlank, NoRow
      <4>3. ~Older(m.opened, NotifyAge)
        BY <1>1, <1>4, <2>5, <3>2, <4>1 DEF Recent, Older
      <4>4. k = Key(m.id)
        BY <1>4, <2>5, <4>1
      <4>5. m \in NewAlerts(recent)
        BY <3>2, <4>1, <4>2, <4>3, <4>4 DEF NewAlerts
      <4>6. Listed(k)'
        BY <1>1, <1>2, <4>4, <4>5 DEF Listed, Key
      <4> QED BY <1>1, <4>6 DEF Ahead
    <3> QED BY <3>1, <3>2
  <2> QED BY <2>3, <2>4, <2>5
<1> QED BY <1>1, <1>5, <1>6 DEF MirrorInv, Mirrored, Open

\* Dates stay true: an alert is raised when nothing of it is stored or held yet.
LEMMA RaisedOnceStep ==
    ASSUME LedgerInv, TypeOK', CountInv, MirrorInv, NothingRecurs, [Next]_vars, ~Save
    PROVE  RaisedOnce'
<1> USE DEF LedgerInv, TrackInv
<1>1. CASE \E j \in Ids : Raise(j)
  <2>1. PICK j \in Ids : Raise(j)
    BY <1>1
  <2>2. UNCHANGED <<messages, collector>> /\ \A i \in Ids \ {j} : alert'[i] = alert[i]
    BY <2>1 DEF Raise, TypeOK
  <2>3. alert[j].raises = 0
    <3>1. alert[j].raises \in 0..MaxRaises /\ alert[j].raises < MaxRaises
      BY <2>1 DEF Raise, TypeOK
    <3>2. alert[j].raises = 0 \/ Recurs
      BY <2>1 DEF Raise
    <3>3. CASE MaxRaises <= 1
      BY <3>1, <3>3, ConstantsAssumption
    <3>4. CASE Vendors \subseteq {"hpe", "netapp"}
      BY <3>2, <3>4 DEF Recurs, TypeOK
    <3> QED BY <3>3, <3>4 DEF NothingRecurs
  <2>4. \A k \in Keys : k[1] \in Ids
    BY DEF Keys
  <2>5. \A m \in collector.fetch.messages : m.id \in Ids
    BY DEF TypeOK, Fetch, Messages
  <2> QED BY <2>2, <2>3, <2>4, <2>5 DEF MirrorInv, RaisedOnce, DatedOnce
<1>2. CASE Collect
  <2>1. PICK f \in Fetches[vendor] : collector' = [Idle EXCEPT !.phase = "save", !.fetch = f]
    BY <1>2 DEF Collect
  <2>2. collector'.fetch = f /\ UNCHANGED <<messages, alert>>
    BY <1>2, <2>1 DEF Collect, Idle
  <2>3. ASSUME NEW m \in f.messages
        PROVE  DatedOnce(m.opened, m.id)
    <3>1. m.id \in Ids /\ Fetchable(m.id) /\ m.opened = alert[m.id].opened
      BY FetchTells
    <3> QED BY <3>1 DEF CountInv, Counted, Fetchable, DatedOnce
  <2> QED BY <2>2, <2>3 DEF MirrorInv, RaisedOnce, DatedOnce
<1>3. CASE ~Collect /\ ~\E j \in Ids : Raise(j)
  <2>1. \A i \in Ids : alert'[i].opened = alert[i].opened /\ alert'[i].raises = alert[i].raises
    <3>1. CASE \E j \in Ids : Clear(j)
      <4>1. PICK j \in Ids : alert' = [alert EXCEPT ![j].up = FALSE]
        BY <3>1 DEF Clear
      <4>2. \A i \in Ids \ {j} : alert'[i] = alert[i]
        BY <4>1 DEF TypeOK
      <4>3. alert'[j].opened = alert[j].opened /\ alert'[j].raises = alert[j].raises
        BY <4>1 DEF TypeOK
      <4> QED BY <4>2, <4>3
    <3>2. CASE UNCHANGED alert
      BY <3>2
    <3> QED BY <1>3, <3>1, <3>2 DEF Next, Cycle, vars, Tick, SaveFails, ResolveAbsent,
         ResolveAged, ResolveFails, PushQuery, PushQueryFails, PushDone, ClearFlag,
         ClearFlagFails, Dispatch, PageDone, Stamp, StampFails, TeamsDone, Mark, MarkFails,
         PushOk, PushUnacked, PushRefused, PageSkipped, Page, PageBlind, Deliver,
         PageUnacked, PageRefused, Teams, TeamsFails, AlertCleanup, Crash
  <2>2. collector'.fetch.messages \subseteq collector.fetch.messages
    <3>1. CASE \/ UNCHANGED collector \/ collector' = Idle
               \/ collector' = [Idle EXCEPT !.phase = "age"]
               \/ \E p \in {"push", "idle", "dispatch"} : collector' = GoTo(p)
      <4>1. /\ Idle.fetch.messages = {} /\ [Idle EXCEPT !.phase = "age"].fetch.messages = {}
            /\ \A p \in {"push", "idle", "dispatch"} : GoTo(p).fetch.messages = {}
        BY DEF Idle, GoTo, NoFetch, Failed, TypeOK
      <4> QED BY <3>1, <4>1
    <3>2. CASE collector'.fetch = collector.fetch
      BY <3>2
    <3> QED BY <1>3, <3>1, <3>2
        DEF Next, Cycle, vars, Clear, Tick, SaveFails, ResolveAbsent, ResolveAged,
         ResolveFails, PushQuery, PushQueryFails, PushDone, ClearFlag, ClearFlagFails,
         Dispatch, PageDone, Stamp, StampFails, TeamsDone, Mark, MarkFails, PushOk,
         PushUnacked, PushRefused, PageSkipped, Page, PageBlind, Deliver, PageUnacked,
         PageRefused, Teams, TeamsFails, AlertCleanup, Crash, AfterPush, Taken, TypeOK
  <2>3. ASSUME NEW k \in Keys, messages'[k].stored
        PROVE  messages[k].stored /\ messages'[k].opened = messages[k].opened
    <3>1. CASE ResolveAbsent \/ ResolveAged
      <4>1. \/ messages'[k] = messages[k]
            \/ messages'[k] = [messages[k] EXCEPT !.resolved = TRUE]
        BY <3>1 DEF ResolveAbsent, ResolveAged, AbsentResolved
      <4> QED BY <2>3, <4>1, ClosedRow
    <3>2. CASE ClearFlag \/ Stamp \/ Mark
      <4>1. PICK j \in Keys, field \in {"teams_notified", "datadog_notified"}, v \in BOOLEAN :
              messages' = Set(j, field, v)
        <5>1. collector.cur \subseteq Keys
          BY DEF TypeOK
        <5> QED BY <3>2, <5>1 DEF ClearFlag, Stamp, Mark
      <4> QED BY <2>3, <4>1, SetKeepsCounts DEF SameCounts
    <3>3. CASE AlertCleanup
      BY <2>3, <3>3 DEF AlertCleanup, NoRow
    <3>4. CASE UNCHANGED messages
      BY <2>3, <3>4
    <3> QED BY <1>3, <3>1, <3>2, <3>3, <3>4
        DEF Next, Cycle, vars, Clear, Tick, SaveFails, ResolveFails, PushQuery,
            PushQueryFails, PushDone, ClearFlagFails, Dispatch, PageDone, StampFails,
            TeamsDone, MarkFails, PushOk, PushUnacked, PushRefused, PageSkipped, Page,
            PageBlind, Deliver, PageUnacked, PageRefused, Teams, TeamsFails, Crash
  <2>4. \A k \in Keys : k[1] \in Ids
    BY DEF Keys
  <2>5. \A m \in collector.fetch.messages : m.id \in Ids
    BY DEF TypeOK, Fetch, Messages
  <2> QED BY <2>1, <2>2, <2>3, <2>4, <2>5 DEF MirrorInv, RaisedOnce, DatedOnce
<1> QED BY <1>1, <1>2, <1>3

\* A thread that keeps its list keeps the pages to come, if it still has to send them.
LEMMA ListedKept ==
    ASSUME NEW k, Listed(k), collector'.new_alerts = collector.new_alerts,
           UNCHANGED <<vendor, seed>>
    PROVE  Listed(k)'
BY DEF Listed, Key

LEMMA GoToListed ==
    ASSUME TypeOK, NEW p, p # "idle", collector' = GoTo(p)
    PROVE  collector'.phase = p /\ collector'.new_alerts = collector.new_alerts
BY DEF GoTo, TypeOK

\* The clock never goes back.
LEMMA ClockForward ==
    ASSUME TypeOK, now' = now \/ now' = now + 1
    PROVE  now' >= now
<1>1. now \in Int
  BY ConstantsAssumption DEF TypeOK, Time
<1> QED BY <1>1

\* The steps that only move the thread on.
LEMMA MirrorMoves ==
    ASSUME LedgerInv, TypeOK', MirrorInv,
           \/ SaveFails \/ ResolveFails \/ PushQuery \/ PushQueryFails \/ PushDone
           \/ ClearFlagFails \/ PageDone \/ StampFails \/ TeamsDone \/ MarkFails \/ Collect
           \/ \E j \in Ids : Raise(j) \/ Clear(j)
           \/ Tick \/ UNCHANGED vars
    PROVE  \A k \in Keys : Mirrored(k)'
<1> USE DEF LedgerInv, TrackInv
<1>1. \A k \in Keys : Mirrored(k)
  BY DEF MirrorInv
<1>2. UNCHANGED <<messages, datadog, vendor, seed>> /\ now' >= now /\ missed \subseteq missed'
  <2>1. /\ UNCHANGED <<messages, datadog, vendor, seed>> /\ (now' = now \/ now' = now + 1)
        /\ missed \subseteq missed'
    BY DEF SaveFails, ResolveFails, PushQuery, PushQueryFails, PushDone, ClearFlagFails,
       PageDone, StampFails, TeamsDone, MarkFails, Collect, Raise, Clear, Tick, vars
  <2> QED BY <2>1, ClockForward
<1> SUFFICES ASSUME NEW k \in Keys, Ahead(k)
             PROVE  Ahead(k)'
  BY <1>1, <1>2, MirrorQuiet
<1>3. CASE SaveFails \/ Collect \/ TeamsDone \/ MarkFails
  BY <1>3 DEF SaveFails, Collect, TeamsDone, MarkFails, Ahead
<1>4. CASE PageDone
  BY <1>4 DEF PageDone, Ahead
<1>5. CASE ResolveFails
  <2>1. collector.phase = "resolve" /\ vendor # "netapp" /\ Listed(k)
    BY <1>5 DEF ResolveFails, Ahead
  <2>2. collector'.phase = "push" /\ collector'.new_alerts = collector.new_alerts
    BY <1>5, GoToListed DEF ResolveFails
  <2> QED BY <1>2, <2>1, <2>2, ListedKept DEF Ahead
<1>6. CASE PushQueryFails \/ PushDone
  <2>1. vendor # "netapp" /\ Listed(k)
    BY <1>6 DEF PushQueryFails, PushDone, Ahead
  <2>2. collector'.phase = "dispatch" /\ collector'.new_alerts = collector.new_alerts
    BY <1>6, <2>1, GoToListed DEF PushQueryFails, PushDone, AfterPush
  <2> QED BY <1>2, <2>1, <2>2, ListedKept DEF Ahead
<1>7. CASE PushQuery \/ ClearFlagFails
  <2>1. vendor # "netapp" /\ Listed(k)
    BY <1>7 DEF PushQuery, ClearFlagFails, Ahead
  <2>2. collector'.phase = "pushing" /\ collector'.new_alerts = collector.new_alerts
    BY <1>7 DEF PushQuery, ClearFlagFails, TypeOK
  <2> QED BY <1>2, <2>1, <2>2, ListedKept DEF Ahead
<1>8. CASE StampFails
  <2>1. collector'.phase = "page" /\ collector'.todo = collector.todo
    BY <1>8 DEF StampFails, TypeOK
  <2> QED BY <1>8, <2>1 DEF StampFails, Ahead
<1>9. CASE \/ \E j \in Ids : Raise(j) \/ Clear(j)
           \/ Tick \/ UNCHANGED vars
  BY <1>9 DEF Raise, Clear, Tick, vars, Ahead, Listed, Key
<1> QED BY <1>3, <1>4, <1>5, <1>6, <1>7, <1>8, <1>9

\* Dispatch lists for paging all that is to come.
LEMMA MirrorDispatch ==
    ASSUME LedgerInv, TypeOK', MirrorInv, Undisturbed, Dispatch
    PROVE  \A k \in Keys : Mirrored(k)'
<1> USE DEF LedgerInv, TrackInv
<1>1. UNCHANGED <<messages, datadog, vendor, seed, now, missed>> /\ now' >= now
  BY ClockForward DEF Dispatch
<1>2. PICK r \in PagingReads :
        collector' = [collector EXCEPT
           !.phase = "page",
           !.todo = {Key(m.id) : m \in {n \in collector.new_alerts :
                                           r.enabled /\ n.opened >= r.since}}]
  BY DEF Dispatch
<1>3. r.enabled /\ r.since = 0
  BY DEF Undisturbed
<1>4. \A m \in collector.new_alerts : m.opened >= 0
  BY ConstantsAssumption DEF TypeOK, Messages, Time
<1>5. /\ collector'.phase = "page"
      /\ \A m \in collector.new_alerts : Key(m.id) \in collector'.todo
  BY <1>2, <1>3, <1>4 DEF TypeOK
<1>6. \A k \in Keys : Ahead(k) => Ahead(k)'
  BY <1>5 DEF Dispatch, Ahead, Listed
<1> QED BY <1>1, <1>6, MirrorQuiet DEF MirrorInv

\* Closing rows, purging them and writing their flags opens none.
LEMMA MirrorRows ==
    ASSUME LedgerInv, TypeOK', MirrorInv,
           ResolveAbsent \/ ResolveAged \/ AlertCleanup \/ ClearFlag \/ Stamp \/ Mark
    PROVE  \A k \in Keys : Mirrored(k)'
<1> USE DEF LedgerInv, TrackInv
<1>1. UNCHANGED <<datadog, vendor, seed, now, missed>> /\ now' >= now
  BY ClockForward DEF ResolveAbsent, ResolveAged, AlertCleanup, ClearFlag, Stamp, Mark
<1>2. ASSUME NEW k \in Keys, Ahead(k)
      PROVE  Ahead(k)'
  <2>1. CASE ResolveAbsent
    <3>1. collector.phase = "resolve" /\ vendor # "netapp" /\ Listed(k)
      BY <1>2, <2>1 DEF ResolveAbsent, Ahead
    <3>2. collector'.phase = "push" /\ collector'.new_alerts = collector.new_alerts
      BY <2>1, GoToListed DEF ResolveAbsent
    <3> QED BY <1>1, <3>1, <3>2, ListedKept DEF Ahead
  <2>2. CASE ResolveAged \/ Mark
    BY <1>2, <2>2 DEF ResolveAged, Mark, Ahead
  <2>3. CASE AlertCleanup
    BY <1>2, <2>3 DEF AlertCleanup, Ahead, Listed, Key
  <2>4. CASE ClearFlag
    <3>1. collector'.phase = "pushing" /\ collector'.new_alerts = collector.new_alerts
      BY <2>4 DEF ClearFlag, TypeOK
    <3>2. vendor # "netapp" /\ Listed(k)
      BY <1>2, <2>4 DEF ClearFlag, Ahead
    <3> QED BY <1>1, <3>1, <3>2, ListedKept DEF Ahead
  <2>5. CASE Stamp
    <3>1. collector'.phase = "page" /\ collector'.todo = collector.todo
      BY <2>5 DEF Stamp, TypeOK
    <3> QED BY <1>2, <2>5, <3>1 DEF Stamp, Ahead
  <2> QED BY <2>1, <2>2, <2>3, <2>4, <2>5
<1>3. ASSUME NEW k \in Keys, Open(k)'
      PROVE  /\ Open(k) /\ messages'[k].opened = messages[k].opened
             /\ Noted(k)' => Noted(k) \/ datadog'[k] = "open"
  <2> messages[k] \in Row
    BY DEF TypeOK
  <2>1. CASE ResolveAbsent \/ ResolveAged
    <3>1. \/ messages'[k] = messages[k]
          \/ messages'[k] = [messages[k] EXCEPT !.resolved = TRUE]
      BY <2>1 DEF ResolveAbsent, ResolveAged, AbsentResolved
    <3> QED BY <1>3, <3>1 DEF Open, Noted, Row
  <2>2. CASE AlertCleanup
    BY <1>3, <2>2 DEF AlertCleanup, Open, Noted, NoRow
  <2>3. CASE ClearFlag \/ Stamp \/ Mark
    <3>1. PICK j \in collector.cur, field \in {"teams_notified", "datadog_notified"},
               v \in BOOLEAN :
            /\ messages' = Set(j, field, v)
            /\ field = "datadog_notified" /\ v => collector.phase = "stamp"
      BY <2>3 DEF ClearFlag, Stamp, Mark
    <3>2. j \in Keys
      BY <3>1 DEF TypeOK
    <3>3. SameCounts(k)
      BY <3>1, <3>2, SetKeepsCounts
    <3>4. Noted(k)' => Noted(k) \/ (k = j /\ collector.phase = "stamp")
      BY <3>1, <3>2 DEF Set, Noted, TypeOK, Row
    <3>5. collector.phase = "stamp" => datadog[j] = "open"
      BY <3>1 DEF ListInv
    <3> QED BY <1>1, <1>3, <3>3, <3>4, <3>5 DEF SameCounts, Open
  <2> QED BY <2>1, <2>2, <2>3
<1>4. ASSUME NEW k \in Keys, k[1] \notin missed, Open(k)'
      PROVE  /\ Open(k) /\ messages'[k].opened = messages[k].opened
             /\ Noted(k)' => Noted(k) \/ datadog'[k] = "open"
             /\ datadog[k] = "open" => datadog'[k] = "open"
             /\ Ahead(k) => Ahead(k)' \/ datadog'[k] = "open"
  BY <1>1, <1>2, <1>3, <1>4
<1> QED BY <1>1, <1>4, MirrorKept DEF MirrorInv

\* Settling an event: its row is not open, whatever happened since the list was read.
LEMMA MirrorSettle ==
    ASSUME LedgerInv, TypeOK', MirrorInv, NEW j \in Keys, PushOk(j) \/ PushUnacked(j)
    PROVE  \A k \in Keys : Mirrored(k)'
<1> USE DEF LedgerInv, TrackInv
<1>1. /\ UNCHANGED <<messages, vendor, seed, now, missed>> /\ now' >= now
      /\ collector.phase = "pushing" /\ j \in collector.todo
      /\ datadog' = [datadog EXCEPT ![j] = "ok"]
  BY ClockForward DEF PushOk, PushUnacked
<1>2. ~Open(j)
  BY <1>1 DEF ListInv, Settling
<1>3. \A k \in Keys \ {j} : datadog'[k] = datadog[k]
  BY <1>1 DEF TypeOK
<1>4. collector'.phase \in {"pushing", "clear"} /\ collector'.new_alerts = collector.new_alerts
  BY <1>1, TakenLists DEF PushOk, PushUnacked
<1>5. \A k \in Keys : Ahead(k) => Ahead(k)'
  BY <1>1, <1>4, ListedKept DEF Ahead
<1>6. ASSUME NEW k \in Keys, k[1] \notin missed, Open(k)'
      PROVE  /\ Open(k) /\ messages'[k].opened = messages[k].opened
             /\ Noted(k)' => Noted(k) \/ datadog'[k] = "open"
             /\ datadog[k] = "open" => datadog'[k] = "open"
             /\ Ahead(k) => Ahead(k)' \/ datadog'[k] = "open"
  <2>1. Open(k) /\ (Noted(k)' => Noted(k)) /\ messages'[k].opened = messages[k].opened
    BY <1>1, <1>6 DEF Open, Noted
  <2>2. k # j
    BY <1>2, <2>1
  <2> QED BY <1>3, <1>5, <2>1, <2>2
<1> QED BY <1>1, <1>6, MirrorKept DEF MirrorInv

\* Paging an alert: its event is open then, and the others' pages stay to come.
LEMMA MirrorPage ==
    ASSUME LedgerInv, TypeOK', MirrorInv, NEW j \in Keys,
           PageSkipped(j) \/ Deliver(j) \/ PageUnacked(j)
    PROVE  \A k \in Keys : Mirrored(k)'
<1> USE DEF LedgerInv, TrackInv
<1>1. /\ UNCHANGED <<messages, vendor, seed, now, missed>> /\ now' >= now
      /\ collector.phase = "page" /\ j \in collector.todo
  BY ClockForward DEF PageSkipped, Deliver, PageUnacked
<1>2. \A k \in Keys : datadog[k] = "open" => datadog'[k] = "open"
  BY DEF PageSkipped, Deliver, PageUnacked, TypeOK
<1>3. j[1] \notin missed => datadog'[j] = "open"
  <2>1. CASE PageSkipped(j)
    <3>1. Open(j) /\ Noted(j)
      BY <1>1, <2>1 DEF ListInv, Announcing, PageSkipped
    <3> QED BY <1>2, <3>1 DEF MirrorInv, Mirrored
  <2>2. CASE Deliver(j) \/ PageUnacked(j)
    BY <2>2 DEF Deliver, PageUnacked, TypeOK
  <2> QED BY <2>1, <2>2
<1>4. collector'.phase \in {"page", "stamp"} /\ collector'.todo = collector.todo \ {j}
  <2>1. /\ Taken(j).phase = "page" /\ Taken(j).todo = collector.todo \ {j}
        /\ [Taken(j) EXCEPT !.phase = "stamp", !.cur = {j}].phase = "stamp"
        /\ [Taken(j) EXCEPT !.phase = "stamp", !.cur = {j}].todo = Taken(j).todo
    BY <1>1 DEF Taken, TypeOK
  <2> QED BY <2>1 DEF PageSkipped, Deliver, PageUnacked
<1>5. \A k \in Keys \ {j} : Ahead(k) => Ahead(k)'
  BY <1>1, <1>4 DEF Ahead
<1>6. ASSUME NEW k \in Keys, k[1] \notin missed, Open(k)'
      PROVE  /\ Open(k) /\ messages'[k].opened = messages[k].opened
             /\ Noted(k)' => Noted(k) \/ datadog'[k] = "open"
             /\ datadog[k] = "open" => datadog'[k] = "open"
             /\ Ahead(k) => Ahead(k)' \/ datadog'[k] = "open"
  BY <1>1, <1>2, <1>3, <1>5, <1>6 DEF Open, Noted
<1> QED BY <1>1, <1>6, MirrorKept DEF MirrorInv

\* Teams has no part in it.
LEMMA MirrorTeams ==
    ASSUME LedgerInv, TypeOK', MirrorInv, NEW j \in Keys, Teams(j) \/ TeamsFails(j)
    PROVE  \A k \in Keys : Mirrored(k)'
<1>1. UNCHANGED <<messages, datadog, now, missed>> /\ collector.phase = "teams"
  BY DEF Teams, TeamsFails
<1>2. now' >= now
  BY <1>1, ClockForward DEF LedgerInv, TrackInv
<1>3. \A k \in Keys : ~Ahead(k)
  BY <1>1 DEF Ahead
<1> QED BY <1>1, <1>2, <1>3, MirrorQuiet DEF LedgerInv, TrackInv, MirrorInv

\* Every step of an undisturbed collector keeps rows and events in step.
LEMMA MirrorStep ==
    ASSUME Undisturbed, NothingRecurs, LedgerInv, TypeOK', CountInv, MirrorInv,
           [Next]_vars
    PROVE  MirrorInv'
<1>1. CASE Save
  BY <1>1, MirrorSave DEF LedgerInv, TrackInv
<1>2. CASE ~Save
  <2>1. RaisedOnce'
    BY <1>2, RaisedOnceStep
  <2>2. ~Crash /\ \A k \in Keys : ~PushRefused(k) /\ ~PageRefused(k)
    BY DEF Undisturbed, Crash, PushRefused, PageRefused
  <2>3. \A k \in Keys : Page(k) \/ PageBlind(k) => Deliver(k)
    BY DEF Page, PageBlind
  <2>4. \A k \in Keys : Mirrored(k)'
    <3>1. CASE \/ SaveFails \/ ResolveFails \/ PushQuery \/ PushQueryFails \/ PushDone
               \/ ClearFlagFails \/ PageDone \/ StampFails \/ TeamsDone \/ MarkFails
               \/ Collect
               \/ \E j \in Ids : Raise(j) \/ Clear(j)
               \/ Tick \/ UNCHANGED vars
      BY <3>1, MirrorMoves
    <3>2. CASE Dispatch
      BY <3>2, MirrorDispatch
    <3>3. CASE ResolveAbsent \/ ResolveAged \/ AlertCleanup \/ ClearFlag \/ Stamp \/ Mark
      BY <3>3, MirrorRows
    <3>4. CASE \E j \in Keys : PushOk(j) \/ PushUnacked(j)
      BY <3>4, MirrorSettle
    <3>5. CASE \E j \in Keys : PageSkipped(j) \/ Deliver(j) \/ PageUnacked(j)
      BY <3>5, MirrorPage
    <3>6. CASE \E j \in Keys : Teams(j) \/ TeamsFails(j)
      BY <3>6, MirrorTeams
    <3> QED BY <1>2, <2>2, <2>3, <3>1, <3>2, <3>3, <3>4, <3>5, <3>6 DEF Next, Cycle
  <2> QED BY <2>1, <2>4 DEF MirrorInv
<1> QED BY <1>1, <1>2

\* Between cycles, then, every severe, recent alert the store holds open is open in Datadog,
\* as long as no alert is raised a second time and no answer that counted as one has left
\* that alert out: of all the ways to lose that, a recurrence is the one that needs no
\* fault and no full page.
THEOREM MirroredUntilRecurrence ==
    ASSUME Undisturbed, NothingRecurs
    PROVE  Spec => [](\A k \in Keys :
                        (/\ collector.phase = "idle" /\ Open(k) /\ k[1] \in Severe
                         /\ ~Older(messages[k].opened, NotifyAge) /\ k[1] \notin missed)
                        => datadog[k] = "open")
<1>1. Init => MirrorInv
  <2> SUFFICES ASSUME Init
               PROVE  MirrorInv
    OBVIOUS
  <2>1. \A k \in Keys : ~messages[k].stored
    BY DEF Init, NoRow
  <2>2. collector.fetch.messages = {}
    BY DEF Init, Idle, NoFetch, Failed
  <2> QED BY <2>1, <2>2 DEF MirrorInv, RaisedOnce, Mirrored, Open
<1>3. LedgerInv /\ LedgerInv' /\ CountInv /\ MirrorInv /\ [Next]_vars => MirrorInv'
  BY MirrorStep DEF LedgerInv, TrackInv
<1>4. MirrorInv => \A k \in Keys :
                      (/\ collector.phase = "idle" /\ Open(k) /\ k[1] \in Severe
                       /\ ~Older(messages[k].opened, NotifyAge) /\ k[1] \notin missed)
                      => datadog[k] = "open"
  BY DEF MirrorInv, Mirrored, Ahead, Recent
<1>5. Spec => [][FreshKeys]_vars
  BY KeysAreFresh DEF Undisturbed, FewKeys
<1> QED BY <1>1, <1>3, <1>4, <1>5, LedgerInvariant, CountInvariant, PTL DEF Spec
=============================================================================
