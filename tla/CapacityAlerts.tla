---------------------------- MODULE CapacityAlerts ----------------------------
(***************************************************************************)
(* The capacity alerts of one array: run_capacity_alert_checks() compares  *)
(* its utilisation with the thresholds and keeps one row of USM.messages   *)
(* per threshold, in the table, and under the vendor name, of the array's  *)
(* own alerts.  Checks run from the scheduler and from a manual trigger of *)
(* the API, in different threads; the vendor's alert collector and the     *)
(* nightly purge work on the same rows.                                    *)
(*                                                                         *)
(* The thresholds are numbered 1..Thresholds upwards: an array exceeds a   *)
(* prefix of them, and `level' is the highest one exceeded (0: none).  The *)
(* fleet's projected-full alert is the same code with one threshold and no *)
(* vendor that polls.                                                      *)
(***************************************************************************)
EXTENDS Integers

CONSTANTS
    Thresholds,  \* number of thresholds configured
    Checkers,    \* threads that may run a check
    Resolver,    \* does a vendor's resolve_absent_alerts() reach these rows?
    Faults,      \* what may fail: see FaultKinds
    ResendDays,  \* capacity_alert_resend_days, in clock ticks
    PurgeAge,    \* alert_purge_days
    MaxTime      \* bound on the clock

FaultKinds == {"db", "post", "ack"}

ASSUME CapacityAssumption ==
    /\ Thresholds \in Nat \ {0}
    /\ Resolver \in BOOLEAN
    /\ Faults \subseteq FaultKinds
    /\ ResendDays \in Nat \ {0} /\ PurgeAge \in Nat /\ MaxTime \in Nat

VARIABLES
    now,       \* the clock
    level,     \* the array: the highest threshold it exceeds
    messages,  \* the committed rows of the thresholds
    check,     \* per thread: where its check is, its locals, its uncommitted writes
    posts      \* history: per threshold, the last message Teams took

vars == <<now, level, messages, check, posts>>

T == 1..Thresholds
Time == 0..MaxTime
Never == -1

Row == [stored : BOOLEAN, resolved : BOOLEAN, teams_notified : Time \cup {Never},
        opened : Time]
NoRow == [stored |-> FALSE, resolved |-> FALSE, teams_notified |-> Never, opened |-> 0]

\* A thread that is at threshold `at' of `level', the utilisation it read; `existing' is
\* the row it read before writing, `dirty' the rows its transaction wrote, `posted'
\* whether Teams took a message the transaction has yet to record.
Check == [phase : {"idle", "loop", "upsert", "post", "mark"}, level : 0..Thresholds,
          at : 1..(Thresholds + 1), existing : Row, dirty : SUBSET T,
          rows : [T -> Row], posted : BOOLEAN]
Rest == [phase |-> "idle", level |-> 0, at |-> 1, existing |-> NoRow, dirty |-> {},
         rows |-> [t \in T |-> NoRow], posted |-> FALSE]

Post == [at : Time \cup {Never}, closed : BOOLEAN, lost : BOOLEAN]

TypeOK ==
    /\ now \in Time
    /\ level \in 0..Thresholds
    /\ messages \in [T -> Row]
    /\ check \in [Checkers -> Check]
    /\ posts \in [T -> Post]

Init ==
    /\ now = 0
    /\ level = 0
    /\ messages = [t \in T |-> NoRow]
    /\ check = [c \in Checkers |-> Rest]
    /\ posts = [t \in T |-> [at |-> Never, closed |-> FALSE, lost |-> FALSE]]

Open(row) == row.stored /\ ~row.resolved

(***************************************************************************)
(* The environment.                                                        *)
(***************************************************************************)

\* The metrics collector stores another utilisation.
Measure ==
    /\ \E l \in 0..Thresholds \ {level} : level' = l
    /\ UNCHANGED <<now, messages, check, posts>>

Tick ==
    /\ now < MaxTime
    /\ now' = now + 1
    /\ UNCHANGED <<level, messages, check, posts>>

(***************************************************************************)
(* Transactions: a row written by one is locked until it ends; a thread    *)
(* reads its own writes.                                                   *)
(***************************************************************************)

Free(c, t) == \A d \in Checkers \ {c} : t \notin check[d].dirty
View(c, t) == IF t \in check[c].dirty THEN check[c].rows[t] ELSE messages[t]

Written(c, t, row) == [check[c] EXCEPT !.dirty = @ \cup {t}, !.rows[t] = row]
Onwards(k) == [k EXCEPT !.phase = "loop", !.at = @ + 1, !.existing = NoRow]

(***************************************************************************)
(* check_array_thresholds().                                               *)
(***************************************************************************)

\* Mutant: the walk over the thresholds starts one too low.
BeginLow(c) ==
    /\ check[c].phase = "idle"
    /\ check' = [check EXCEPT ![c] = [Rest EXCEPT !.phase = "loop", !.level = level,
                                                 !.at = 0]]
    /\ UNCHANGED <<now, level, messages, posts>>

\* _fetch_array_utilization(), in a transaction of its own.
Begin(c) ==
    /\ check[c].phase = "idle"
    /\ check' = [check EXCEPT ![c] = [Rest EXCEPT !.phase = "loop", !.level = level]]
    /\ UNCHANGED <<now, level, messages, posts>>

\* Mutant: only the thresholds above the active one are closed.
ResolveAbove(c) ==
    LET t == check[c].at IN
    /\ check[c].phase = "loop" /\ t \in T /\ t # check[c].level
    /\ Free(c, t)
    /\ check' = [check EXCEPT ![c] = Onwards(
                    IF Open(View(c, t)) /\ t > check[c].level
                    THEN Written(c, t, [View(c, t) EXCEPT !.resolved = TRUE])
                    ELSE check[c])]
    /\ UNCHANGED <<now, level, messages, posts>>

\* _resolve_alert() for a threshold that is not the active one.
ResolveAlert(c) ==
    LET t == check[c].at IN
    /\ check[c].phase = "loop" /\ t \in T /\ t # check[c].level
    /\ Free(c, t)
    /\ check' = [check EXCEPT ![c] = Onwards(
                    IF Open(View(c, t))
                    THEN Written(c, t, [View(c, t) EXCEPT !.resolved = TRUE])
                    ELSE check[c])]
    /\ UNCHANGED <<now, level, messages, posts>>

\* _existing_row() for the active threshold, read before the write.
ReadExisting(c) ==
    LET t == check[c].at IN
    /\ check[c].phase = "loop" /\ t \in T /\ t = check[c].level
    /\ Free(c, t)
    /\ check' = [check EXCEPT ![c].phase = "upsert", ![c].existing = View(c, t)]
    /\ UNCHANGED <<now, level, messages, posts>>

\* Mutant: a row never notified is taken for one notified just now.
ShouldNotifyOnce(existing) ==
    \/ ~existing.stored
    \/ /\ existing.teams_notified # Never
       /\ now - existing.teams_notified >= ResendDays

\* _should_notify(): new, never notified, or notified long enough ago.
ShouldNotify(existing) ==
    \/ ~existing.stored
    \/ existing.teams_notified = Never
    \/ now - existing.teams_notified >= ResendDays

\* Mutant: teams_notified cleared by every update, not only when the row reopens.
UpsertedForgetting(row) ==
    IF row.stored THEN [row EXCEPT !.resolved = FALSE, !.teams_notified = Never]
                  ELSE [NoRow EXCEPT !.stored = TRUE, !.opened = now]

Upserted(row) ==
    IF row.stored
    THEN [row EXCEPT !.resolved = FALSE,
                     !.teams_notified = IF row.resolved THEN Never ELSE @]
    ELSE [NoRow EXCEPT !.stored = TRUE, !.opened = now]

\* _upsert_alert(), which reads the row again, then _should_notify() of the first read.
UpsertAlert(c) ==
    LET t == check[c].at
        k == Written(c, t, Upserted(View(c, t))) IN
    /\ check[c].phase = "upsert"
    /\ Free(c, t)
    /\ check' = [check EXCEPT ![c] = IF ShouldNotify(check[c].existing)
                                     THEN [k EXCEPT !.phase = "post"] ELSE Onwards(k)]
    /\ UNCHANGED <<now, level, messages, posts>>

Took(t, recorded) == [posts EXCEPT ![t] = [at |-> now, closed |-> FALSE, lost |-> ~recorded]]

\* send_teams_alert(), inside the transaction: acknowledged, taken with the answer
\* lost, or refused.
TeamsOk(c) ==
    /\ check[c].phase = "post"
    /\ check' = [check EXCEPT ![c].phase = "mark", ![c].posted = TRUE]
    /\ posts' = Took(check[c].at, TRUE)
    /\ UNCHANGED <<now, level, messages>>

TeamsUnacked(c) ==
    /\ check[c].phase = "post"
    /\ "ack" \in Faults
    /\ check' = [check EXCEPT ![c] = Onwards(@)]
    /\ posts' = Took(check[c].at, FALSE)
    /\ UNCHANGED <<now, level, messages>>

TeamsRefused(c) ==
    /\ check[c].phase = "post"
    /\ "post" \in Faults
    /\ check' = [check EXCEPT ![c] = Onwards(@)]
    /\ UNCHANGED <<now, level, messages, posts>>

MarkNotified(c) ==
    LET t == check[c].at IN
    /\ check[c].phase = "mark"
    /\ check' = [check EXCEPT ![c] = Onwards(
                    Written(c, t, [View(c, t) EXCEPT !.teams_notified = now]))]
    /\ UNCHANGED <<now, level, messages, posts>>

Commit(c) ==
    /\ check[c].phase = "loop" /\ check[c].at \notin T
    /\ messages' = [t \in T |-> View(c, t)]
    /\ posts' = [t \in T |-> [posts[t] EXCEPT
                    !.closed = @ \/ (Open(messages[t]) /\ View(c, t).resolved)]]
    /\ check' = [check EXCEPT ![c] = Rest]
    /\ UNCHANGED <<now, level>>

\* A failed statement or commit, or the end of the process: everything rolls back,
\* but what Teams took it keeps.
Abort(c) ==
    /\ check[c].phase # "idle"
    /\ "db" \in Faults
    /\ posts' = IF check[c].posted THEN [posts EXCEPT ![check[c].level].lost = TRUE]
                                   ELSE posts
    /\ check' = [check EXCEPT ![c] = Rest]
    /\ UNCHANGED <<now, level, messages>>

(***************************************************************************)
(* The other writers of these rows.                                        *)
(***************************************************************************)

Unlocked == \A c \in Checkers : check[c].dirty = {}

\* The vendor's poll: resolve_absent_alerts() closes every open row of the array and
\* vendor whose message_id the array did not report, and no array reports these.
VendorPoll ==
    /\ Resolver /\ Unlocked
    /\ \E t \in T : Open(messages[t])
    /\ messages' = [t \in T |-> IF Open(messages[t])
                                THEN [messages[t] EXCEPT !.resolved = TRUE]
                                ELSE messages[t]]
    /\ posts' = [t \in T |-> [posts[t] EXCEPT !.closed = @ \/ Open(messages[t])]]
    /\ UNCHANGED <<now, level, check>>

Purgeable(row) == row.stored /\ row.resolved /\ now - row.opened > PurgeAge

AlertCleanup ==
    /\ Unlocked
    /\ \E t \in T : Purgeable(messages[t])
    /\ messages' = [t \in T |-> IF Purgeable(messages[t]) THEN NoRow ELSE messages[t]]
    /\ UNCHANGED <<now, level, check, posts>>

CheckStep(c) ==
    \/ Begin(c) \/ ResolveAlert(c) \/ ReadExisting(c) \/ UpsertAlert(c)
    \/ TeamsOk(c) \/ TeamsUnacked(c) \/ TeamsRefused(c) \/ MarkNotified(c)
    \/ Commit(c) \/ Abort(c)

Next ==
    \/ \E c \in Checkers : CheckStep(c)
    \/ Measure \/ Tick \/ VendorPoll \/ AlertCleanup

Spec == Init /\ [][Next]_vars

\* The scheduler repeats the check; outages end.  A transaction that had nothing to
\* commit may as well have rolled back: that step is no outage.
Outage == \E c \in Checkers :
    (TeamsUnacked(c) \/ TeamsRefused(c) \/ Abort(c)) /\ ~Commit(c)

LiveSpec == Spec /\ (\A c \in Checkers : WF_vars(CheckStep(c))) /\ <>[][~Outage]_vars

(***************************************************************************)
(* Properties.                                                             *)
(***************************************************************************)

\* "Only the HIGHEST currently-exceeded threshold is active per array": no two
\* thresholds are open at once, whatever the vendor's poll, the purge and a check that
\* aborts half-way do to the rows.
HighestOnly == \A s, t \in T : Open(messages[s]) /\ Open(messages[t]) => s = t

Takes(t) == \E c \in Checkers :
    /\ check[c].phase = "post" /\ check[c].at = t
    /\ check'[c].phase = "mark" \/ posts'[t] # posts[t]

Due(t) == posts[t].at = Never \/ now - posts[t].at >= ResendDays \/ posts[t].lost

\* Teams gets the alert of a threshold again within capacity_alert_resend_days only
\* if its row was closed in between, or the record of the last message was lost.
PostGenuine == [][\A t \in T : Takes(t) => Due(t) \/ posts[t].closed]_vars

\* An alert whose threshold stays the highest one exceeded is eventually open and
\* recorded as announced, although a check that reopens a row does not announce it:
\* the next one does.
EventuallyAnnounced ==
    \A t \in T : level = t ~> \/ level # t
                              \/ Open(messages[t]) /\ messages[t].teams_notified # Never
=============================================================================
