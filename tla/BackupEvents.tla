------------------------------ MODULE BackupEvents ------------------------------
(***************************************************************************)
(* The backup summary job: a CronJob that pulls the Commvault report of    *)
(* the last 24 hours into Postgres, posts a Datadog event for failed       *)
(* checks and another when they recover.  A run is one pass of main(); it  *)
(* may fail or die at any point, and the next one starts from the tables   *)
(* and from the token file.  concurrencyPolicy Forbid: one run at a time.  *)
(*                                                                         *)
(* Job ids grow; one data source; checks of the Kubernetes instance, which *)
(* the failure query leaves out, are not among Checks.                     *)
(***************************************************************************)
EXTENDS Integers, Sequences

CONSTANTS
    Checks,       \* check_name: client, agent, instance, backup set, subclient
    MaxJobs,      \* bound on the backup jobs
    MaxPairs,     \* bound on the token pairs Commvault hands out
    Faults        \* what may fail: see FaultKinds

FaultKinds == {"http", "ack", "db", "crash"}

ASSUME BackupAssumption ==
    /\ MaxJobs \in Nat /\ MaxPairs \in Nat \ {0}
    /\ Faults \subseteq FaultKinds

VARIABLES
    jobs,    \* Commvault: the finished backup jobs, by id
    window,  \* the first id still in the 24-hour report
    summary, \* ids of the rows of cvlt_backupjobsummary
    events,  \* cvlt_datadog_events: at most one row per check
    tokens,  \* the token pair: Commvault's, and the one in secrets.json
    run,     \* the run: where it is, and its locals
    datadog  \* history: failure events taken, checks told resolved, unrecorded events

vars == <<jobs, window, summary, events, tokens, run, datadog>>

Ids == 1..MaxJobs
Job == [check : Checks, failed : BOOLEAN]
None == 0
Broken == 0

\* job is the job_id of the row, None when the check has no row.
Event == [job : Ids \cup {None}, resolved : BOOLEAN]

\* file is Broken between the open() that truncates secrets.json and the json.dump().
Tokens == [server : 1..MaxPairs, expired : BOOLEAN, file : 0..MaxPairs, lost : BOOLEAN]

Phases == {"idle", "report", "renew", "write", "dump", "again", "load", "query",
           "send", "fixquery", "fix"}
Run == [phase : Phases, pair : 0..MaxPairs, todo : SUBSET Ids, sent : SUBSET Ids,
        failed : BOOLEAN, fixed : SUBSET Checks]
Ended == [phase |-> "idle", pair |-> Broken, todo |-> {}, sent |-> {},
          failed |-> FALSE, fixed |-> {}]

TypeOK ==
    /\ jobs \in Seq(Job) /\ Len(jobs) <= MaxJobs
    /\ window \in 1..(MaxJobs + 1)
    /\ summary \subseteq DOMAIN jobs
    /\ events \in [Checks -> Event]
    /\ tokens \in Tokens
    /\ run \in Run
    /\ datadog \in [failed : SUBSET Ids, ok : SUBSET Checks, lost : SUBSET Ids]

Init ==
    /\ jobs = <<>>
    /\ window = 1
    /\ summary = {}
    /\ events = [c \in Checks |-> [job |-> None, resolved |-> FALSE]]
    /\ tokens = [server |-> 1, expired |-> FALSE, file |-> 1, lost |-> FALSE]
    /\ run = Ended
    /\ datadog = [failed |-> {}, ok |-> {}, lost |-> {}]

(***************************************************************************)
(* Commvault.                                                              *)
(***************************************************************************)

Backup(c, failed) ==
    /\ Len(jobs) < MaxJobs
    /\ jobs' = Append(jobs, [check |-> c, failed |-> failed])
    /\ UNCHANGED <<window, summary, events, tokens, run, datadog>>

LeaveReport ==
    /\ window <= Len(jobs)
    /\ window' = window + 1
    /\ UNCHANGED <<jobs, summary, events, tokens, run, datadog>>

Expire ==
    /\ ~tokens.expired
    /\ tokens' = [tokens EXCEPT !.expired = TRUE]
    /\ UNCHANGED <<jobs, window, summary, events, run, datadog>>

(***************************************************************************)
(* The report and the token pair.                                          *)
(***************************************************************************)

UnchangedStore == UNCHANGED <<jobs, window, summary, events, datadog>>
GoTo(phase) == run' = [run EXCEPT !.phase = phase]

\* Importing the script loads secrets.json; a file that does not parse ends it there.
Start ==
    /\ run.phase = "idle"
    /\ tokens.file # Broken
    /\ run' = [Ended EXCEPT !.phase = "report", !.pair = tokens.file]
    /\ UNCHANGED tokens /\ UnchangedStore

Authorised == run.pair = tokens.server /\ ~tokens.expired

\* Mutant: without the job-status filter, the report holds the job that is running.
GetReportUnfiltered ==
    /\ run.phase \in {"report", "again"}
    /\ Authorised
    /\ run' = [run EXCEPT !.phase = "load", !.todo = window..(Len(jobs) + 1)]
    /\ UNCHANGED tokens /\ UnchangedStore

\* get_backup_report(), before and after a renewal.
GetReport ==
    /\ run.phase \in {"report", "again"}
    /\ Authorised
    /\ run' = [run EXCEPT !.phase = "load", !.todo = window..Len(jobs)]
    /\ UNCHANGED tokens /\ UnchangedStore

Unauthorised ==
    /\ run.phase = "report"
    /\ ~Authorised
    /\ GoTo("renew")
    /\ UNCHANGED tokens /\ UnchangedStore

\* A 401 after the renewal, an error of the report: main() raises.
ReportFails ==
    /\ \/ run.phase = "again" /\ ~Authorised
       \/ run.phase \in {"report", "again"} /\ "http" \in Faults
    /\ run' = Ended
    /\ UNCHANGED tokens /\ UnchangedStore

\* The pairs are bounded: the last one is renewed in place.
Renewed == [tokens EXCEPT !.server = IF @ < MaxPairs THEN @ + 1 ELSE @, !.expired = FALSE]

\* Mutant: SECRETS keeps the old pair, which is what is written.
RenewStale ==
    /\ run.phase = "renew"
    /\ run.pair = tokens.server
    /\ tokens' = Renewed
    /\ GoTo("write")
    /\ UnchangedStore

\* renew_token(): Commvault rotates the pair and answers with the new one.
Renew ==
    /\ run.phase = "renew"
    /\ run.pair = tokens.server
    /\ tokens' = Renewed
    /\ run' = [run EXCEPT !.phase = "write", !.pair = Renewed.server]
    /\ UnchangedStore

RenewUnacked ==
    /\ run.phase = "renew"
    /\ run.pair = tokens.server
    /\ "ack" \in Faults
    /\ tokens' = [Renewed EXCEPT !.lost = TRUE]
    /\ run' = Ended
    /\ UnchangedStore

RenewRefused ==
    /\ run.phase = "renew"
    /\ run.pair # tokens.server \/ "http" \in Faults
    /\ run' = Ended
    /\ UNCHANGED tokens /\ UnchangedStore

\* open(..., "w") truncates the file, json.dump() fills it.
OpenSecrets ==
    /\ run.phase = "write"
    /\ tokens' = [tokens EXCEPT !.file = Broken]
    /\ GoTo("dump")
    /\ UnchangedStore

DumpSecrets ==
    /\ run.phase = "dump"
    /\ tokens' = [tokens EXCEPT !.file = run.pair]
    /\ GoTo("again")
    /\ UnchangedStore

\* The operator's remedy: the deployment, with reseed set, removes the run and puts a
\* fresh pair on a fresh volume.
Reseed ==
    /\ run.phase = "idle" /\ tokens.lost
    /\ tokens' = [Renewed EXCEPT !.file = Renewed.server, !.lost = FALSE]
    /\ UNCHANGED run /\ UnchangedStore

(***************************************************************************)
(* load_backup_summary().                                                  *)
(***************************************************************************)

\* ON CONFLICT (data_source, job_id) DO NOTHING, one transaction.
LoadBackupSummary ==
    /\ run.phase = "load"
    /\ summary' = summary \cup run.todo
    /\ run' = [run EXCEPT !.phase = "query", !.todo = {}]
    /\ UNCHANGED <<jobs, window, events, tokens, datadog>>

LoadFails ==
    /\ run.phase = "load"
    /\ "db" \in Faults
    /\ run' = Ended
    /\ UNCHANGED tokens /\ UnchangedStore

(***************************************************************************)
(* send_failure_events().                                                  *)
(***************************************************************************)

Of(c) == {j \in summary : jobs[j].check = c}
Newest(S) == {j \in S : \A k \in S : k <= j}
CheckOf(j) == jobs[j].check
HasRow(c) == events[c].job # None

\* Mutant: without NOT EXISTS: the newest job of each check, if it failed.
FailureRowsAll == {j \in UNION {Newest(Of(c)) : c \in Checks} : jobs[j].failed}

\* Mutant: NOT EXISTS matches the check instead of the job.
FailureRowsOnce == {j \in FailureRowsAll : ~HasRow(CheckOf(j))}

\* Per check, the newest of the jobs that have no event row of their own, if it failed.
FailureRows ==
    {j \in UNION {Newest(Of(c) \ {events[c].job}) : c \in Checks} : jobs[j].failed}

\* Mutant: the run ends when there is nothing to send.
QueryFailuresEnding ==
    /\ run.phase = "query"
    /\ run' = IF FailureRows = {} THEN Ended
              ELSE [run EXCEPT !.phase = "send", !.todo = FailureRows]
    /\ UNCHANGED tokens /\ UnchangedStore

QueryFailures ==
    /\ run.phase = "query"
    /\ run' = IF FailureRows = {} THEN [run EXCEPT !.phase = "fixquery"]
              ELSE [run EXCEPT !.phase = "send", !.todo = FailureRows]
    /\ UNCHANGED tokens /\ UnchangedStore

\* send_event() in a pool of threads: taken and answered, taken with the answer lost,
\* or refused; the last two raise.
Sending(j) == run.phase = "send" /\ j \in run.todo

SendEvent(j) ==
    /\ Sending(j)
    /\ run' = [run EXCEPT !.todo = @ \ {j}, !.sent = @ \cup {j}]
    /\ datadog' = [datadog EXCEPT !.failed = @ \cup {j}]
    /\ UNCHANGED <<jobs, window, summary, events, tokens>>

SendUnacked(j) ==
    /\ Sending(j)
    /\ "ack" \in Faults
    /\ run' = [run EXCEPT !.todo = @ \ {j}, !.failed = TRUE]
    /\ datadog' = [datadog EXCEPT !.failed = @ \cup {j}, !.lost = @ \cup {j}]
    /\ UNCHANGED <<jobs, window, summary, events, tokens>>

\* Mutant: without raise_for_status() a refusal counts as an event.
SendRefusedIgnored(j) ==
    /\ Sending(j)
    /\ "http" \in Faults
    /\ run' = [run EXCEPT !.todo = @ \ {j}, !.sent = @ \cup {j}]
    /\ UNCHANGED tokens /\ UnchangedStore

SendRefused(j) ==
    /\ Sending(j)
    /\ "http" \in Faults
    /\ run' = [run EXCEPT !.todo = @ \ {j}, !.failed = TRUE]
    /\ UNCHANGED tokens /\ UnchangedStore

\* pool.map() raises at the first failure: what has not started is cancelled, what has
\* is waited for, and nothing is recorded.
EndUnrecorded ==
    /\ run' = Ended
    /\ datadog' = [datadog EXCEPT !.lost = @ \cup run.sent]
    /\ UNCHANGED <<jobs, window, summary, events, tokens>>

SendFailed == run.phase = "send" /\ run.failed /\ EndUnrecorded

Row(c) ==
    LET sent == {j \in run.sent : CheckOf(j) = c} IN
    IF HasRow(c) \/ sent = {} THEN events[c]
    ELSE [job |-> CHOOSE j \in sent : TRUE, resolved |-> FALSE]

\* ON CONFLICT (data_source, check_name) DO NOTHING, one transaction for all rows.
RecordEvents ==
    /\ run.phase = "send" /\ run.todo = {} /\ ~run.failed
    /\ events' = [c \in Checks |-> Row(c)]
    /\ run' = [run EXCEPT !.phase = "fixquery", !.sent = {}]
    /\ UNCHANGED <<jobs, window, summary, tokens, datadog>>

RecordFails ==
    /\ run.phase = "send" /\ run.todo = {} /\ ~run.failed
    /\ "db" \in Faults
    /\ EndUnrecorded

(***************************************************************************)
(* send_resolution_events().                                               *)
(***************************************************************************)

\* Every job that did not fail, of a check whose event row is not resolved.  A job that is
\* older than the failure is one of them, and a row that is resolved is never opened again
\* (RecordEvents leaves it): only the first recovery of a check is told.
ResolutionRows ==
    {j \in summary : ~jobs[j].failed /\ HasRow(CheckOf(j)) /\ ~events[CheckOf(j)].resolved}

QueryResolutions ==
    /\ run.phase = "fixquery"
    /\ run' = IF ResolutionRows = {} THEN Ended
              ELSE [run EXCEPT !.phase = "fix", !.todo = ResolutionRows]
    /\ UNCHANGED tokens /\ UnchangedStore

\* The POST of one row and its UPDATE, which is not yet committed.
Resolve(j) ==
    /\ run.phase = "fix" /\ j \in run.todo
    /\ run' = [run EXCEPT !.todo = @ \ {j}, !.fixed = @ \cup {CheckOf(j)}]
    /\ datadog' = [datadog EXCEPT !.ok = @ \cup {CheckOf(j)}]
    /\ UNCHANGED <<jobs, window, summary, events, tokens>>

ResolveUnacked(j) ==
    /\ run.phase = "fix" /\ j \in run.todo
    /\ "ack" \in Faults
    /\ run' = Ended
    /\ datadog' = [datadog EXCEPT !.ok = @ \cup {CheckOf(j)}]
    /\ UNCHANGED <<jobs, window, summary, events, tokens>>

ResolveRefused ==
    /\ run.phase = "fix" /\ run.todo # {}
    /\ "http" \in Faults
    /\ run' = Ended
    /\ UNCHANGED tokens /\ UnchangedStore

CommitResolutions ==
    /\ run.phase = "fix" /\ run.todo = {}
    /\ events' = [c \in Checks |-> IF c \in run.fixed
                                   THEN [events[c] EXCEPT !.resolved = TRUE] ELSE events[c]]
    /\ run' = Ended
    /\ UNCHANGED <<jobs, window, summary, tokens, datadog>>

CommitFails ==
    /\ run.phase = "fix"
    /\ "db" \in Faults
    /\ run' = Ended
    /\ UNCHANGED tokens /\ UnchangedStore

\* The deadline of the Job, an eviction, a crash.
Killed ==
    /\ run.phase # "idle"
    /\ "crash" \in Faults
    /\ tokens' = [tokens EXCEPT !.lost = @ \/ run.phase \in {"write", "dump"}]
    /\ run' = Ended
    /\ datadog' = [datadog EXCEPT !.lost = @ \cup run.sent]
    /\ UNCHANGED <<jobs, window, summary, events>>

\* What a run does when all goes well, and the way it ends after a failed POST.
Progress ==
    \/ Start \/ GetReport \/ Unauthorised \/ Renew \/ OpenSecrets \/ DumpSecrets
    \/ LoadBackupSummary \/ QueryFailures \/ SendFailed \/ RecordEvents
    \/ QueryResolutions \/ CommitResolutions
    \/ \E j \in Ids : SendEvent(j) \/ Resolve(j)

Failure ==
    \/ ReportFails \/ RenewUnacked \/ RenewRefused \/ LoadFails
    \/ RecordFails \/ ResolveRefused \/ CommitFails
    \/ \E j \in Ids : SendUnacked(j) \/ SendRefused(j) \/ ResolveUnacked(j)

Next ==
    \/ \E c \in Checks, failed \in BOOLEAN : Backup(c, failed)
    \/ Progress \/ Failure \/ LeaveReport \/ Expire \/ Killed \/ Reseed

Spec == Init /\ [][Next]_vars

\* The CronJob starts a run every hour; outages end, and a token outlives a run.  A
\* fault at a point where the run had nothing left to do changes nothing and is none.
Outage == (Failure \/ Killed \/ (Expire /\ run.phase # "idle")) /\ ~Progress

LiveSpec == Spec /\ WF_vars(Progress \/ Failure) /\ <>[][~Outage]_vars

(***************************************************************************)
(* Properties.                                                             *)
(***************************************************************************)

\* Rows are written after the POSTs they stand for: an event row names a failed job of
\* its check whose event Datadog took, and is resolved only once Datadog was told so.
RecordGenuine ==
    \A c \in Checks : HasRow(c) =>
        /\ events[c].job \in datadog.failed
        /\ jobs[events[c].job] = [check |-> c, failed |-> TRUE]
        /\ events[c].resolved => c \in datadog.ok

\* send_failure_events() prepares an event Datadog already took only if the record of
\* the first one was lost, or the check's single row is taken by another job.
RepeatExplained ==
    run.phase = "send" => \A j \in run.todo \cap datadog.failed :
        j \in datadog.lost \/ events[CheckOf(j)].job \notin {None, j}

\* "The PVC is the source of truth": the pair on the volume is Commvault's, unless this
\* run holds the new one, or the answer to a renewal or the run that held it was lost.
PairKept ==
    tokens.file = tokens.server \/ run.phase \in {"write", "dump"} \/ tokens.lost

\* A failed job is announced, unless the check has run again, the job left the report
\* before a run loaded it, or the tokens are gone.  The runs that die on the way and
\* the events of other checks do not prevent it.
FailureAnnounced ==
    \A j \in Ids :
        (j \in DOMAIN jobs /\ jobs[j].failed) ~>
            \/ j \in datadog.failed
            \/ \E k \in DOMAIN jobs : k > j /\ CheckOf(k) = CheckOf(j)
            \/ j < window /\ j \notin summary
            \/ tokens.lost

\* The first recovery of a check is announced: an event row that is not resolved, of a
\* check with a job that did not fail, is resolved in the end, although all POSTs of a run
\* share one commit and any of them may raise.  Later recoveries of the check are not
\* (SilentOnceResolved), where the job's README has "resolution events when a check
\* recovers".
FirstRecoveryAnnounced ==
    \A c \in Checks :
        (HasRow(c) /\ ~events[c].resolved /\ \E j \in Of(c) : ~jobs[j].failed) ~>
            events[c].resolved \/ tokens.lost

\* Once its row is resolved, no recovery of a check is posted again, whatever fails and
\* recovers after it (send_resolution_events, ON CONFLICT DO NOTHING).
SilentOnceResolved ==
    [][\A j \in Ids : Resolve(j) \/ ResolveUnacked(j) => ~events[CheckOf(j)].resolved]_vars
=============================================================================
