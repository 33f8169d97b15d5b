-------------------------- MODULE BackupEventsProofs --------------------------
(***************************************************************************)
(* Proofs about BackupEvents, for every set of checks, number of jobs and  *)
(* of token pairs: types, the event rows and what Datadog took, the token  *)
(* pair on the volume, and which failures are sent again.                  *)
(***************************************************************************)
EXTENDS BackupEvents, TLAPS

Known(j) == j \in DOMAIN jobs
Fails(j) == Known(j) /\ jobs[j].failed

\* What the locals of a run mean at each of its phases.
Locals ==
    /\ run.phase \in {"load", "fix"} => \A j \in run.todo : Known(j)
    /\ run.phase = "send" => \A j \in run.todo :
          Fails(j) /\ j \notin run.sent /\ events[CheckOf(j)].job # j
    /\ run.phase # "send" => run.sent = {}
    /\ \A j \in run.sent : Fails(j) /\ j \in datadog.failed
    /\ run.fixed \subseteq datadog.ok
    /\ run.phase \in {"write", "dump"} => run.pair = tokens.server

\* A failure Datadog took is of a known job, and is still held by the run, recorded
\* under its check, or counted as lost.
Accounted ==
    \A j \in datadog.failed :
        Known(j) /\ (j \in datadog.lost \/ j \in run.sent \/ HasRow(CheckOf(j)))

IInv == TypeOK /\ Locals /\ RecordGenuine /\ Accounted /\ PairKept

\* A finished job keeps its id, its check and its outcome.
LEMMA JobsGrow ==
    ASSUME TypeOK, NEW c \in Checks, NEW failed \in BOOLEAN, Backup(c, failed)
    PROVE  /\ jobs' \in Seq(Job) /\ Len(jobs') = Len(jobs) + 1 /\ Len(jobs') <= MaxJobs
           /\ \A j \in DOMAIN jobs : j \in DOMAIN jobs' /\ jobs'[j] = jobs[j]
<1>1. [check |-> c, failed |-> failed] \in Job
  BY DEF Job
<1>2. jobs' = Append(jobs, [check |-> c, failed |-> failed]) /\ Len(jobs) < MaxJobs
  BY DEF Backup
<1> QED BY <1>1, <1>2, BackupAssumption DEF TypeOK

\* Known jobs are of the checks, and have the ids of the bound.
LEMMA JobFacts ==
    ASSUME TypeOK
    PROVE  /\ DOMAIN jobs \subseteq Ids
           /\ \A j \in DOMAIN jobs : jobs[j] \in Job /\ CheckOf(j) \in Checks
           /\ \A j \in FailureRows : Fails(j) /\ j \in summary /\ events[CheckOf(j)].job # j
           /\ \A j \in ResolutionRows : Known(j)
<1>1. DOMAIN jobs = 1..Len(jobs) /\ Len(jobs) \in Nat /\ Len(jobs) <= MaxJobs
  BY DEF TypeOK
<1>2. DOMAIN jobs \subseteq Ids
  BY <1>1, BackupAssumption DEF Ids
<1>3. \A j \in DOMAIN jobs : jobs[j] \in Job /\ CheckOf(j) \in Checks
  <2>1. \A j \in DOMAIN jobs : jobs[j] \in Job
    BY <1>1 DEF TypeOK
  <2> QED BY <2>1 DEF Job, CheckOf
<1>4. ASSUME NEW j \in FailureRows
      PROVE  Fails(j) /\ j \in summary /\ events[CheckOf(j)].job # j
  BY DEF FailureRows, Newest, Of, Fails, Known, TypeOK, CheckOf
<1>5. \A j \in ResolutionRows : Known(j)
  BY DEF ResolutionRows, Known, TypeOK
<1> QED BY <1>2, <1>3, <1>4, <1>5

\* A renewal yields the pair that Commvault then expects.
LEMMA RenewedType ==
    ASSUME TypeOK
    PROVE  /\ Renewed \in Tokens /\ Renewed.server \in 1..MaxPairs
           /\ Renewed.file = tokens.file /\ Renewed.lost = tokens.lost
<1> DEFINE s == IF tokens.server < MaxPairs THEN tokens.server + 1 ELSE tokens.server
<1>1. tokens \in Tokens
  BY DEF TypeOK
<1>2. s \in 1..MaxPairs
  BY <1>1, BackupAssumption DEF Tokens
<1>3. Renewed = [tokens EXCEPT !.server = s, !.expired = FALSE]
  BY DEF Renewed
<1> HIDE DEF s
<1> QED BY <1>1, <1>2, <1>3 DEF Tokens

\* A run that is over is well-typed and holds nothing.
LEMMA EndedType ==
    Ended \in Run /\ Ended.phase = "idle" /\ Ended.sent = {} /\ Ended.fixed = {}
BY BackupAssumption DEF Ended, Run, Phases, Broken

\* The steps of the system, one by one.
LEMMA Steps ==
    ASSUME [Next]_vars
    PROVE  \/ \E c \in Checks, failed \in BOOLEAN : Backup(c, failed)
           \/ LeaveReport \/ Expire \/ Killed \/ Reseed
           \/ Start \/ GetReport \/ Unauthorised \/ Renew
           \/ OpenSecrets \/ DumpSecrets \/ LoadBackupSummary \/ QueryFailures
           \/ SendFailed \/ RecordEvents \/ QueryResolutions \/ CommitResolutions
           \/ ReportFails \/ RenewUnacked \/ RenewRefused \/ LoadFails
           \/ RecordFails \/ ResolveRefused \/ CommitFails
           \/ \E j \in Ids : \/ SendEvent(j) \/ Resolve(j) \/ SendUnacked(j)
                            \/ SendRefused(j) \/ ResolveUnacked(j)
           \/ UNCHANGED vars
BY DEF Next, Progress, Failure

\* What RecordEvents leaves in the row of a check: the row that was there, or the job
\* the run sent for it, if any.
LEMMA RowFacts ==
    ASSUME TypeOK, Locals, NEW c \in Checks
    PROVE  /\ Row(c) \in Event
           /\ HasRow(c) => Row(c) = events[c]
           /\ \/ Row(c) = events[c]
              \/ /\ Row(c).job \in run.sent /\ CheckOf(Row(c).job) = c
                 /\ Row(c).job \in Ids /\ Row(c).resolved = FALSE
           /\ (\E j \in run.sent : CheckOf(j) = c) => Row(c).job # None
<1> DEFINE sent == {j \in run.sent : CheckOf(j) = c}
           new == [job |-> CHOOSE j \in sent : TRUE, resolved |-> FALSE]
<1>1. events[c] \in Event
  BY DEF TypeOK
<1>2. CASE HasRow(c) \/ sent = {}
  <2>1. Row(c) = events[c]
    BY <1>2 DEF Row
  <2> QED BY <1>1, <1>2, <2>1 DEF HasRow
<1>3. CASE ~HasRow(c) /\ sent # {}
  <2>1. Row(c) = new
    BY <1>3 DEF Row
  <2>2. new.job \in sent
    BY <1>3
  <2>3. new.job \in run.sent /\ CheckOf(new.job) = c
    BY <2>2
  <2>4. new.job \in Ids /\ new.job # None
    BY <2>3, JobFacts, BackupAssumption DEF Locals, Fails, Known, Ids, None
  <2>5. new \in Event
    BY <2>4 DEF Event
  <2> QED BY <1>3, <2>1, <2>3, <2>4, <2>5
<1> QED BY <1>2, <1>3

\* Types are preserved by every step.
LEMMA TypeStep ==
    ASSUME TypeOK, Locals, [Next]_vars
    PROVE  TypeOK'
<1>1. ASSUME NEW c \in Checks, NEW failed \in BOOLEAN, Backup(c, failed)
      PROVE  TypeOK'
  <2>1. jobs' \in Seq(Job) /\ Len(jobs') <= MaxJobs /\ summary \subseteq DOMAIN jobs'
    BY <1>1, JobsGrow DEF TypeOK
  <2> QED BY <1>1, <2>1 DEF Backup, TypeOK
<1>2. ASSUME LeaveReport
      PROVE  TypeOK'
  <2>1. window + 1 \in 1..(MaxJobs + 1)
    BY <1>2, BackupAssumption DEF LeaveReport, TypeOK
  <2> QED BY <1>2, <2>1 DEF LeaveReport, TypeOK
<1>3. ASSUME Expire
      PROVE  TypeOK'
  BY <1>3 DEF Expire, TypeOK, Tokens
<1>4. ASSUME Killed
      PROVE  TypeOK'
  BY <1>4, EndedType DEF Killed, TypeOK, Run, Tokens
<1>5. ASSUME Reseed
      PROVE  TypeOK'
  <2>1. Renewed.server \in 0..MaxPairs
    BY RenewedType
  <2>2. [Renewed EXCEPT !.file = Renewed.server, !.lost = FALSE] \in Tokens
    BY <2>1, RenewedType DEF Tokens
  <2> QED BY <1>5, <2>2 DEF Reseed, UnchangedStore, TypeOK
<1>6. ASSUME Start
      PROVE  TypeOK'
  BY <1>6, EndedType DEF Start, UnchangedStore, TypeOK, Run, Phases, Tokens
<1>7. ASSUME GetReport
      PROVE  TypeOK'
  <2>1. window..Len(jobs) \subseteq Ids
    BY BackupAssumption DEF TypeOK, Ids
  <2>2. run' \in Run
    BY <1>7, <2>1 DEF GetReport, TypeOK, Run, Phases
  <2> QED BY <1>7, <2>2 DEF GetReport, UnchangedStore, TypeOK
<1>8. ASSUME Unauthorised
      PROVE  TypeOK'
  BY <1>8 DEF Unauthorised, UnchangedStore, GoTo, TypeOK, Run, Phases
<1>9. ASSUME Renew
      PROVE  TypeOK'
  <2>1. Renewed.server \in 0..MaxPairs
    BY RenewedType
  <2>2. run' \in Run
    BY <1>9, <2>1 DEF Renew, TypeOK, Run, Phases
  <2> QED BY <1>9, <2>2, RenewedType DEF Renew, UnchangedStore, TypeOK
<1>10. ASSUME OpenSecrets
      PROVE  TypeOK'
  <2>1. tokens' \in Tokens
    BY <1>10, BackupAssumption DEF OpenSecrets, TypeOK, Tokens, Broken
  <2> QED BY <1>10, <2>1 DEF OpenSecrets, GoTo, UnchangedStore, TypeOK, Run, Phases
<1>11. ASSUME DumpSecrets
      PROVE  TypeOK'
  BY <1>11 DEF DumpSecrets, UnchangedStore, GoTo, TypeOK, Run, Phases, Tokens
<1>12. ASSUME LoadBackupSummary
      PROVE  TypeOK'
  <2>1. summary' \subseteq DOMAIN jobs
    BY <1>12 DEF LoadBackupSummary, TypeOK, Locals, Known
  <2> QED BY <1>12, <2>1 DEF LoadBackupSummary, TypeOK, Run, Phases
<1>13. ASSUME QueryFailures
      PROVE  TypeOK'
  <2>1. FailureRows \subseteq Ids
    BY JobFacts DEF Fails, Known
  <2>2. run' \in Run
    BY <1>13, <2>1 DEF QueryFailures, TypeOK, Run, Phases
  <2> QED BY <1>13, <2>2 DEF QueryFailures, UnchangedStore, TypeOK
<1>14. ASSUME SendFailed
      PROVE  TypeOK'
  BY <1>14, EndedType DEF SendFailed, EndUnrecorded, TypeOK, Run
<1>15. ASSUME RecordEvents
      PROVE  TypeOK'
  <2>1. events' \in [Checks -> Event]
    BY <1>15, RowFacts DEF RecordEvents
  <2> QED BY <1>15, <2>1 DEF RecordEvents, TypeOK, Run, Phases
<1>16. ASSUME QueryResolutions
      PROVE  TypeOK'
  <2>1. ResolutionRows \subseteq Ids
    BY JobFacts DEF Known
  <2>2. run' \in Run
    BY <1>16, <2>1, EndedType DEF QueryResolutions, TypeOK, Run, Phases
  <2> QED BY <1>16, <2>2 DEF QueryResolutions, UnchangedStore, TypeOK
<1>17. ASSUME CommitResolutions
      PROVE  TypeOK'
  <2>1. events' \in [Checks -> Event]
    BY <1>17 DEF CommitResolutions, TypeOK, Event
  <2> QED BY <1>17, <2>1, EndedType DEF CommitResolutions, TypeOK
<1>18. ASSUME ReportFails
      PROVE  TypeOK'
  BY <1>18, EndedType DEF ReportFails, UnchangedStore, TypeOK
<1>19. ASSUME RenewUnacked
      PROVE  TypeOK'
  BY <1>19, RenewedType, EndedType DEF RenewUnacked, UnchangedStore, TypeOK, Tokens
<1>20. ASSUME RenewRefused
      PROVE  TypeOK'
  BY <1>20, EndedType DEF RenewRefused, UnchangedStore, TypeOK
<1>21. ASSUME LoadFails
      PROVE  TypeOK'
  BY <1>21, EndedType DEF LoadFails, UnchangedStore, TypeOK
<1>22. ASSUME RecordFails
      PROVE  TypeOK'
  BY <1>22, EndedType DEF RecordFails, EndUnrecorded, TypeOK, Run
<1>23. ASSUME ResolveRefused
      PROVE  TypeOK'
  BY <1>23, EndedType DEF ResolveRefused, UnchangedStore, TypeOK
<1>24. ASSUME CommitFails
      PROVE  TypeOK'
  BY <1>24, EndedType DEF CommitFails, UnchangedStore, TypeOK
<1>25. ASSUME NEW j \in Ids, SendEvent(j)
      PROVE  TypeOK'
  BY <1>25 DEF SendEvent, Sending, TypeOK, Run
<1>26. ASSUME NEW j \in Ids, Resolve(j)
      PROVE  TypeOK'
  <2>1. CheckOf(j) \in Checks
    BY <1>26, JobFacts DEF Resolve, Locals, Known
  <2> QED BY <1>26, <2>1 DEF Resolve, TypeOK, Run
<1>27. ASSUME NEW j \in Ids, SendUnacked(j)
      PROVE  TypeOK'
  BY <1>27 DEF SendUnacked, Sending, TypeOK, Run
<1>28. ASSUME NEW j \in Ids, SendRefused(j)
      PROVE  TypeOK'
  BY <1>28 DEF SendRefused, UnchangedStore, Sending, TypeOK, Run
<1>29. ASSUME NEW j \in Ids, ResolveUnacked(j)
      PROVE  TypeOK'
  <2>1. CheckOf(j) \in Checks
    BY <1>29, JobFacts DEF ResolveUnacked, Locals, Known
  <2> QED BY <1>29, <2>1, EndedType DEF ResolveUnacked, TypeOK
<1>30. ASSUME UNCHANGED vars
      PROVE  TypeOK'
  BY <1>30 DEF vars, TypeOK
<1> QED BY Steps, <1>1, <1>2, <1>3, <1>4, <1>5, <1>6, <1>7, <1>8, <1>9, <1>10, <1>11,
           <1>12, <1>13, <1>14, <1>15, <1>16, <1>17, <1>18, <1>19, <1>20, <1>21,
           <1>22, <1>23, <1>24, <1>25, <1>26, <1>27, <1>28, <1>29, <1>30

\* The meaning of the locals is preserved by every step.
LEMMA LocalsStep ==
    ASSUME TypeOK, Locals, [Next]_vars
    PROVE  Locals'
<1>1. ASSUME NEW c \in Checks, NEW failed \in BOOLEAN, Backup(c, failed)
      PROVE  Locals'
  BY <1>1 DEF Backup, Locals, Known, Fails, CheckOf
<1>2. ASSUME LeaveReport
      PROVE  Locals'
  BY <1>2 DEF LeaveReport, Locals, Known, Fails, CheckOf
<1>3. ASSUME Expire
      PROVE  Locals'
  BY <1>3 DEF Expire, Locals, Known, Fails, CheckOf
<1>4. ASSUME Killed
      PROVE  Locals'
  BY <1>4, EndedType DEF Killed, Locals
<1>5. ASSUME Reseed
      PROVE  Locals'
  BY <1>5 DEF Reseed, UnchangedStore, Locals
<1>6. ASSUME Start
      PROVE  Locals'
  BY <1>6, EndedType DEF Start, Locals
<1>7. ASSUME GetReport
      PROVE  Locals'
  BY <1>7 DEF GetReport, UnchangedStore, TypeOK, Locals, Known
<1>8. ASSUME Unauthorised
      PROVE  Locals'
  BY <1>8 DEF Unauthorised, UnchangedStore, GoTo, Locals
<1>9. ASSUME Renew
      PROVE  Locals'
  BY <1>9 DEF Renew, UnchangedStore, Locals
<1>10. ASSUME OpenSecrets
      PROVE  Locals'
  BY <1>10 DEF OpenSecrets, UnchangedStore, GoTo, Locals
<1>11. ASSUME DumpSecrets
      PROVE  Locals'
  BY <1>11 DEF DumpSecrets, UnchangedStore, GoTo, Locals
<1>12. ASSUME LoadBackupSummary
      PROVE  Locals'
  BY <1>12 DEF LoadBackupSummary, Locals
<1>13. ASSUME QueryFailures
      PROVE  Locals'
  BY <1>13, JobFacts DEF QueryFailures, UnchangedStore, Locals, Known, Fails, CheckOf
<1>14. ASSUME SendFailed
      PROVE  Locals'
  BY <1>14, EndedType DEF SendFailed, EndUnrecorded, Locals
<1>15. ASSUME RecordEvents
      PROVE  Locals'
  BY <1>15 DEF RecordEvents, Locals
<1>16. ASSUME QueryResolutions
      PROVE  Locals'
  BY <1>16, JobFacts, EndedType DEF QueryResolutions, UnchangedStore, Locals, Known
<1>17. ASSUME CommitResolutions
      PROVE  Locals'
  BY <1>17, EndedType DEF CommitResolutions, Locals
<1>18. ASSUME ReportFails
      PROVE  Locals'
  BY <1>18, EndedType DEF ReportFails, Locals
<1>19. ASSUME RenewUnacked
      PROVE  Locals'
  BY <1>19, EndedType DEF RenewUnacked, Locals
<1>20. ASSUME RenewRefused
      PROVE  Locals'
  BY <1>20, EndedType DEF RenewRefused, Locals
<1>21. ASSUME LoadFails
      PROVE  Locals'
  BY <1>21, EndedType DEF LoadFails, Locals
<1>22. ASSUME RecordFails
      PROVE  Locals'
  BY <1>22, EndedType DEF RecordFails, EndUnrecorded, Locals
<1>23. ASSUME ResolveRefused
      PROVE  Locals'
  BY <1>23, EndedType DEF ResolveRefused, Locals
<1>24. ASSUME CommitFails
      PROVE  Locals'
  BY <1>24, EndedType DEF CommitFails, Locals
<1>25. ASSUME NEW j \in Ids, SendEvent(j)
      PROVE  Locals'
  BY <1>25 DEF SendEvent, Sending, Locals, Known, Fails, CheckOf
<1>26. ASSUME NEW j \in Ids, Resolve(j)
      PROVE  Locals'
  BY <1>26 DEF Resolve, Locals, Known
<1>27. ASSUME NEW j \in Ids, SendUnacked(j)
      PROVE  Locals'
  BY <1>27 DEF SendUnacked, Sending, Locals, Known, Fails, CheckOf
<1>28. ASSUME NEW j \in Ids, SendRefused(j)
      PROVE  Locals'
  BY <1>28 DEF SendRefused, UnchangedStore, Sending, Locals, Known, Fails, CheckOf
<1>29. ASSUME NEW j \in Ids, ResolveUnacked(j)
      PROVE  Locals'
  BY <1>29, EndedType DEF ResolveUnacked, Locals
<1>30. ASSUME UNCHANGED vars
      PROVE  Locals'
  BY <1>30 DEF vars, Locals, Known, Fails, CheckOf
<1> QED BY Steps, <1>1, <1>2, <1>3, <1>4, <1>5, <1>6, <1>7, <1>8, <1>9, <1>10, <1>11,
           <1>12, <1>13, <1>14, <1>15, <1>16, <1>17, <1>18, <1>19, <1>20, <1>21,
           <1>22, <1>23, <1>24, <1>25, <1>26, <1>27, <1>28, <1>29, <1>30

\* An event row that is written names a failure Datadog took.
LEMMA RecordStep ==
    ASSUME TypeOK, Locals, Accounted, RecordGenuine, [Next]_vars
    PROVE  RecordGenuine'
<1>1. ASSUME NEW c \in Checks, NEW failed \in BOOLEAN, Backup(c, failed)
      PROVE  RecordGenuine'
  <2>1. \A d \in Checks : HasRow(d) => events[d].job \in DOMAIN jobs
    BY DEF RecordGenuine, Accounted, Known
  <2> QED BY <1>1, <2>1, JobsGrow DEF Backup, RecordGenuine, HasRow
<1>2. ASSUME LeaveReport
      PROVE  RecordGenuine'
  BY <1>2 DEF LeaveReport, RecordGenuine, HasRow
<1>3. ASSUME Expire
      PROVE  RecordGenuine'
  BY <1>3 DEF Expire, RecordGenuine, HasRow
<1>4. ASSUME Killed
      PROVE  RecordGenuine'
  BY <1>4 DEF Killed, RecordGenuine, HasRow
<1>5. ASSUME Reseed
      PROVE  RecordGenuine'
  BY <1>5 DEF Reseed, UnchangedStore, RecordGenuine, HasRow
<1>6. ASSUME Start
      PROVE  RecordGenuine'
  BY <1>6 DEF Start, UnchangedStore, RecordGenuine, HasRow
<1>7. ASSUME GetReport
      PROVE  RecordGenuine'
  BY <1>7 DEF GetReport, UnchangedStore, RecordGenuine, HasRow
<1>8. ASSUME Unauthorised
      PROVE  RecordGenuine'
  BY <1>8 DEF Unauthorised, UnchangedStore, GoTo, RecordGenuine, HasRow
<1>9. ASSUME Renew
      PROVE  RecordGenuine'
  BY <1>9 DEF Renew, UnchangedStore, RecordGenuine, HasRow
<1>10. ASSUME OpenSecrets
      PROVE  RecordGenuine'
  BY <1>10 DEF OpenSecrets, UnchangedStore, GoTo, RecordGenuine, HasRow
<1>11. ASSUME DumpSecrets
      PROVE  RecordGenuine'
  BY <1>11 DEF DumpSecrets, UnchangedStore, GoTo, RecordGenuine, HasRow
<1>12. ASSUME LoadBackupSummary
      PROVE  RecordGenuine'
  BY <1>12 DEF LoadBackupSummary, RecordGenuine, HasRow
<1>13. ASSUME QueryFailures
      PROVE  RecordGenuine'
  BY <1>13 DEF QueryFailures, UnchangedStore, RecordGenuine, HasRow
<1>14. ASSUME SendFailed
      PROVE  RecordGenuine'
  BY <1>14 DEF SendFailed, EndUnrecorded, RecordGenuine, HasRow
<1>15. ASSUME RecordEvents
      PROVE  RecordGenuine'
  <2> SUFFICES ASSUME NEW d \in Checks, HasRow(d)'
               PROVE  /\ Row(d).job \in datadog.failed
                      /\ jobs[Row(d).job] = [check |-> d, failed |-> TRUE]
                      /\ Row(d).resolved => d \in datadog.ok
    BY <1>15 DEF RecordEvents, RecordGenuine
  <2>1. CASE Row(d) = events[d]
    <3>1. HasRow(d)
      BY <1>15, <2>1 DEF RecordEvents, HasRow
    <3> QED BY <2>1, <3>1 DEF RecordGenuine
  <2>2. CASE Row(d).job \in run.sent /\ CheckOf(Row(d).job) = d /\ Row(d).resolved = FALSE
    <3>1. Fails(Row(d).job) /\ Row(d).job \in datadog.failed
      BY <2>2 DEF Locals
    <3>2. jobs[Row(d).job] \in Job
      BY <3>1, JobFacts DEF Fails, Known
    <3> QED BY <2>2, <3>1, <3>2 DEF Job, Fails, CheckOf
  <2> QED BY <2>1, <2>2, RowFacts
<1>16. ASSUME QueryResolutions
      PROVE  RecordGenuine'
  BY <1>16 DEF QueryResolutions, UnchangedStore, RecordGenuine, HasRow
<1>17. ASSUME CommitResolutions
      PROVE  RecordGenuine'
  <2> SUFFICES ASSUME NEW d \in Checks, HasRow(d)'
               PROVE  /\ events'[d].job \in datadog'.failed
                      /\ jobs'[events'[d].job] = [check |-> d, failed |-> TRUE]
                      /\ events'[d].resolved => d \in datadog'.ok
    BY DEF RecordGenuine
  <2> QED BY <1>17 DEF CommitResolutions, TypeOK, Event, RecordGenuine, HasRow, Locals
<1>18. ASSUME ReportFails
      PROVE  RecordGenuine'
  BY <1>18 DEF ReportFails, UnchangedStore, RecordGenuine, HasRow
<1>19. ASSUME RenewUnacked
      PROVE  RecordGenuine'
  BY <1>19 DEF RenewUnacked, UnchangedStore, RecordGenuine, HasRow
<1>20. ASSUME RenewRefused
      PROVE  RecordGenuine'
  BY <1>20 DEF RenewRefused, UnchangedStore, RecordGenuine, HasRow
<1>21. ASSUME LoadFails
      PROVE  RecordGenuine'
  BY <1>21 DEF LoadFails, UnchangedStore, RecordGenuine, HasRow
<1>22. ASSUME RecordFails
      PROVE  RecordGenuine'
  BY <1>22 DEF RecordFails, EndUnrecorded, RecordGenuine, HasRow
<1>23. ASSUME ResolveRefused
      PROVE  RecordGenuine'
  BY <1>23 DEF ResolveRefused, UnchangedStore, RecordGenuine, HasRow
<1>24. ASSUME CommitFails
      PROVE  RecordGenuine'
  BY <1>24 DEF CommitFails, UnchangedStore, RecordGenuine, HasRow
<1>25. ASSUME NEW j \in Ids, SendEvent(j)
      PROVE  RecordGenuine'
  BY <1>25 DEF SendEvent, Sending, RecordGenuine, HasRow
<1>26. ASSUME NEW j \in Ids, Resolve(j)
      PROVE  RecordGenuine'
  BY <1>26 DEF Resolve, RecordGenuine, HasRow
<1>27. ASSUME NEW j \in Ids, SendUnacked(j)
      PROVE  RecordGenuine'
  BY <1>27 DEF SendUnacked, Sending, RecordGenuine, HasRow
<1>28. ASSUME NEW j \in Ids, SendRefused(j)
      PROVE  RecordGenuine'
  BY <1>28 DEF SendRefused, UnchangedStore, Sending, RecordGenuine, HasRow
<1>29. ASSUME NEW j \in Ids, ResolveUnacked(j)
      PROVE  RecordGenuine'
  BY <1>29 DEF ResolveUnacked, RecordGenuine, HasRow
<1>30. ASSUME UNCHANGED vars
      PROVE  RecordGenuine'
  BY <1>30 DEF vars, RecordGenuine, HasRow
<1> QED BY Steps, <1>1, <1>2, <1>3, <1>4, <1>5, <1>6, <1>7, <1>8, <1>9, <1>10, <1>11,
           <1>12, <1>13, <1>14, <1>15, <1>16, <1>17, <1>18, <1>19, <1>20, <1>21,
           <1>22, <1>23, <1>24, <1>25, <1>26, <1>27, <1>28, <1>29, <1>30

\* No step loses the account of a failure Datadog took.
LEMMA AccountedStep ==
    ASSUME TypeOK, Locals, Accounted, [Next]_vars
    PROVE  Accounted'
<1>1. ASSUME NEW c \in Checks, NEW failed \in BOOLEAN, Backup(c, failed)
      PROVE  Accounted'
  BY <1>1 DEF Backup, Accounted, Known, HasRow, CheckOf
<1>2. ASSUME LeaveReport
      PROVE  Accounted'
  BY <1>2 DEF LeaveReport, Accounted, Known, HasRow, CheckOf
<1>3. ASSUME Expire
      PROVE  Accounted'
  BY <1>3 DEF Expire, Accounted, Known, HasRow, CheckOf
<1>4. ASSUME Killed
      PROVE  Accounted'
  BY <1>4 DEF Killed, Accounted, Known, HasRow, CheckOf
<1>5. ASSUME Reseed
      PROVE  Accounted'
  BY <1>5 DEF Reseed, UnchangedStore, Accounted, Known, HasRow, CheckOf
<1>6. ASSUME Start
      PROVE  Accounted'
  BY <1>6 DEF Start, UnchangedStore, Accounted, Locals, Known, HasRow, CheckOf
<1>7. ASSUME GetReport
      PROVE  Accounted'
  BY <1>7 DEF GetReport, UnchangedStore, Accounted, Known, HasRow, CheckOf
<1>8. ASSUME Unauthorised
      PROVE  Accounted'
  BY <1>8 DEF Unauthorised, UnchangedStore, GoTo, Accounted, Known, HasRow, CheckOf
<1>9. ASSUME Renew
      PROVE  Accounted'
  BY <1>9 DEF Renew, UnchangedStore, Accounted, Known, HasRow, CheckOf
<1>10. ASSUME OpenSecrets
      PROVE  Accounted'
  BY <1>10 DEF OpenSecrets, UnchangedStore, GoTo, Accounted, Known, HasRow, CheckOf
<1>11. ASSUME DumpSecrets
      PROVE  Accounted'
  BY <1>11 DEF DumpSecrets, UnchangedStore, GoTo, Accounted, Known, HasRow, CheckOf
<1>12. ASSUME LoadBackupSummary
      PROVE  Accounted'
  BY <1>12 DEF LoadBackupSummary, Accounted, Known, HasRow, CheckOf
<1>13. ASSUME QueryFailures
      PROVE  Accounted'
  BY <1>13 DEF QueryFailures, UnchangedStore, Accounted, Known, HasRow, CheckOf
<1>14. ASSUME SendFailed
      PROVE  Accounted'
  BY <1>14 DEF SendFailed, EndUnrecorded, Accounted, Known, HasRow, CheckOf
<1>15. ASSUME RecordEvents
      PROVE  Accounted'
  <2> SUFFICES ASSUME NEW j \in datadog.failed
               PROVE  Known(j) /\ (j \in datadog.lost \/ Row(CheckOf(j)).job # None)
    BY <1>15, JobFacts DEF RecordEvents, Accounted, Known, HasRow, CheckOf
  <2>1. Known(j) /\ CheckOf(j) \in Checks
    BY JobFacts DEF Accounted, Known
  <2>2. CASE j \in run.sent
    BY <2>1, <2>2, RowFacts
  <2>3. CASE HasRow(CheckOf(j))
    BY <2>1, <2>3, RowFacts DEF HasRow
  <2> QED BY <2>1, <2>2, <2>3 DEF Accounted
<1>16. ASSUME QueryResolutions
      PROVE  Accounted'
  BY <1>16 DEF QueryResolutions, UnchangedStore, Accounted, Locals, Known, HasRow,
     CheckOf
<1>17. ASSUME CommitResolutions
      PROVE  Accounted'
  BY <1>17, JobFacts DEF CommitResolutions, Accounted, Locals, Known, HasRow, CheckOf
<1>18. ASSUME ReportFails
      PROVE  Accounted'
  BY <1>18 DEF ReportFails, UnchangedStore, Accounted, Locals, Known, HasRow, CheckOf
<1>19. ASSUME RenewUnacked
      PROVE  Accounted'
  BY <1>19 DEF RenewUnacked, UnchangedStore, Accounted, Locals, Known, HasRow, CheckOf
<1>20. ASSUME RenewRefused
      PROVE  Accounted'
  BY <1>20 DEF RenewRefused, UnchangedStore, Accounted, Locals, Known, HasRow, CheckOf
<1>21. ASSUME LoadFails
      PROVE  Accounted'
  BY <1>21 DEF LoadFails, UnchangedStore, Accounted, Locals, Known, HasRow, CheckOf
<1>22. ASSUME RecordFails
      PROVE  Accounted'
  BY <1>22 DEF RecordFails, EndUnrecorded, Accounted, Known, HasRow, CheckOf
<1>23. ASSUME ResolveRefused
      PROVE  Accounted'
  BY <1>23 DEF ResolveRefused, UnchangedStore, Accounted, Locals, Known, HasRow, CheckOf
<1>24. ASSUME CommitFails
      PROVE  Accounted'
  BY <1>24 DEF CommitFails, UnchangedStore, Accounted, Locals, Known, HasRow, CheckOf
<1>25. ASSUME NEW j \in Ids, SendEvent(j)
      PROVE  Accounted'
  BY <1>25 DEF SendEvent, Sending, Accounted, Locals, Known, Fails, HasRow, CheckOf
<1>26. ASSUME NEW j \in Ids, Resolve(j)
      PROVE  Accounted'
  BY <1>26 DEF Resolve, Accounted, Known, HasRow, CheckOf
<1>27. ASSUME NEW j \in Ids, SendUnacked(j)
      PROVE  Accounted'
  BY <1>27 DEF SendUnacked, Sending, Accounted, Locals, Known, Fails, HasRow, CheckOf
<1>28. ASSUME NEW j \in Ids, SendRefused(j)
      PROVE  Accounted'
  BY <1>28 DEF SendRefused, UnchangedStore, Sending, Accounted, Known, HasRow, CheckOf
<1>29. ASSUME NEW j \in Ids, ResolveUnacked(j)
      PROVE  Accounted'
  BY <1>29 DEF ResolveUnacked, Accounted, Locals, Known, HasRow, CheckOf
<1>30. ASSUME UNCHANGED vars
      PROVE  Accounted'
  BY <1>30 DEF vars, Accounted, Known, HasRow, CheckOf
<1> QED BY Steps, <1>1, <1>2, <1>3, <1>4, <1>5, <1>6, <1>7, <1>8, <1>9, <1>10, <1>11,
           <1>12, <1>13, <1>14, <1>15, <1>16, <1>17, <1>18, <1>19, <1>20, <1>21,
           <1>22, <1>23, <1>24, <1>25, <1>26, <1>27, <1>28, <1>29, <1>30

\* The pair on the volume is kept by every step.
LEMMA PairStep ==
    ASSUME TypeOK, Locals, PairKept, [Next]_vars
    PROVE  PairKept'
<1>1. ASSUME NEW c \in Checks, NEW failed \in BOOLEAN, Backup(c, failed)
      PROVE  PairKept'
  BY <1>1 DEF Backup, PairKept
<1>2. ASSUME LeaveReport
      PROVE  PairKept'
  BY <1>2 DEF LeaveReport, PairKept
<1>3. ASSUME Expire
      PROVE  PairKept'
  BY <1>3 DEF Expire, PairKept
<1>4. ASSUME Killed
      PROVE  PairKept'
  BY <1>4 DEF Killed, TypeOK, Tokens, PairKept
<1>5. ASSUME Reseed
      PROVE  PairKept'
  BY <1>5 DEF Reseed, PairKept
<1>6. ASSUME Start
      PROVE  PairKept'
  BY <1>6 DEF Start, PairKept
<1>7. ASSUME GetReport
      PROVE  PairKept'
  BY <1>7 DEF GetReport, PairKept
<1>8. ASSUME Unauthorised
      PROVE  PairKept'
  BY <1>8 DEF Unauthorised, GoTo, PairKept
<1>9. ASSUME Renew
      PROVE  PairKept'
  BY <1>9 DEF Renew, PairKept
<1>10. ASSUME OpenSecrets
      PROVE  PairKept'
  BY <1>10 DEF OpenSecrets, GoTo, PairKept
<1>11. ASSUME DumpSecrets
      PROVE  PairKept'
  BY <1>11 DEF DumpSecrets, GoTo, PairKept, Locals
<1>12. ASSUME LoadBackupSummary
      PROVE  PairKept'
  BY <1>12 DEF LoadBackupSummary, PairKept
<1>13. ASSUME QueryFailures
      PROVE  PairKept'
  BY <1>13 DEF QueryFailures, PairKept
<1>14. ASSUME SendFailed
      PROVE  PairKept'
  BY <1>14 DEF SendFailed, EndUnrecorded, PairKept
<1>15. ASSUME RecordEvents
      PROVE  PairKept'
  BY <1>15 DEF RecordEvents, PairKept
<1>16. ASSUME QueryResolutions
      PROVE  PairKept'
  BY <1>16 DEF QueryResolutions, PairKept
<1>17. ASSUME CommitResolutions
      PROVE  PairKept'
  BY <1>17 DEF CommitResolutions, PairKept
<1>18. ASSUME ReportFails
      PROVE  PairKept'
  BY <1>18 DEF ReportFails, PairKept
<1>19. ASSUME RenewUnacked
      PROVE  PairKept'
  BY <1>19 DEF RenewUnacked, PairKept
<1>20. ASSUME RenewRefused
      PROVE  PairKept'
  BY <1>20 DEF RenewRefused, PairKept
<1>21. ASSUME LoadFails
      PROVE  PairKept'
  BY <1>21 DEF LoadFails, PairKept
<1>22. ASSUME RecordFails
      PROVE  PairKept'
  BY <1>22 DEF RecordFails, EndUnrecorded, PairKept
<1>23. ASSUME ResolveRefused
      PROVE  PairKept'
  BY <1>23 DEF ResolveRefused, PairKept
<1>24. ASSUME CommitFails
      PROVE  PairKept'
  BY <1>24 DEF CommitFails, PairKept
<1>25. ASSUME NEW j \in Ids, SendEvent(j)
      PROVE  PairKept'
  BY <1>25 DEF SendEvent, Sending, PairKept
<1>26. ASSUME NEW j \in Ids, Resolve(j)
      PROVE  PairKept'
  BY <1>26 DEF Resolve, PairKept
<1>27. ASSUME NEW j \in Ids, SendUnacked(j)
      PROVE  PairKept'
  BY <1>27 DEF SendUnacked, Sending, PairKept
<1>28. ASSUME NEW j \in Ids, SendRefused(j)
      PROVE  PairKept'
  BY <1>28 DEF SendRefused, Sending, PairKept
<1>29. ASSUME NEW j \in Ids, ResolveUnacked(j)
      PROVE  PairKept'
  BY <1>29 DEF ResolveUnacked, PairKept
<1>30. ASSUME UNCHANGED vars
      PROVE  PairKept'
  BY <1>30 DEF vars, PairKept
<1> QED BY Steps, <1>1, <1>2, <1>3, <1>4, <1>5, <1>6, <1>7, <1>8, <1>9, <1>10, <1>11,
           <1>12, <1>13, <1>14, <1>15, <1>16, <1>17, <1>18, <1>19, <1>20, <1>21,
           <1>22, <1>23, <1>24, <1>25, <1>26, <1>27, <1>28, <1>29, <1>30

\* The five facts hold in every reachable state.
LEMMA Inductive == Spec => []IInv
<1>1. Init => IInv
  <2> SUFFICES ASSUME Init PROVE IInv
    OBVIOUS
  <2>1. TypeOK
    <3>1. tokens \in Tokens
      BY BackupAssumption DEF Init, Tokens
    <3>2. events \in [Checks -> Event]
      BY DEF Init, Event, None
    <3>3. 1 \in 1..(MaxJobs + 1) /\ Len(<< >>) <= MaxJobs /\ << >> \in Seq(Job)
      BY BackupAssumption
    <3> QED BY <3>1, <3>2, <3>3, EndedType DEF Init, TypeOK
  <2>2. Locals /\ RecordGenuine /\ Accounted /\ PairKept
    BY EndedType DEF Init, Locals, RecordGenuine, HasRow, Accounted, PairKept, None
  <2> QED BY <2>1, <2>2 DEF IInv
<1>2. IInv /\ [Next]_vars => IInv'
  BY TypeStep, LocalsStep, RecordStep, AccountedStep, PairStep DEF IInv
<1> QED BY <1>1, <1>2, PTL DEF Spec

\* Whatever dies where, the variables of the job and of its run keep their types.
THEOREM BackupTypes == Spec => []TypeOK
BY Inductive, PTL DEF IInv

\* An event row never claims an event that Datadog did not take, and is never resolved
\* without Datadog having been told.
THEOREM RecordsAreGenuine == Spec => []RecordGenuine
BY Inductive, PTL DEF IInv

\* The token pair on the volume is the one Commvault expects, but for the named losses.
THEOREM PairIsKept == Spec => []PairKept
BY Inductive, PTL DEF IInv

\* A failure is sent again only for one of the two named reasons.
THEOREM RepeatsAreExplained == Spec => []RepeatExplained
<1>1. IInv => RepeatExplained
  BY DEF IInv, RepeatExplained, Locals, Accounted, HasRow
<1> QED BY <1>1, Inductive, PTL


\* The recoveries a run has prepared are of checks whose row is not resolved.
FixesOpen == run.phase = "fix" => \A j \in run.todo : ~events[CheckOf(j)].resolved

LEMMA FixesStep ==
    ASSUME TypeOK, Locals, FixesOpen, [Next]_vars
    PROVE  FixesOpen'
<1>1. ASSUME NEW c \in Checks, NEW failed \in BOOLEAN, Backup(c, failed)
      PROVE  FixesOpen'
  <2>1. \A j \in DOMAIN jobs : jobs'[j] = jobs[j]
    BY <1>1, JobsGrow
  <2>2. run' = run /\ events' = events
    BY <1>1 DEF Backup
  <2> QED BY <2>1, <2>2 DEF FixesOpen, Locals, Known, CheckOf
<1>2. ASSUME QueryResolutions
      PROVE  FixesOpen'
  <2>1. CASE ResolutionRows = {}
    BY <1>2, <2>1, EndedType DEF QueryResolutions, FixesOpen
  <2>2. CASE ResolutionRows # {}
    <3>1. run'.todo = ResolutionRows
      BY <1>2, <2>2 DEF QueryResolutions, TypeOK, Run
    <3>2. jobs' = jobs /\ events' = events
      BY <1>2 DEF QueryResolutions, UnchangedStore
    <3> QED BY <3>1, <3>2 DEF FixesOpen, ResolutionRows, CheckOf
  <2> QED BY <2>1, <2>2
<1>3. ASSUME NEW j \in Ids, Resolve(j)
      PROVE  FixesOpen'
  <2>1. run'.todo \subseteq run.todo /\ run'.phase = run.phase
    BY <1>3 DEF Resolve, TypeOK, Run
  <2>2. jobs' = jobs /\ events' = events
    BY <1>3 DEF Resolve
  <2> QED BY <2>1, <2>2 DEF FixesOpen, CheckOf
<1>4. ASSUME run' = Ended
      PROVE  FixesOpen'
  BY <1>4, EndedType DEF FixesOpen
<1>5. ASSUME UNCHANGED <<run, jobs, events>>
      PROVE  FixesOpen'
  BY <1>5 DEF FixesOpen, CheckOf
<1>6. ASSUME run'.phase # "fix"
      PROVE  FixesOpen'
  BY <1>6 DEF FixesOpen
<1>7. ASSUME Start \/ GetReport \/ Unauthorised \/ Renew \/ OpenSecrets \/ DumpSecrets
             \/ LoadBackupSummary \/ QueryFailures \/ RecordEvents
      PROVE  run'.phase # "fix"
  BY <1>7 DEF Start, GetReport, Unauthorised, Renew, OpenSecrets, DumpSecrets, GoTo,
     LoadBackupSummary, QueryFailures, RecordEvents, Ended, TypeOK, Run
<1>8. ASSUME NEW j \in Ids, SendEvent(j) \/ SendUnacked(j) \/ SendRefused(j)
      PROVE  run'.phase # "fix"
  BY <1>8 DEF SendEvent, SendUnacked, SendRefused, Sending, TypeOK, Run
<1>9. ASSUME Killed \/ SendFailed \/ CommitResolutions \/ ReportFails \/ RenewUnacked
             \/ RenewRefused \/ LoadFails \/ RecordFails \/ ResolveRefused \/ CommitFails
             \/ \E j \in Ids : ResolveUnacked(j)
      PROVE  run' = Ended
  BY <1>9 DEF Killed, SendFailed, EndUnrecorded, CommitResolutions, ReportFails, RenewUnacked,
     RenewRefused, LoadFails, RecordFails, ResolveRefused, CommitFails, ResolveUnacked
<1>10. ASSUME LeaveReport \/ Expire \/ Reseed \/ UNCHANGED vars
       PROVE  UNCHANGED <<run, jobs, events>>
  BY <1>10 DEF LeaveReport, Expire, Reseed, UnchangedStore, vars
<1> QED BY Steps, <1>1, <1>2, <1>3, <1>4, <1>5, <1>6, <1>7, <1>8, <1>9, <1>10

\* For any number of jobs and checks, and whatever fails on the way: once the row of a
\* check is resolved no run tells Datadog again that the check recovered.
THEOREM LaterRecoveriesSilent == Spec => SilentOnceResolved
<1>1. Init => FixesOpen
  BY EndedType DEF Init, FixesOpen
<1>2. IInv /\ FixesOpen /\ [Next]_vars => FixesOpen'
  BY FixesStep DEF IInv
<1>3. ASSUME FixesOpen, NEW j \in Ids, Resolve(j) \/ ResolveUnacked(j)
      PROVE  ~events[CheckOf(j)].resolved
  BY <1>3 DEF FixesOpen, Resolve, ResolveUnacked
<1>4. FixesOpen =>
        \A j \in Ids : Resolve(j) \/ ResolveUnacked(j) => ~events[CheckOf(j)].resolved
  BY <1>3
<1> QED BY <1>1, <1>2, <1>4, Inductive, PTL DEF Spec, SilentOnceResolved
=============================================================================
