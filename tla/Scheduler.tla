------------------------------ MODULE Scheduler ------------------------------
(***************************************************************************)
(* The daily schedule: the standalone scheduler process                    *)
(* (scheduler/main.py), the rows of scheduled_analyses it shares with the  *)
(* API (api/services/scheduled_service.py), and the API's manual trigger   *)
(* of a scheduled task (_run_manual_trigger in api/main.py).               *)
(*                                                                         *)
(* The loop claims every due row in one transaction, stamping it with the  *)
(* day and "running", then starts a coroutine per row which waits for a    *)
(* slot, analyses and records the outcome.  The process may die at any     *)
(* step and recovers the rows it left "running" when it starts again.  A   *)
(* run's analysis is the job of JobLifecycle, seen here by its report and  *)
(* by the verdict _run_job leaves in the entry.                            *)
(*                                                                         *)
(* Time has three parts a day, as the loop and the trigger times see it:   *)
(* before 08:00, the day between, from 20:00.                              *)
(***************************************************************************)
EXTENDS Integers, FiniteSets

CONSTANTS
    Tasks,        \* the rows of scheduled_analyses
    TradingDays,  \* the days is_cn_trading_day accepts
    Concurrency,  \* SCHEDULER_CONCURRENCY, 0 for no limit
    LastDay,      \* bound: the last day of the clock
    MaxRuns,      \* bound: how many runs are ever started
    MaxManual,    \* bound: how many of them by hand
    MaxCrashes,   \* bound: how often the scheduler process dies
    MaxEdits,     \* bound: how many edits the users make
    DbMayFail,    \* may recording an outcome raise?
    RunsOverMidnight, \* may a run outlast the day it was claimed for?
    WritesMayOverlap  \* may a commit come between reading and writing a row?

ASSUME TasksAssumption == IsFiniteSet(Tasks) /\ Tasks # {}
ASSUME DaysAssumption == LastDay \in Nat \ {0} /\ TradingDays \subseteq 1..LastDay
ASSUME ConcurrencyAssumption == Concurrency \in Nat
ASSUME BoundAssumption ==
    {MaxRuns, MaxManual, MaxCrashes, MaxEdits} \subseteq Nat
ASSUME FaultAssumption ==
    {DbMayFail, RunsOverMidnight, WritesMayOverlap} \subseteq BOOLEAN

VARIABLES
    day, part,  \* the clock
    up,         \* is the scheduler process running?
    row,        \* the rows, in the database
    claimed,    \* the rows a claim has committed and is reading back
    toLaunch,   \* the rows the loop has claimed and not yet started
    launchDay,  \* the day they were claimed for
    free,       \* the semaphore: slots not taken
    run,        \* the runs, by job id
    started,    \* how many runs were started
    crashes, edits \* the bounds' counters

clockVars == <<day, part>>
processVars == <<up, claimed, toLaunch, launchDay, free>>
loopVars == <<up, claimed, toLaunch, launchDay>>
countVars == <<crashes, edits>>
vars == <<clockVars, processVars, row, run, started, countVars>>

RunId == 1..MaxRuns
Parts == {"early", "daytime", "evening"}
\* The trigger times _validate_trigger_time admits.
Triggers == {"early", "evening"}
RowStatus == {"none", "running", "success", "failed", "stale"}
Recording == {"recordSuccess", "recordFailure"}
InFlight == {"queued", "analysing", "saved"} \cup Recording
Recorded == {"success", "failed"}
NoDay == 0      \* last_run_date is NULL
NoReport == 0   \* last_report_id is NULL

NewRow(trigger) ==
    [exists |-> TRUE, active |-> TRUE, trigger |-> trigger, lastDate |-> NoDay,
     status |-> "none", report |-> NoReport, failures |-> 0]
NoRow == [NewRow("evening") EXCEPT !.exists = FALSE]

NoRun == [kind |-> "none", task |-> CHOOSE t \in Tasks : TRUE, day |-> NoDay,
          at |-> "none", created |-> NoDay, done |-> FALSE, misled |-> FALSE,
          read |-> FALSE, seen |-> NoRow]
Scheduled(r) == run[r].kind = "scheduled"
Manual(r) == run[r].kind = "manual"
\* The run holds a slot of the semaphore.
Holds(r) == Scheduled(r) /\ Concurrency > 0 /\ run[r].at \in {"analysing", "saved"}
\* The report row of the run is "completed".
HasReport(r) == run[r].done

\* created_at is in UTC, the days of the schedule are Shanghai's.
UtcDay == IF part = "early" THEN day - 1 ELSE day

-----------------------------------------------------------------------------
(* The clock.                                                              *)

NextPart(p) == IF p = "early" THEN "daytime" ELSE "evening"

Tick ==
    /\ IF part = "evening"
       THEN /\ day < LastDay
            /\ RunsOverMidnight \/
                 /\ claimed \cup toLaunch = {}
                 /\ \A r \in RunId : Scheduled(r) => run[r].at \notin InFlight
            /\ day' = day + 1 /\ part' = "early"
       ELSE day' = day /\ part' = NextPart(part)
    /\ UNCHANGED <<processVars, row, run, started, countVars>>

-----------------------------------------------------------------------------
(* The scheduler's loop.                                                   *)

\* trigger_time <= the present HH:MM.
TimeHasCome(t) == row[t].trigger = "early" \/ part = "evening"

\* Mutant: the rows of today are not excluded.
PendingAnyDay == {t \in Tasks : row[t].exists /\ row[t].active /\ TimeHasCome(t)}

\* get_pending_tasks: active, not stamped with today, due.
Pending ==
    {t \in Tasks : /\ row[t].exists /\ row[t].active
                   /\ row[t].lastDate # day
                   /\ TimeHasCome(t)}

\* The minute tick: claim every pending row in one transaction.
Claim ==
    /\ up /\ claimed \cup toLaunch = {}
    /\ day \in TradingDays /\ part # "daytime"
    /\ Pending # {}
    /\ row' = [t \in Tasks |->
                 IF t \in Pending
                 THEN [row[t] EXCEPT !.lastDate = day, !.status = "running"]
                 ELSE row[t]]
    /\ claimed' = Pending
    /\ launchDay' = day
    /\ UNCHANGED <<clockVars, up, toLaunch, free, run, started, countVars>>

\* The committed rows are read back for the launch, each with a query of its
\* own (the commit expired them).
ReadClaimed ==
    /\ up /\ claimed # {}
    /\ \A t \in claimed : row[t].exists
    /\ toLaunch' = claimed
    /\ claimed' = {}
    /\ UNCHANGED <<clockVars, up, launchDay, free, row, run, started, countVars>>

\* A row deleted since, or a query that raises, loses the whole claim: the
\* loop logs the error and carries on.
ReadClaimedRaises ==
    /\ up /\ claimed # {}
    /\ DbMayFail \/ \E t \in claimed : ~row[t].exists
    /\ claimed' = {}
    /\ UNCHANGED <<clockVars, up, toLaunch, launchDay, free, row, run, started,
                   countVars>>

NewRun(kind, t, d) ==
    /\ started < MaxRuns
    /\ started' = started + 1
    /\ run' = [run EXCEPT ![started + 1] =
                 [NoRun EXCEPT !.kind = kind, !.task = t, !.day = d,
                  !.at = IF kind = "manual" THEN "analysing" ELSE "queued",
                  !.created = IF kind = "manual" THEN UtcDay ELSE NoDay]]

\* One claimed row per second becomes a coroutine (_run_scheduled_job).
Launch(t) ==
    /\ up /\ t \in toLaunch
    /\ toLaunch' = toLaunch \ {t}
    /\ NewRun("scheduled", t, launchDay)
    /\ UNCHANGED <<clockVars, up, claimed, launchDay, free, row, countVars>>

-----------------------------------------------------------------------------
(* One run: _run_scheduled_analysis_once and _run_manual_trigger.          *)

\* Enter _concurrency_slot; the job begins, and init_report makes its row.
Acquire(r) ==
    /\ Scheduled(r) /\ run[r].at = "queued"
    /\ Concurrency > 0 => free > 0
    /\ free' = IF Concurrency > 0 THEN free - 1 ELSE free
    /\ run' = [run EXCEPT ![r].at = "analysing", ![r].created = UtcDay]
    /\ UNCHANGED <<clockVars, loopVars, row, started, countVars>>

\* Mutant: a run that fails keeps its slot.
ReleaseUnlessFailed(r, to) ==
    free' = IF Holds(r) /\ to = "recordSuccess" THEN free + 1 ELSE free

\* Mutant: the slot is given back twice.
ReleaseTwice(r, to) == free' = IF Holds(r) THEN free + 2 ELSE free

\* Leave it, whatever the outcome.
Release(r, to) == free' = IF Holds(r) THEN free + 1 ELSE free

\* create_report commits the run's report; its created_at stays.
SaveReport(r) ==
    /\ run[r].at = "analysing"
    /\ run' = [run EXCEPT ![r].at = "saved", ![r].done = TRUE]
    /\ UNCHANGED <<clockVars, processVars, row, started, countVars>>

\* _run_job returns; an entry that reads "failed" is raised as an error, as is
\* a failure to build the request.  A job completes with its report saved, and
\* may fail although it was (the hard limit falls after the commit).  A job
\* that failed is taken for a success when its entry no longer reads "failed":
\* while the failure was being recorded the soft limit set it to "running"
\* again, or its time to live dropped it (JobStore's Reopened and Expire).
\* The run is then misled.  A failure turns the report's row to "failed"; where
\* that raises after the save, a misled run has a completed report and is as
\* one that succeeded, and no row shows the report of any other.
JobEnds(r) ==
    \E to \in Recording, misled \in BOOLEAN :
      /\ run[r].at \in {"analysing", "saved"}
      /\ misled => to = "recordSuccess"
      /\ to = "recordSuccess" => run[r].at = "saved" \/ misled
      /\ run' = [run EXCEPT ![r].at = to, ![r].misled = misled,
                            ![r].done = @ /\ to = "recordSuccess" /\ ~misled]
      /\ Release(r, to)
      /\ UNCHANGED <<clockVars, loopVars, row, started, countVars>>

\* The outcome is recorded in a transaction of its own: the row is read ...
ReadRow(r) ==
    /\ WritesMayOverlap /\ run[r].at \in Recording /\ ~run[r].read
    /\ run' = [run EXCEPT ![r].read = TRUE, ![r].seen = row[run[r].task]]
    /\ UNCHANGED <<clockVars, processVars, row, started, countVars>>

\* ... and the columns that change are written, over whatever was committed
\* since.
Seen(r) == IF WritesMayOverlap THEN run[r].seen ELSE row[run[r].task]
HasRead(r) == WritesMayOverlap => run[r].read
\* An update of a row deleted since it was read raises (StaleDataError).
Vanished(r) == Seen(r).exists /\ ~row[run[r].task].exists

Commit(r, new) ==
    row' = [row EXCEPT ![run[r].task] =
              [c \in DOMAIN NoRow |-> IF new[c] = Seen(r)[c] THEN @[c] ELSE new[c]]]

\* The transaction ends; the next one reads the row again.  A run that records
\* a failure after all is no longer misled.
Ends(r, to) ==
    run' = [run EXCEPT ![r].at = to, ![r].misled = @ /\ to = "success",
                          ![r].read = FALSE, ![r].seen = NoRow]

SuccessOf(r) ==
    IF Manual(r)
    THEN [Seen(r) EXCEPT !.status = "success", !.report = r, !.failures = 0]
    ELSE [Seen(r) EXCEPT !.lastDate = run[r].day, !.status = "success",
                         !.report = r, !.failures = 0]

\* mark_run_success, or record_manual_test_result: a row not found is left
\* alone.
RecordSuccess(r) ==
    /\ run[r].at = "recordSuccess" /\ HasRead(r) /\ ~Vanished(r)
    /\ IF Seen(r).exists THEN Commit(r, SuccessOf(r)) ELSE row' = row
    /\ Ends(r, "success")
    /\ UNCHANGED <<clockVars, processVars, started, countVars>>

\* The commit raised: the handler records a failure instead.
RecordSuccessRaises(r) ==
    /\ run[r].at = "recordSuccess" /\ HasRead(r)
    /\ DbMayFail \/ Vanished(r)
    /\ Ends(r, "recordFailure")
    /\ UNCHANGED <<clockVars, processVars, row, started, countVars>>

\* A manual run only leaves its status; the third failure of the schedule in a
\* row deactivates the row.
FailedRow(r, stamp, report, deactivates) ==
    IF Manual(r) THEN [Seen(r) EXCEPT !.status = "failed"]
    ELSE [Seen(r) EXCEPT !.lastDate = stamp, !.status = "failed",
                         !.report = report, !.failures = @ + 1,
                         !.active = @ /\ ~(deactivates /\ Seen(r).failures >= 2)]

\* Mutant: the third failure does not deactivate the row.
FailureOfNeverDeactivates(r) == FailedRow(r, run[r].day, Seen(r).report, FALSE)

\* Mutant: a failed run is tried again the same day.
FailureOfRetries(r) == FailedRow(r, NoDay, Seen(r).report, TRUE)

\* Mutant: the report of a failed run is shown.
FailureOfShowsReport(r) == FailedRow(r, run[r].day, r, TRUE)

\* mark_run_failed and record_manual_test_result("failed").
FailureOf(r) == FailedRow(r, run[r].day, Seen(r).report, TRUE)

\* Mutant: the failure is logged and not recorded.
RecordFailureForgets(r) ==
    /\ run[r].at = "recordFailure" /\ HasRead(r) /\ ~Vanished(r)
    /\ Ends(r, "failed")
    /\ UNCHANGED <<clockVars, processVars, row, started, countVars>>

RecordFailure(r) ==
    /\ run[r].at = "recordFailure" /\ HasRead(r) /\ ~Vanished(r)
    /\ IF Seen(r).exists THEN Commit(r, FailureOf(r)) ELSE row' = row
    /\ Ends(r, "failed")
    /\ UNCHANGED <<clockVars, processVars, started, countVars>>

\* That raised too: it is logged, and the row stays as it is.
RecordFailureRaises(r) ==
    /\ run[r].at = "recordFailure" /\ HasRead(r)
    /\ DbMayFail \/ Vanished(r)
    /\ Ends(r, "unrecorded")
    /\ UNCHANGED <<clockVars, processVars, row, started, countVars>>

\* POST /v1/scheduled/{id}/trigger, in the API process: no slot.
ManualTrigger(t) ==
    /\ row[t].exists
    /\ Cardinality({r \in RunId : Manual(r)}) < MaxManual
    /\ NewRun("manual", t, day)
    /\ UNCHANGED <<clockVars, processVars, row, countVars>>

-----------------------------------------------------------------------------
(* The users' edits (update, batch update, delete).                        *)

Edits == edits < MaxEdits /\ edits' = edits + 1

\* _apply_scheduled_updates: activating a row clears its failures.
SetActive(t, active) ==
    /\ Edits /\ row[t].exists
    /\ row' = [row EXCEPT ![t].active = active,
                          ![t].failures = IF active THEN 0 ELSE @]
    /\ UNCHANGED <<clockVars, processVars, run, started, crashes>>

SetTrigger(t, trigger) ==
    /\ Edits /\ row[t].exists
    /\ row' = [row EXCEPT ![t].trigger = trigger]
    /\ UNCHANGED <<clockVars, processVars, run, started, crashes>>

DeleteTask(t) ==
    /\ Edits /\ row[t].exists
    /\ row' = [row EXCEPT ![t].exists = FALSE]
    /\ UNCHANGED <<clockVars, processVars, run, started, crashes>>

-----------------------------------------------------------------------------
(* The process dies and starts again.                                      *)

Crash ==
    /\ up /\ crashes < MaxCrashes
    /\ up' = FALSE
    /\ crashes' = crashes + 1
    /\ claimed' = {} /\ toLaunch' = {}
    /\ run' = [r \in RunId |->
                 IF Scheduled(r) /\ run[r].at \in InFlight
                 THEN [run[r] EXCEPT !.at = "lost", !.read = FALSE, !.seen = NoRow]
                 ELSE run[r]]
    /\ UNCHANGED <<clockVars, launchDay, free, row, started, edits>>

\* The row's last report is completed and was created on the day stamped,
\* or after it.
ReportFound(t) ==
    /\ row[t].report # NoReport /\ row[t].lastDate # NoDay
    /\ HasReport(row[t].report) /\ run[row[t].report].created >= row[t].lastDate

\* Mutant: the recovery leaves the day stamped.
RecoveredKeepsDay(t) ==
    IF ReportFound(t) THEN [row[t] EXCEPT !.status = "success"]
    ELSE [row[t] EXCEPT !.status = "stale"]

Recovered(t) ==
    IF ReportFound(t) THEN [row[t] EXCEPT !.status = "success"]
    ELSE [row[t] EXCEPT !.status = "stale", !.lastDate = NoDay]

\* Mutant: a restart recovers nothing.
StartWithoutRecovery ==
    /\ ~up
    /\ up' = TRUE
    /\ free' = Concurrency
    /\ UNCHANGED <<clockVars, claimed, toLaunch, launchDay, row, run, started,
                   countVars>>

\* _startup: a new semaphore, then _recover_stale_tasks, then the loop.
Start ==
    /\ ~up
    /\ up' = TRUE
    /\ free' = Concurrency
    /\ row' = [t \in Tasks |->
                 IF row[t].exists /\ row[t].status = "running"
                 THEN Recovered(t) ELSE row[t]]
    /\ UNCHANGED <<clockVars, claimed, toLaunch, launchDay, run, started,
                   countVars>>

-----------------------------------------------------------------------------
\* Rows as create_scheduled makes them, and a process about to start.
Init ==
    /\ day = 1 /\ part = "daytime"
    /\ up = FALSE /\ claimed = {} /\ toLaunch = {} /\ launchDay = NoDay /\ free = Concurrency
    /\ \E trigger \in [Tasks -> Triggers] :
         row = [t \in Tasks |-> NewRow(trigger[t])]
    /\ run = [r \in RunId |-> NoRun]
    /\ started = 0 /\ crashes = 0 /\ edits = 0

RunStep(r) ==
    \/ Acquire(r) \/ SaveReport(r) \/ JobEnds(r) \/ ReadRow(r)
    \/ RecordSuccess(r) \/ RecordSuccessRaises(r)
    \/ RecordFailure(r) \/ RecordFailureRaises(r)
UserStep(t) ==
    \/ ManualTrigger(t) \/ DeleteTask(t)
    \/ \E active \in BOOLEAN : SetActive(t, active)
    \/ \E trigger \in Triggers : SetTrigger(t, trigger)

Next ==
    \/ Tick \/ Claim \/ ReadClaimed \/ ReadClaimedRaises \/ Crash \/ Start
    \/ \E t \in Tasks : Launch(t) \/ UserStep(t)
    \/ \E r \in RunId : RunStep(r)

Spec == Init /\ [][Next]_vars

\* The container restarts a dead process (restart: always), the loop starts
\* what it claimed, asyncio.Semaphore is first come first served, and a job
\* ends (JobLifecycle's HardLimitReleases and WorkEnds).
Fairness ==
    /\ WF_vars(Start) /\ WF_vars(ReadClaimed)
    /\ \A t \in Tasks : WF_vars(Launch(t))
    /\ \A r \in RunId : /\ SF_vars(Acquire(r))
                        /\ WF_vars(Scheduled(r) /\ JobEnds(r))
                        /\ WF_vars(Scheduled(r) /\ ReadRow(r))
                        /\ WF_vars(Scheduled(r) /\ RecordSuccess(r))
                        /\ WF_vars(Scheduled(r) /\ RecordFailure(r))

LiveSpec == Spec /\ Fairness

-----------------------------------------------------------------------------
(* Properties.                                                             *)

RowType == [exists : BOOLEAN, active : BOOLEAN, trigger : Triggers,
            lastDate : 0..LastDay, status : RowStatus, report : 0..MaxRuns,
            failures : Nat]

\* The types of the variables.
TypeOK ==
    /\ day \in 1..LastDay /\ part \in Parts
    /\ up \in BOOLEAN /\ claimed \subseteq Tasks /\ toLaunch \subseteq Tasks
    /\ launchDay \in 0..LastDay /\ free \in 0..Concurrency
    /\ row \in [Tasks -> RowType]
    /\ run \in [RunId -> [kind : {"none", "scheduled", "manual"}, task : Tasks,
                          day : 0..LastDay, created : 0..LastDay,
                          at : {"none", "lost", "unrecorded"}
                                 \cup InFlight \cup Recorded,
                          done : BOOLEAN, misled : BOOLEAN,
                          read : BOOLEAN, seen : RowType]]
    /\ started \in 0..MaxRuns /\ crashes \in 0..MaxCrashes
    /\ edits \in 0..MaxEdits

\* The run left no outcome: it died with the process, or recording its outcome
\* raised.
Excused(r) == run[r].at = "lost" \/ (DbMayFail /\ run[r].at = "unrecorded")

\* A task is run for a day at most once, except after a crash when the earlier
\* run left no outcome.
OncePerDay ==
    \A r, s \in RunId :
       /\ Scheduled(r) /\ Scheduled(s) /\ r # s
       /\ run[r].task = run[s].task /\ run[r].day = run[s].day
       => Excused(r) \/ Excused(s)

\* A scheduled run of the task for its stamped day is under way or to come.
RunPending(t) ==
    \/ t \in claimed \cup toLaunch
    \/ \E r \in RunId : /\ Scheduled(r) /\ run[r].task = t
                        /\ run[r].at \in InFlight

\* A row's stamp and its status are owed to a run of the schedule: with the
\* process up and no run pending, one was made for the day stamped and its
\* outcome recorded, and the row is not left "running".
NoDayLost ==
    \A t \in Tasks : up /\ row[t].exists /\ ~RunPending(t) =>
       /\ row[t].status # "running"
       /\ row[t].lastDate # NoDay =>
            \E r \in RunId : /\ Scheduled(r) /\ run[r].task = t
                            /\ run[r].day = row[t].lastDate
                            /\ run[r].at \in Recorded

\* A row with three failures in a row is never active, whatever its user,
\* late runs and manual runs did meanwhile.
StrikesDeactivate ==
    \A t \in Tasks : row[t].failures >= 3 => ~row[t].active

\* The semaphore and the runs that hold a slot always add up.
SlotsConserved ==
    up => free + Cardinality({r \in RunId : Holds(r)}) = Concurrency

\* The report a row shows is a completed report of a run of that task which
\* recorded a success, save where the run was misled: its job had failed, and
\* the entry did not say so when it was read.
ReportShownIsTrue ==
    \A t \in Tasks : row[t].report # NoReport =>
       LET r == row[t].report
       IN  /\ run[r].task = t /\ run[r].at = "success"
           /\ HasReport(r) \/ run[r].misled

\* A claimed task does not stay "running".
TaskSettles ==
    \A t \in Tasks : row[t].exists /\ row[t].status = "running"
                       ~> ~row[t].exists \/ row[t].status # "running"
=============================================================================
