--------------------------- MODULE ReportRecovery ---------------------------
(***************************************************************************)
(* One row of the reports table and everyone who writes it                 *)
(* (api/services/report_service.py): the job whose report it is, requests  *)
(* that open the report and finalise it when they take it for an orphan,   *)
(* the recovery at the scheduler's start, and the user who deletes it.     *)
(*                                                                         *)
(* Each writer reads the row in a transaction and commits later; the ORM   *)
(* then writes the columns it changed, to whatever row is there by now.    *)
(* The job is that of JobLifecycle, reduced to when it writes; it runs in  *)
(* the API process or in the scheduler's.  In the single container the two *)
(* have no job store in common and restart together; in the split          *)
(* deployment they share Redis and restart alone.                          *)
(***************************************************************************)
EXTENDS Integers

CONSTANT Readers \* the requests that open the report

ASSUME ReadersAssumption ==
    Readers \cap {"init", "save", "fail", "recovery"} = {}

Writers == Readers \cup {"init", "save", "fail", "recovery"}
Absent == [status |-> "absent", error |-> "none"]
Row == {Absent} \cup [status : {"pending", "running", "completed", "failed"},
                      error : {"none", "job", "stale"}]
ActiveStatus == {"pending", "running"}

VARIABLES
    setup,    \* home: the process of the job; split: the deployment
    row,      \* the row, its columns status and error
    job,      \* where the job is
    at,       \* where each writer is with its transaction
    seen,     \* the row as each writer read it
    entry,    \* is there an entry in the store the job writes to?
    said,     \* history: the outcome the job announced
    early,    \* history: requests that read the row before the job was over
    crossed,  \* history: finalisers whose commit crossed that of the save
    deleted   \* history: has the user deleted the report?

vars == <<setup, row, job, at, seen, entry, said, early, crossed, deleted>>
history == <<said, early, crossed, deleted>>

Over == {"over", "dead"}
Visible == entry /\ (setup.home = "api" \/ setup.split)

-----------------------------------------------------------------------------
(* Transactions.                                                           *)

Moves(w, to) == at' = [at EXCEPT ![w] = to]

Reads(w, to) ==
    /\ Moves(w, to)
    /\ seen' = [seen EXCEPT ![w] = row]

\* The commit of an ORM object: only the columns that differ from what the
\* transaction loaded are written.
Update(w, status, error) ==
    row' = [status |-> IF seen[w].status = status THEN row.status ELSE status,
            error |-> IF seen[w].error = error THEN row.error ELSE error]

\* The row is gone: the UPDATE matches nothing and the commit raises.
Gone == row = Absent

-----------------------------------------------------------------------------
(* The job.                                                                *)

JobMoves(from, to) == job = from /\ job' = to

\* Mutant: the job is started before its entry is stored.
SubmitWithoutEntry ==
    /\ JobMoves("idle", "init")
    /\ setup.home = "scheduler" => at["recovery"] = "up"
    /\ Moves("init", "begun")
    /\ UNCHANGED <<setup, row, seen, entry, history>>

\* The API stores the entry and starts the job; the scheduler, once it is up,
\* starts it with none.
Submit ==
    /\ JobMoves("idle", "init")
    /\ setup.home = "scheduler" => at["recovery"] = "up"
    /\ entry' = (setup.home = "api")
    /\ Moves("init", "begun")
    /\ UNCHANGED <<setup, row, seen, history>>

\* init_report, in a thread; its failure is logged and the job goes on.
Insert ==
    /\ at["init"] = "begun"
    /\ \/ Moves("init", "inserted")
          /\ row' = [status |-> "pending", error |-> "none"]
       \/ Moves("init", "done") /\ UNCHANGED row
    /\ UNCHANGED <<setup, job, seen, entry, history>>

\* update_report_partial(status="running") reads the row it updates; one that
\* is gone is left alone.
ReadInserted ==
    /\ at["init"] = "inserted"
    /\ Reads("init", IF Gone THEN "done" ELSE "read")
    /\ UNCHANGED <<setup, row, job, entry, history>>

MarkRunning ==
    /\ at["init"] = "read"
    /\ Moves("init", "done")
    /\ IF Gone THEN UNCHANGED row ELSE Update("init", "running", seen["init"].error)
    /\ UNCHANGED <<setup, job, seen, entry, history>>

\* Mutant: the job goes on while init_report is still in its thread.
WorkAtOnce ==
    /\ JobMoves("init", "running")
    /\ entry' = TRUE
    /\ UNCHANGED <<setup, row, at, seen, history>>

\* The job has its configuration and stores that it runs.
Work ==
    /\ JobMoves("init", "running")
    /\ at["init"] = "done"
    /\ entry' = TRUE
    /\ UNCHANGED <<setup, row, at, seen, history>>

\* Announce the outcome: nobody who reads from now on sees a live job.
Announce(outcome) ==
    /\ job' = "over"
    /\ said' = outcome
    /\ early' = {r \in Readers : at[r] = "read"}

\* A dry run answers and leaves its row as it is.
DryRun ==
    /\ job = "running"
    /\ Announce("dry")
    /\ UNCHANGED <<setup, row, at, seen, entry, crossed, deleted>>

\* The thread of create_report is started.
StartSave ==
    /\ JobMoves("running", "saving")
    /\ Moves("save", "begun")
    /\ UNCHANGED <<setup, row, seen, entry, history>>

\* create_report reads the row it is to complete.
ReadToSave ==
    /\ at["save"] = "begun"
    /\ Reads("save", "read")
    /\ UNCHANGED <<setup, row, job, entry, history>>

\* It completes that row, or inserts it anew where it read none; or raises.
Save ==
    /\ at["save"] = "read"
    /\ \/ /\ seen["save"] = Absent
          /\ row' = [status |-> "completed", error |-> "none"]
          /\ Moves("save", "done")
       \/ /\ seen["save"] # Absent /\ ~Gone
          /\ Update("save", "completed", "none")
          /\ Moves("save", "done")
       \/ Moves("save", "raised") /\ UNCHANGED row
    /\ UNCHANGED <<setup, job, seen, entry, history>>

Saved ==
    /\ job = "saving" /\ at["save"] = "done"
    /\ Announce("completed")
    /\ UNCHANGED <<setup, row, at, seen, entry, crossed, deleted>>

\* The work or the save raised, the configuration could not be built, or the
\* hard limit fell, which leaves the thread behind: the entry says failed.
Fail ==
    /\ job \in {"init", "running", "saving"}
    /\ job' = "failing"
    /\ entry' = TRUE
    /\ Moves("fail", "begun")
    /\ UNCHANGED <<setup, row, seen, history>>

\* mark_report_failed reads the row.
ReadToFail ==
    /\ at["fail"] = "begun"
    /\ Reads("fail", "read")
    /\ UNCHANGED <<setup, row, job, entry, history>>

\* It marks the row, unless there is none; a failure to record is logged.
MarkFailed ==
    /\ at["fail"] = "read"
    /\ Moves("fail", "done")
    /\ \/ ~Gone /\ seen["fail"] # Absent /\ Update("fail", "failed", "job")
       \/ UNCHANGED row
    /\ Announce("failed")
    /\ UNCHANGED <<setup, seen, entry, crossed, deleted>>

\* Mutant: the entry expires a fixed time after the submission.
ExpireEarly ==
    /\ entry /\ job # "idle"
    /\ entry' = FALSE
    /\ UNCHANGED <<setup, row, job, at, seen, history>>

\* Mutant: only the entry of a job that announced its end expires.
ExpireAnnounced ==
    /\ entry /\ job = "over"
    /\ setup.home = "api" => early = {}
    /\ entry' = FALSE
    /\ UNCHANGED <<setup, row, job, at, seen, history>>

\* The API's entry expires its TTL after the end, by when every request from
\* before the end has been answered; the scheduler deletes its own at once.
Expire ==
    /\ entry /\ job \in Over
    /\ setup.home = "api" => early = {}
    /\ entry' = FALSE
    /\ UNCHANGED <<setup, row, job, at, seen, history>>

-----------------------------------------------------------------------------
(* Opening the report: get_report_endpoint.                                *)

\* The row looks active (any other, and none, changes nothing).
Open(r) ==
    /\ at[r] = "idle"
    /\ row.status \in ActiveStatus
    /\ Reads(r, "read")
    /\ UNCHANGED <<setup, row, job, entry, history>>

\* Has this process an entry for the job?
LookUp(r) ==
    /\ at[r] = "read"
    /\ Moves(r, IF Visible THEN "idle" ELSE "orphan")
    /\ early' = early \ {r}
    /\ UNCHANGED <<setup, row, job, seen, entry, said, crossed, deleted>>

\* Of the finaliser w: its commit fails the row that was active when read.
CommitStale(w) ==
    /\ Update(w, "failed", "stale")
    /\ crossed' = IF row.status = "completed" \/ at["save"] = "read"
                  THEN crossed \cup {w} ELSE crossed

\* finalize_orphan_report; the request fails when the row is gone.
Finalize(r) ==
    /\ at[r] = "orphan"
    /\ Moves(r, "idle")
    /\ IF Gone THEN UNCHANGED <<row, crossed>> ELSE CommitStale(r)
    /\ UNCHANGED <<setup, job, seen, entry, said, early, deleted>>

\* delete_report and batch_delete_reports.
Delete ==
    /\ ~Gone
    /\ row' = Absent
    /\ deleted' = TRUE
    /\ UNCHANGED <<setup, job, at, seen, entry, said, early, crossed>>

-----------------------------------------------------------------------------
(* The scheduler's start, and processes that die.                          *)

\* recover_stale_active_reports, which is told of no active job.
RecoverRead ==
    /\ at["recovery"] = "down"
    /\ Reads("recovery", IF row.status \in ActiveStatus THEN "read" ELSE "up")
    /\ UNCHANGED <<setup, row, job, entry, history>>

RecoverCommit ==
    /\ at["recovery"] = "read"
    /\ ~Gone
    /\ Moves("recovery", "up")
    /\ CommitStale("recovery")
    /\ UNCHANGED <<setup, job, seen, entry, said, early, deleted>>

\* The split deployment's scheduler is restarted while the API goes on.
SchedulerRestarts ==
    /\ setup.split /\ setup.home = "api"
    /\ at["recovery"] = "up"
    /\ Moves("recovery", "down")
    /\ UNCHANGED <<setup, row, job, seen, entry, history>>

\* The split deployment's API is restarted while the scheduler's job goes on:
\* requests are cut off, and its start clears the store of every process.  A
\* restart that finds no entry is left out: it only cuts requests off.
ApiRestarts ==
    /\ setup.split /\ setup.home = "scheduler"
    /\ entry
    /\ entry' = FALSE
    /\ at' = [w \in Writers |-> IF w \in Readers THEN "idle" ELSE at[w]]
    /\ early' = {}
    /\ UNCHANGED <<setup, row, job, seen, said, crossed, deleted>>

\* The writers that die with the job's process, in the single container with
\* everything.
Dying ==
    IF ~setup.split THEN Writers
    ELSE {"init", "save", "fail"} \cup
         (IF setup.home = "api" THEN Readers ELSE {"recovery"})

\* A transaction that did not commit is rolled back.  An entry in Redis stays,
\* unless it was the API that died: its start clears the store.
Die ==
    /\ job' = IF job = "idle" THEN "idle" ELSE "dead"
    /\ at' = [w \in Writers |->
                IF w \notin Dying THEN at[w]
                ELSE IF w = "recovery" THEN "down" ELSE "idle"]
    /\ entry' = (entry /\ setup.split /\ setup.home # "api")
    /\ early' = early \ Dying
    /\ UNCHANGED <<setup, row, seen, said, crossed, deleted>>

Crash == job \notin {"idle", "dead"} /\ Die

\* The row was deleted meanwhile: the commit raises and ends the scheduler,
\* which is started again, in the single container together with the API.
RecoverFails ==
    /\ at["recovery"] = "read"
    /\ Gone
    /\ IF setup.split /\ setup.home = "api"
       THEN /\ Moves("recovery", "down")
            /\ UNCHANGED <<setup, row, job, seen, entry, history>>
       ELSE Die

-----------------------------------------------------------------------------
Init ==
    /\ setup \in [home : {"api", "scheduler"}, split : BOOLEAN]
    /\ row = Absent
    /\ job = "idle"
    /\ at = [w \in Writers |-> IF w = "recovery" THEN "down" ELSE "idle"]
    /\ seen = [w \in Writers |-> Absent]
    /\ entry = FALSE
    /\ said = "none" /\ early = {} /\ crossed = {} /\ deleted = FALSE

JobStep == Submit \/ Work \/ DryRun \/ StartSave \/ Saved \/ Fail \/ MarkFailed
ThreadStep == Insert \/ ReadInserted \/ MarkRunning \/ ReadToSave \/ Save \/ ReadToFail
Recover == RecoverRead \/ RecoverCommit \/ RecoverFails

Next ==
    \/ JobStep \/ ThreadStep \/ Expire
    \/ \E r \in Readers : Open(r) \/ LookUp(r) \/ Finalize(r)
    \/ Delete \/ Recover \/ SchedulerRestarts \/ ApiRestarts \/ Crash

Spec == Init /\ [][Next]_vars

\* A request is answered once begun, an entry expires, and somebody keeps
\* opening the report.  Of the job and its threads nothing is assumed.
Fairness ==
    /\ WF_vars(Expire)
    /\ \A r \in Readers : WF_vars(Open(r) \/ LookUp(r) \/ Finalize(r))

FairSpec == Spec /\ Fairness

-----------------------------------------------------------------------------
(* Properties.                                                             *)

\* The types of the variables.
TypeOK ==
    /\ setup \in [home : {"api", "scheduler"}, split : BOOLEAN]
    /\ row \in Row
    /\ job \in {"idle", "init", "running", "saving", "failing", "over", "dead"}
    /\ at \in [Writers -> {"idle", "begun", "inserted", "read", "orphan",
                           "done", "raised", "down", "up"}]
    /\ seen \in [Writers -> Row]
    /\ entry \in BOOLEAN
    /\ said \in {"none", "dry", "completed", "failed"}
    /\ early \subseteq Readers /\ crossed \subseteq Writers
    /\ deleted \in BOOLEAN

\* "Successful finalisation is authoritative" and clears the error of an earlier
\* failure (create_report): the report of a job that announced completion is
\* completed and without an error, unless a finaliser's commit crossed the
\* save's.  For a job of the API that can only be the recovery at the
\* scheduler's start, for one of the scheduler only a request.
SuccessKept ==
    said = "completed" /\ ~Gone =>
       /\ row.status \notin ActiveStatus
       /\ crossed = {} => row = [status |-> "completed", error |-> "none"]
       /\ crossed \subseteq
            (IF setup.home = "api" THEN {"recovery"} ELSE Readers)

\* finalize_orphan_report marks "an orphaned pending/running report": a request
\* never takes a live job of its own process for gone, because the entry is
\* stored before the row and outlives the job.
OrphansOnly ==
    \A r \in Readers :
       at[r] = "orphan" /\ setup.home = "api" => job \in Over

\* A deleted report comes back in one way only, as the finished report of a
\* save that found no row (create_report's "Create new"): no late commit of
\* any writer makes it active again, and a job that never saved does not
\* bring it back.
DeletedReturnsFinished ==
    deleted /\ ~Gone =>
       /\ row.status \notin ActiveStatus
       /\ job = "dead" \/ (at["save"] = "done" /\ seen["save"] = Absent)

\* A row left active by a job that is over or died (a dry run's too) does not
\* stay active when somebody keeps opening the report.
OrphanSettles ==
    (job \in Over /\ row.status \in ActiveStatus)
        ~> row.status \notin ActiveStatus
=============================================================================
