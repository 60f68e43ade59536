---------------------------- MODULE JobLifecycle ----------------------------
(***************************************************************************)
(* One analysis job, from its submission to the last write made on its    *)
(* behalf (api/main.py).                                                   *)
(*                                                                         *)
(* Three actors share the job: _run_job, the coroutine that watches the    *)
(* soft and the hard deadline; _run_job_inner, the task that does the      *)
(* work; and the worker thread to which the inner task hands each blocking *)
(* call (asyncio.to_thread).  A step of a coroutine is the code between    *)
(* two of its awaits, which nothing on the event loop can interrupt; a     *)
(* step of the thread is what it does between two database commits.        *)
(* Cancelling the inner task drops a call still queued for a thread, but   *)
(* one a thread has begun runs on detached, and its commit still counts.   *)
(***************************************************************************)
EXTENDS Integers, Sequences

CONSTANTS
    Setups,       \* the settings a job may run under
    DbMayFail     \* may a database call of this job raise?

\* Where the job comes from: "api" (POST /v1/analyze) or "scheduler"; how it
\* runs: "intent" (a query is given) or "stream" (the default graph); its two
\* limits (_JOB_TIMEOUT, _JOB_HARD_TIMEOUT, 0 disables one); and whether the
\* entry's TTL may elapse before the job has ended.
Setup == [origin : {"api", "scheduler"}, route : {"intent", "stream"},
          soft : Nat, hard : Nat, ttlOvertakes : BOOLEAN]

ASSUME SetupAssumption == Setups \subseteq Setup
ASSUME FaultAssumption == DbMayFail \in BOOLEAN

VARIABLES
    setup,      \* the settings of this job, which never change
    wrapper,    \* where the coroutine _run_job is
    inner,      \* where the task _run_job_inner is
    cancelling, \* inner_task.cancel() was called and not yet delivered
    thread,     \* the blocking call the inner task awaits, or left behind
    job,        \* the JobStore entry: its status and overtime fields
    timer,      \* is the TTL cleanup of the entry armed?
    report,     \* status of the report row in the database
    emitted,    \* the lifecycle events pushed to the job's queue
    saved,      \* did create_report commit for this job (is nothing left to)?
    graph,      \* how the analysis graph ended
    verdict     \* what the scheduler recorded of the run

deadlineVars == <<wrapper, cancelling>>
entryVars == <<job, timer>>
history == <<saved, graph, verdict>>
\* What _run_job leaves alone when it concludes the run.
concludeRest == <<inner, cancelling, thread, saved, graph>>
vars == <<setup, wrapper, inner, cancelling, thread, job, timer, report, emitted,
          saved, graph, verdict>>
\* All but the settings, which no step changes.
runVars == <<wrapper, inner, cancelling, thread, job, timer, report, emitted,
            saved, graph, verdict>>

Origin == setup.origin
Route == setup.route
SoftTimeout == setup.soft
HardTimeout == setup.hard

Status == {"absent", "pending", "running", "completed", "failed"}
TerminalStatus == {"completed", "failed"}
TerminalEvent == {"job.completed", "job.failed"}
Event == {"job.created", "job.running", "job.overtime"} \cup TerminalEvent

Waiting == {"softWait", "hardWait", "join"}
InnerEnded == {"returned", "raised", "cancelled"}
\* The awaits of _run_job_inner: where a cancellation can reach it.
InnerAwaits == {"created", "init", "analysing", "extract", "saving", "failing"}

NoCall == [op |-> "none", phase |-> "idle"]
Queued(op) == [op |-> op, phase |-> "queued"]
CallReturned(op) == thread = [op |-> op, phase |-> "done"]
CallRaised(op) == thread = [op |-> op, phase |-> "raised"]

\* Mutant: the scheduler takes every run that returns for a success.
ConcludeUnchecked ==
    verdict' = IF Origin = "api" THEN "none" ELSE "success"

\* The scheduler's reading of the entry, in the same resumption in which
\* _run_job returns to it: only a "failed" status is a failed run.
Conclude ==
    verdict' = IF Origin = "api" THEN "none"
               ELSE IF job'.status = "failed" THEN "failed" ELSE "success"

NoJob == [status |-> "absent", overtime |-> FALSE]

-----------------------------------------------------------------------------
(* The calls of the job store and the report service made below.           *)

\* set_job(status=...): merge, then arm the TTL timer of a terminal status
\* and cancel it for any other.
SetJob(status, overtime) ==
    /\ job' = [status |-> status, overtime |-> overtime]
    /\ timer' = (status \in TerminalStatus)

Emit(event) == emitted' = Append(emitted, event)

\* update_report_partial(status=...): a row that is not there is left alone.
UpdateReport(status) ==
    report' = IF report = "absent" THEN "absent" ELSE status

\* mark_report_failed called on the loop; its exception is swallowed.
MarkReportFailed ==
    \/ UpdateReport("failed")
    \/ DbMayFail /\ UNCHANGED report

\* Mutant: the failure is announced but the entry is left as it was.
WrapperFailsEntryKept ==
    /\ UNCHANGED <<job, timer>>
    /\ MarkReportFailed
    /\ Emit("job.failed")
    /\ wrapper' = "returned"
    /\ Conclude

\* The wrapper's own failure report: entry, then row, then event.
WrapperFails ==
    /\ SetJob("failed", FALSE)
    /\ MarkReportFailed
    /\ Emit("job.failed")
    /\ wrapper' = "returned"
    /\ Conclude

-----------------------------------------------------------------------------
(* Submission and the deadlines: _run_job.                                 *)

\* analyze() stores the entry and announces it before it starts the task;
\* the scheduler starts _run_job with no entry.
Submit ==
    /\ wrapper = "idle"
    /\ wrapper' = "starting"
    /\ IF Origin = "api"
       THEN SetJob("pending", FALSE) /\ Emit("job.created")
       ELSE UNCHANGED <<job, timer, emitted>>
    /\ UNCHANGED <<inner, cancelling, thread, report, history>>

\* Mutant: a soft limit of 0 is waited for instead of being disabled.
StartWrapperAlwaysSoft ==
    /\ wrapper = "starting"
    /\ inner' = "created"
    /\ wrapper' = "softWait"
    /\ UNCHANGED <<cancelling, thread, entryVars, report, emitted, history>>

StartWrapper ==
    /\ wrapper = "starting"
    /\ inner' = "created"
    /\ wrapper' = IF SoftTimeout > 0 THEN "softWait"
                  ELSE IF HardTimeout > 0 THEN "hardWait" ELSE "join"
    /\ UNCHANGED <<cancelling, thread, entryVars, report, emitted, history>>

\* No notice when the hard limit comes no later than the soft one.
NoticeDue == HardTimeout = 0 \/ SoftTimeout < HardTimeout

\* Mutant: the notice does not check that the inner task has ended.
SoftDeadlineUnchecked ==
    /\ wrapper = "softWait"
    /\ IF NoticeDue
       THEN SetJob("running", TRUE) /\ Emit("job.overtime")
       ELSE UNCHANGED <<job, timer, emitted>>
    /\ wrapper' = IF HardTimeout > 0 THEN "hardWait" ELSE "join"
    /\ UNCHANGED <<inner, cancelling, thread, report, history>>

SoftDeadline ==
    /\ wrapper = "softWait"
    /\ inner \notin InnerEnded
    /\ IF NoticeDue
       THEN SetJob("running", TRUE) /\ Emit("job.overtime")
       ELSE UNCHANGED <<job, timer, emitted>>
    /\ wrapper' = IF HardTimeout > 0 THEN "hardWait" ELSE "join"
    /\ UNCHANGED <<inner, cancelling, thread, report, history>>

\* Mutant: the hard limit does not check that the inner task has ended.
HardDeadlineUnchecked ==
    /\ wrapper = "hardWait"
    /\ cancelling' = TRUE
    /\ wrapper' = "cancelWait"
    /\ UNCHANGED <<inner, thread, entryVars, report, emitted, history>>

\* Mutant: the hard limit waits for the worker thread to come back.
HardDeadlineWaitsForThread ==
    /\ wrapper = "hardWait"
    /\ inner \notin InnerEnded
    /\ thread.phase \in {"idle", "done", "raised"}
    /\ cancelling' = TRUE
    /\ wrapper' = "cancelWait"
    /\ UNCHANGED <<inner, thread, entryVars, report, emitted, history>>

HardDeadline ==
    /\ wrapper = "hardWait"
    /\ inner \notin InnerEnded
    /\ cancelling' = TRUE
    /\ wrapper' = "cancelWait"
    /\ UNCHANGED <<inner, thread, entryVars, report, emitted, history>>

\* The cancelled task has unwound: record the hard-limit failure.
HardFail ==
    /\ wrapper = "cancelWait"
    /\ inner \in InnerEnded
    /\ WrapperFails
    /\ UNCHANGED concludeRest

\* Mutant: an exception of the inner task is taken for a return.
JoinSwallows ==
    /\ wrapper \in Waiting
    /\ inner \in {"returned", "raised"}
    /\ wrapper' = "returned"
    /\ UNCHANGED <<concludeRest, entryVars, report, emitted>>
    /\ Conclude

\* The inner task returned: it has recorded its own outcome.
Join ==
    /\ wrapper \in Waiting
    /\ inner = "returned"
    /\ wrapper' = "returned"
    /\ UNCHANGED <<concludeRest, entryVars, report, emitted>>
    /\ Conclude

\* An exception from before the inner task's try block.
JoinRaised ==
    /\ wrapper \in Waiting
    /\ inner = "raised"
    /\ WrapperFails
    /\ UNCHANGED concludeRest

\* The event loop shuts down and cancels every task.  A wrapper that already
\* awaits the cancelled task ("cancelWait") swallows its own cancellation.
Shutdown ==
    /\ wrapper \in Waiting \cup {"starting"}
    /\ ~cancelling
    /\ wrapper' = IF wrapper = "join" /\ inner \notin InnerEnded
                  THEN "join" ELSE "cancelled"
    /\ cancelling' = (inner \in InnerAwaits)
    /\ UNCHANGED <<inner, thread, entryVars, report, emitted, history>>

\* await inner_task raised CancelledError: the wrapper re-raises it.
JoinCancelled ==
    /\ wrapper = "join"
    /\ inner = "cancelled"
    /\ wrapper' = "cancelled"
    /\ UNCHANGED <<inner, cancelling, thread, entryVars, report, emitted,
                   history>>

-----------------------------------------------------------------------------
(* The inner task: _run_job_inner, one action per resumption.              *)

\* The inner task resumes unless a cancellation is pending: asyncio throws
\* CancelledError at the next resumption even when the call has returned.
Resumes(pc) == inner = pc /\ ~cancelling

\* Go on to the next await; call is what a thread is to run, if anything.
Await(pc, call) ==
    /\ inner' = pc
    /\ thread' = call

\* except Exception: the entry is marked failed before the row and the event.
EnterFailing ==
    /\ SetJob("failed", FALSE)
    /\ Await("failing", Queued("record"))

InnerStart ==
    /\ Resumes("created")
    /\ Await("init", Queued("init"))
    /\ UNCHANGED <<deadlineVars, entryVars, report, emitted, history>>

\* _init_and_configure returned, and the request has the dry_run flag: the job
\* answers at once and returns without finalising the report row.
AnswerDryRun ==
    /\ Resumes("init")
    /\ CallReturned("init")
    /\ SetJob("completed", FALSE)
    /\ emitted' = Append(Append(emitted, "job.running"), "job.completed")
    /\ inner' = "returned"
    /\ thread' = NoCall
    /\ saved' = TRUE /\ graph' = "skipped"
    /\ UNCHANGED <<deadlineVars, report, verdict>>

\* _init_and_configure returned, and the request has not.
InitDone ==
    /\ Resumes("init")
    /\ CallReturned("init")
    /\ SetJob("running", job.overtime)
    /\ Emit("job.running")
    /\ Await("analysing", NoCall)
    /\ UNCHANGED <<deadlineVars, report, history>>

\* A configuration error is raised outside the try block.
InitRaised ==
    /\ Resumes("init")
    /\ CallRaised("init")
    /\ inner' = "raised"
    /\ thread' = NoCall
    /\ UNCHANGED <<deadlineVars, entryVars, report, emitted, history>>

\* The graph (and the partial report updates it streams) ran to its end.
GraphDone ==
    /\ Resumes("analysing")
    /\ graph' = "finished"
    /\ Await("extract", NoCall)
    /\ UNCHANGED <<deadlineVars, entryVars, report, emitted, saved, verdict>>

\* Mutant: a failed horizon is dropped instead of raised.
GraphRaisedIgnored ==
    /\ Resumes("analysing")
    /\ graph' = "broken"
    /\ Await("extract", NoCall)
    /\ UNCHANGED <<deadlineVars, entryVars, report, emitted, saved, verdict>>

\* The graph, its setup or the data collection raised.
GraphRaised ==
    /\ Resumes("analysing")
    /\ graph' = "broken"
    /\ EnterFailing
    /\ UNCHANGED <<deadlineVars, report, emitted, saved, verdict>>

\* The default streaming loop logs the exception and goes on with the last
\* state it was given.
GraphSwallowed ==
    /\ Route = "stream"
    /\ Resumes("analysing")
    /\ graph' = "broken"
    /\ Await("extract", NoCall)
    /\ UNCHANGED <<deadlineVars, entryVars, report, emitted, saved, verdict>>

\* Structured extraction may fail without consequence; the fields resolve.
ExtractDone ==
    /\ Resumes("extract")
    /\ Await("saving", Queued("save"))
    /\ UNCHANGED <<deadlineVars, entryVars, report, emitted, history>>

ExtractRaised ==
    /\ Resumes("extract")
    /\ EnterFailing
    /\ UNCHANGED <<deadlineVars, report, emitted, history>>

\* Mutant: an exception of the save is logged and the job completes.
SaveDoneSwallows ==
    /\ Resumes("saving")
    /\ CallReturned("save") \/ CallRaised("save")
    /\ SetJob("completed", FALSE)
    /\ Emit("job.completed")
    /\ inner' = "returned"
    /\ thread' = NoCall
    /\ UNCHANGED <<deadlineVars, report, history>>

\* Only after the save: the entry first, then the event, with no await
\* between them.
SaveDone ==
    /\ Resumes("saving")
    /\ CallReturned("save")
    /\ SetJob("completed", FALSE)
    /\ Emit("job.completed")
    /\ inner' = "returned"
    /\ thread' = NoCall
    /\ UNCHANGED <<deadlineVars, report, history>>

SaveRaised ==
    /\ Resumes("saving")
    /\ CallRaised("save")
    /\ EnterFailing
    /\ UNCHANGED <<deadlineVars, report, emitted, history>>

\* Mutant: the failure is recorded in the background, not awaited.
FailureNotAwaited ==
    /\ Resumes("failing")
    /\ Emit("job.failed")
    /\ inner' = "returned"
    /\ UNCHANGED <<deadlineVars, thread, entryVars, report, history>>

\* Mutant: an exception while recording the failure is not caught.
FailureRecordedOnly ==
    /\ Resumes("failing")
    /\ CallReturned("record")
    /\ Emit("job.failed")
    /\ inner' = "returned"
    /\ thread' = NoCall
    /\ UNCHANGED <<deadlineVars, entryVars, report, history>>

\* _record_failure has ended, one way or the other: announce the failure.
FailureRecorded ==
    /\ Resumes("failing")
    /\ CallReturned("record") \/ CallRaised("record")
    /\ Emit("job.failed")
    /\ inner' = "returned"
    /\ thread' = NoCall
    /\ UNCHANGED <<deadlineVars, entryVars, report, history>>

\* CancelledError is delivered at the await; a call that no thread has begun
\* is dropped, one that has begun runs on without anybody waiting for it.
InnerCancelled ==
    /\ cancelling
    /\ inner \in InnerAwaits
    /\ inner' = "cancelled"
    /\ cancelling' = FALSE
    /\ thread' = IF thread.phase = "queued" THEN NoCall ELSE thread
    /\ UNCHANGED <<wrapper, entryVars, report, emitted, history>>

-----------------------------------------------------------------------------
(* The worker thread, one action per database commit.                      *)

Advance(op, from, to) ==
    /\ thread = [op |-> op, phase |-> from]
    /\ thread' = [op |-> op, phase |-> to]

threadRest == <<deadlineVars, inner, entryVars, emitted, graph, verdict>>

ThreadBegins ==
    /\ \E op \in {"init", "save", "record"} : Advance(op, "queued", "running")
    /\ UNCHANGED <<threadRest, report, saved>>

\* _init_and_configure: insert the row as pending, mark it running, and
\* build the configuration; a database error of the first two is only logged.
InitInsert ==
    /\ Advance("init", "running", "inserted")
    /\ report' = IF report = "absent" THEN "pending" ELSE report
    /\ UNCHANGED <<threadRest, saved>>

InitMark ==
    /\ Advance("init", "inserted", "configuring")
    /\ UpdateReport("running")
    /\ UNCHANGED <<threadRest, saved>>

InitDbFails ==
    /\ DbMayFail
    /\ \/ Advance("init", "running", "configuring")
       \/ Advance("init", "inserted", "configuring")
    /\ UNCHANGED <<threadRest, report, saved>>

Configure ==
    /\ \/ Advance("init", "configuring", "done")
       \/ Advance("init", "configuring", "raised")
    /\ UNCHANGED <<threadRest, report, saved>>

\* Mutant: a row that init_report could not insert is not inserted later.
SaveCommitUpdatesOnly ==
    /\ Advance("save", "running", "committed")
    /\ UpdateReport("completed")
    /\ saved' = TRUE
    /\ UNCHANGED threadRest

\* create_report: finalise the row, or insert it anew, whatever its status;
\* the refresh after the commit may still raise.
SaveCommit ==
    /\ Advance("save", "running", "committed")
    /\ report' = "completed"
    /\ saved' = TRUE
    /\ UNCHANGED threadRest

SaveReturns ==
    /\ Advance("save", "committed", "done")
    /\ UNCHANGED <<threadRest, report, saved>>

SaveRaises ==
    /\ DbMayFail
    /\ \/ Advance("save", "running", "raised")
       \/ Advance("save", "committed", "raised")
    /\ UNCHANGED <<threadRest, report, saved>>

RecordFailure ==
    /\ Advance("record", "running", "done")
    /\ UpdateReport("failed")
    /\ UNCHANGED <<threadRest, saved>>

RecordRaises ==
    /\ DbMayFail
    /\ Advance("record", "running", "raised")
    /\ UNCHANGED <<threadRest, report, saved>>

-----------------------------------------------------------------------------
(* The job store's timer, the scheduler's clean-up and the process.        *)

\* _do_cleanup, _INMEMORY_JOB_TTL after the last terminal status.
ExpireJob ==
    /\ timer
    /\ wrapper \in Waiting \cup {"cancelWait"} =>
           setup.ttlOvertakes /\ inner \in InnerAwaits
    /\ job' = NoJob
    /\ timer' = FALSE
    /\ UNCHANGED <<deadlineVars, inner, thread, report, emitted, history>>

\* _run_scheduled_job: finally delete_job(job_id).
DeleteJob ==
    /\ Origin = "scheduler"
    /\ wrapper \in {"returned", "cancelled"}
    /\ job # NoJob
    /\ job' = NoJob
    /\ timer' = FALSE
    /\ UNCHANGED <<deadlineVars, inner, thread, report, emitted, history>>

\* The process dies: only the report row (and what clients saw) is left.
Crash ==
    /\ wrapper # "idle"
    /\ inner # "dead"
    /\ inner' = "dead"
    /\ wrapper' = IF wrapper \in {"returned", "cancelled"} THEN wrapper
                  ELSE "dead"
    /\ cancelling' = FALSE
    /\ thread' = NoCall
    /\ job' = NoJob
    /\ timer' = FALSE
    /\ UNCHANGED <<report, emitted, history>>

-----------------------------------------------------------------------------
Init ==
    /\ setup \in Setups
    /\ wrapper = "idle"
    /\ inner = "none"
    /\ cancelling = FALSE
    /\ thread = NoCall
    /\ job = NoJob
    /\ timer = FALSE
    /\ report = "absent"
    /\ emitted = <<>>
    /\ saved = FALSE
    /\ graph = "unfinished"
    /\ verdict = "none"

WrapperStep ==
    \/ StartWrapper \/ SoftDeadline \/ HardDeadline \/ HardFail
    \/ Join \/ JoinRaised \/ JoinCancelled

InnerStep ==
    \/ InnerStart \/ AnswerDryRun \/ InitDone \/ InitRaised
    \/ GraphDone \/ GraphRaised \/ GraphSwallowed
    \/ ExtractDone \/ ExtractRaised \/ SaveDone \/ SaveRaised
    \/ FailureRecorded \/ InnerCancelled

ThreadStep ==
    \/ ThreadBegins \/ InitInsert \/ InitMark \/ InitDbFails \/ Configure
    \/ SaveCommit \/ SaveReturns \/ SaveRaises
    \/ RecordFailure \/ RecordRaises

JobStep ==
    \/ Submit
    \/ WrapperStep
    \/ InnerStep
    \/ ThreadStep
    \/ Shutdown \/ ExpireJob \/ DeleteJob \/ Crash

Next == JobStep /\ UNCHANGED setup

Spec == Init /\ [][Next]_vars

\* The event loop runs what is ready and its timers fire; a cancelled task is
\* resumed.  Nothing is assumed of the threads, the model calls or the data
\* vendors.
LoopFairness ==
    /\ WF_runVars(StartWrapper) /\ WF_runVars(SoftDeadline) /\ WF_runVars(HardDeadline)
    /\ WF_runVars(HardFail) /\ WF_runVars(Join) /\ WF_runVars(JoinRaised)
    /\ WF_runVars(JoinCancelled) /\ WF_runVars(InnerCancelled)

\* What WorkEnds assumes besides: every blocking call ends, and the graph.
WorkFairness == WF_runVars(InnerStep) /\ WF_runVars(ThreadStep)

LoopSpec == Spec /\ LoopFairness

-----------------------------------------------------------------------------
(* Properties.                                                             *)

\* Every variable stays in its range.
TypeOK ==
    /\ setup \in Setups
    /\ wrapper \in Waiting \cup {"idle", "starting", "cancelWait", "returned",
                                  "cancelled", "dead"}
    /\ inner \in InnerAwaits \cup InnerEnded \cup {"none", "dead"}
    /\ cancelling \in BOOLEAN
    /\ thread \in [op : {"none", "init", "save", "record"},
                   phase : {"idle", "queued", "running", "inserted",
                            "configuring", "committed", "done", "raised"}]
    /\ job \in [status : Status, overtime : BOOLEAN]
    /\ timer \in BOOLEAN
    /\ report \in Status
    /\ emitted \in Seq(Event)
    /\ saved \in BOOLEAN
    /\ graph \in {"unfinished", "finished", "broken", "skipped"}
    /\ verdict \in {"none", "success", "failed"}

Announced(event) == emitted # <<>> /\ emitted[Len(emitted)] = event

\* A client stops reading at the first terminal event (_stream_job_events), so
\* nothing may follow one: no second verdict from the other coroutine, and no
\* overtime notice after the answer.
TerminalLast ==
    \A i \in 1..Len(emitted) : emitted[i] \in TerminalEvent => i = Len(emitted)

\* _run_job never returns without a verdict having been announced, whichever
\* of the two coroutines had to announce it, and leaves no inner task behind.
ReturnedMeansAnnounced ==
    wrapper = "returned" =>
        /\ \E event \in TerminalEvent : Announced(event)
        /\ inner \in InnerEnded \cup {"dead"}

\* A job has exactly one verdict once _run_job has returned, and it is the last
\* thing said of it (_run_job and _run_job_inner may both have to say it).
OneVerdict == TerminalLast /\ ReturnedMeansAnnounced

\* Neither the event nor the entry says "completed" before the report has been
\* committed, whatever raised or was cancelled on the way ("without turning
\* persistence errors into success").
CompletedMeansSaved ==
    Announced("job.completed") \/ job.status = "completed" => saved

\* The entry a client polls agrees with the event it may have missed.
EntryAgrees ==
    wrapper = "returned" /\ job.status # "absent" =>
        Announced(IF job.status = "completed" THEN "job.completed"
                  ELSE "job.failed")
        /\ job.status \in TerminalStatus

\* Three records outlive the run: the entry, the scheduler's verdict and the
\* report row.  The first two can be trusted unless a soft limit has written
\* over a failure or the TTL has removed it too early: the entry agrees with
\* the event, and the scheduler has a success only of a saved report.  A job
\* announced completed has analysed, and its row says so unless the run was cut
\* off or dry (_run_job_inner, _run_scheduled_analysis_once).
RecordsAgree ==
    /\ CompletedMeansSaved
    /\ SoftTimeout = 0 /\ ~setup.ttlOvertakes =>
           EntryAgrees /\ (verdict = "success" => saved)
    /\ Announced("job.completed") /\ Route = "intent" =>
           graph \in {"finished", "skipped"}
    /\ wrapper = "returned" /\ inner # "cancelled" /\ graph # "skipped"
       /\ Announced("job.completed")
       => report = "completed"

\* What a run has settled stays settled: without a soft limit a terminal status
\* can only expire or be deleted, and unless the hard limit cut the inner task
\* off nothing that was started for the job writes its report row once
\* _run_job has returned.
NothingTakenBack ==
    [][/\ SoftTimeout = 0 /\ job.status \in TerminalStatus =>
             job'.status \in {job.status, "absent"}
       /\ wrapper = "returned" /\ inner # "cancelled" => report' = report]_vars

\* With a hard limit the wrapper always lets go of its caller (and of the
\* scheduler's slot), even when a thread or the graph hangs forever.
Running == wrapper \in Waiting \cup {"starting", "cancelWait"}
HardLimitReleases == Running /\ HardTimeout > 0 ~> ~Running

\* When the blocking calls end, so does the wait, without any hard limit and
\* whichever of them raise.
WorkEnds == WorkFairness => (Running ~> ~Running)

\* The promise made to a client: the last event is the outcome, and the job is
\* over when the wrapper is.
Outcome == IF Announced("job.completed") THEN "completed"
           ELSE IF Announced("job.failed") THEN "failed"
           ELSE "undecided"

Ended == IF wrapper = "returned" THEN "answered"
         ELSE IF wrapper \in {"cancelled", "dead"} THEN "stopped"
         ELSE "open"

Promise == INSTANCE JobPromise WITH
    persisted <- saved,
    outcome <- Outcome, ended <- Ended

\* JobLifecycle implements JobPromise.
KeepsPromise == Promise!Spec
====
