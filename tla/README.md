# Verification of the A-share analysis service

TLA+ models of the service in this repository: a FastAPI process that runs
multi-agent stock analyses as jobs and streams their progress, a scheduler
process that runs the same jobs at night, the database both share, the
LangGraph workflow a job executes, the market data it collects, and the browser
panel that shows it.

| Module | Models | Checked by | Proved in |
|---|---|---|---|
| `JobLifecycle` | one analysis job: wrapper, inner task, worker thread, entry, row | `MCJobLifecycle`, runs `job`, `job_soft_race` | `JobLifecycleProofs` |
| `JobPromise` | what a job promises its client (abstract) | refined by `JobLifecycle` in run `job` | `JobLifecycleProofs` |
| `JobStore` | the in-memory entry, its TTL, its event queues and the event streams | `MCJobStore`, run `store` | `JobStoreProofs` |
| `StreamPromise` | what the event streams of a job promise together (abstract) | refined by `JobStore` in run `store` | `JobStoreProofs` |
| `Scheduler` | the daily schedule: claim, run, record, recover, edits, manual runs | `MCScheduler`, runs `sched_*` | `SchedulerProofs` |
| `ReportRecovery` | one report row and all who write it: job, requests, start-up recovery, deletion | `MCReportRecovery`, run `reports` | `ReportRecoveryProofs` |
| `DataCollector` | the market data the jobs of a process share: references, locks, cache | `MCDataCollector`, run `collector` | `DataCollectorProofs` |
| `AnalysisGraph` | the agents' workflow and the coroutine that shows and stores what it does | `MCAnalysisGraph`, run `workflow` | `AnalysisGraphProofs` |
| `ChatStream` | a chat request over the Redis store, from the message to what the panel shows | `MCChatStream`, run `stream` | `AnalysisGraphProofs` |
| `MarketVendors` | how every method of every data vendor ends (pure) | used by `SourceFetch` | - |
| `SourceFetch` | one collection beside other calls: vendor chains, AkShare's lock, BaoStock's session | `MCSourceFetch`, run `market` | `SourceFetchProofs` |
| `UserRows` | rows under a limit: tokens, watch-list, tasks, portfolio import | in `UserRecords` | `UserRecordsProofs` |
| `Accounts` | login codes and model profiles | in `UserRecords` | `UserRecordsProofs` |
| `Backtest` | one backtest: entry, thread, deletion, statistics | in `UserRecords` | `UserRecordsProofs` |
| `UserRecords` | composes the three above | `MCUserRecords`, run `records` | `UserRecordsProofs` |

Sections: 1 inventory, 2 plan, 3 modules and code, 4 runs, 5 known
conditions and findings, 6 proofs, 7 what is not modelled.

## 1. Inventory

| Part | State it keeps | Operations | What makes it hard, what makes it correct |
|---|---|---|---|
| Analysis job (`api/main.py` `_run_job`, `_run_job_inner`) | the wrapper and the inner asyncio task, one blocking call at a time in a worker thread, the report row | submit, soft and hard deadline, each resumption of the inner task, cancellation, shutdown | two coroutines may both announce the outcome; a cancelled task leaves a thread running; every call may raise. Correct: one verdict, last event, after its report is stored |
| Job store (`api/job_store.py`) | entries, event queues, TTL timers, captured loop | set, get, delete, emit, subscribe, clear | worker threads schedule callbacks on the loop; queues overflow; subscribers come and go; entries expire under a subscriber |
| Redis job store (`api/job_store_redis.py`) | hash with expiry, pub/sub channel, listener thread | as above | no replay: what is published before the listener subscribes is lost |
| Scheduler (`scheduler/main.py`, `api/services/scheduled_service.py`) | task rows, concurrency slots, running jobs | tick and claim, run, record, recover at start, edits and manual runs from the API | two processes write the same rows; crash between claim and record; days pass; a run per task and day |
| Report store (`api/services/report_service.py`) | report rows | init, partial update, create, mark failed, finalise orphan, recover, delete | job, readers and the recovery write one row, each after reading it |
| Data collector (`tradingagents/graph/data_collector.py`) | cache, reference counts, per-key locks | ref, collect, evict | concurrent jobs on one key; threads outlive the job that started them |
| Analysis graph (`tradingagents/graph/`, `tradingagents/agents/`) and its consumer (`main.py` 1841-2330) | graph state, two debates with their books of claims, retry counter; statuses shown, sections stored | analysts, bull/bear debate, trader, risk debate, revision; one chunk after another | loops must end whatever the models answer; a revised plan is debated again; what is shown and stored follows the latest draft |
| Chat panel (`ChatCopilotPanel.tsx`, `analysisStore.ts`) | stream, current job, run state | send, read, recover by polling, unmount | lost events, a stream that is cut or raises, a verdict read twice |
| Backtests (`backtest_service.py`) | entries in memory | submit, thread, delete | a deletion races the thread |
| Tokens, watch-list, tasks, portfolio import | rows under a limit | add, batch, import, delete | counted before the insert, in another transaction |
| Login codes, model profiles (`auth_service.py`) | codes, profiles with one default | send, verify; list and seed, create, update, choose, delete | one code verified twice at a time; several defaults or none |
| Data vendors (`tradingagents/dataflows`) | AkShare's permits and their holders, BaoStock's session | route, fall back, lock, reclaim | a vendor may answer in words, raise or never answer; a thread outlives the permit that was taken from it |
| E-mail and WeCom messages, user interface components, prompts, static data | none of interest | sending, rendering | not modelled |

Calls between them: the HTTP handlers and the scheduler start jobs; a job writes
its entry and events to the store of its own process and its row to the shared
database; the event stream reads the store; the scheduler reads the entry once
its job returns; report reading in the API and start-up recovery in the
scheduler both repair rows they believe orphaned.

Hard behaviours, by component:

- *Job.* `_run_job` and `_run_job_inner` run on one event loop and interleave
  at their awaits; each blocking call runs in a thread that cancellation does
  not stop. Two deadlines, a shutdown, a crash and failing database calls may
  fall at each of those points.
- *Job store and streams.* `subscribe` is a generator finalised some time after
  its response ended; several may be open at once on one queue; a full queue
  drops an event; a poll stands in for a lost verdict; the entry expires.
- *Scheduler.* Two processes read, change and write the same rows in separate
  transactions; the process may die between any two of them; a run may outlast
  the day it belongs to.
- *Report store.* Three writers of one row, and a delete.
- *Collector.* Threads that outlive the job which started them; a reference
  count decremented on paths that never incremented it.
- *Workflow.* Two debates and a revision loop whose control depends on what
  models answer; a consumer that sees each state once and may fail on it.
- *Chat panel over Redis.* Pub/Sub keeps nothing; an API process that starts clears
  the hashes of all processes; the stream, the job and the panel end independently.
- *User records.* Requests run in threads; what they read before their first
  write is not in the transaction that writes.
- *Vendors.* One lock for all threads of the process with a limit for flagged
  callers inside it, time-outs, and reclaiming of permits from threads that
  still run.

## 2. Plan

Modelled, in the order of the work: `JobLifecycle` with its refinement of
`JobPromise`; `JobStore`, later with its refinement of `StreamPromise`;
`Scheduler`; `ReportRecovery`; `DataCollector`;
`AnalysisGraph`; `ChatStream` (planned as two modules, one for the Redis store
and one for the browser; they are one, because what matters is what the panel
tells of a job whose events were lost); `UserRows`, `Accounts`, `Backtest` and
their composition; `MarketVendors` and `SourceFetch`. No module has a RECURSIVE
operator, constants have named assumptions, each operation is an action and
invariants are conjunctions of named parts.

Proved: every invariant, every action property and both refinements of the
passing runs, each for all values of the constants (section 6 says under which
hypotheses). Left to TLC are the liveness properties.

## 3. Modules and code

### JobLifecycle (api/main.py, api/services/report_service.py)

| Variable | In the code |
|---|---|
| `setup` | the job's origin, its route, its two limits and whether the entry's TTL may overtake it; chosen once |
| `wrapper` | the await at which `_run_job` is: `asyncio.wait` with the soft or the hard limit, the bare await of the inner task ("join"), the await of the cancelled one |
| `inner` | the await at which `_run_job_inner` is; `cancelling`: `cancel()` called and `CancelledError` not yet thrown |
| `thread` | the `asyncio.to_thread` call the inner task awaits (or left running): `_init_and_configure`, `_save_report_or_raise`, `_record_failure`, and how far it is between its commits |
| `job`, `timer` | the store's entry and whether its clean-up is scheduled |
| `report` | the `status` of the row in `reports` |
| `emitted` | the lifecycle events of the job, in order |
| `saved`, `graph`, `verdict` | history: did `create_report` commit (or is a dry run due none), how the graph ended, what the scheduler recorded |

Each action is the code of a coroutine between two awaits or of a thread between
two commits: `SoftDeadline` is the `if not done` branch of the first wait,
`SaveDone` everything after the save returned, and so on (PROJECT.json maps each
to its lines). A cancelled `to_thread` call that no thread has begun is dropped,
one that has begun runs on (`InnerCancelled`). The dry run is an input
(`AnswerDryRun`). The agents' work, seen from the job, returns, raises, or (on
the default streaming route) raises and is swallowed.

### JobStore (api/job_store.py)

`status` and `timer` are the entry, `queues` every queue the job ever had,
`current` the one in `_job_events`, `calls` the `call_soon_threadsafe` callbacks
not yet run, `client` the state of each `subscribe` generator and `queue` the
queue it captured. `Emit` is `emit_event` on the loop; `WorkerEmit`/`RunCall`
are its two halves off the loop. `Deliver` is one `q.get()` with the event's way
out through `_stream_job_events`; the generator is finalised later (`Leave`),
because that function returns without closing it. `Ping` and `PollEnds` are the
two ways out of a poll that timed out. The job is reduced to its events and the
order in which it writes the entry; `origin` says whether it was posted, started
from the chat (streamed before an entry exists) or by the scheduler (in a
process no client connects to). `Promise` reads a `StreamPromise` off this
state: its pending events are those that lie in a queue or in a put that waits
for the loop (`Carrying`), a stream is what its generator has come to
(`StreamOf`), and the decision is open, failing (the entry says failed, the
failure is being recorded) or announced. A poll may elapse between any two steps
of the job; one that finds the entry failed before `job.failed` is emitted cuts
its stream short (`cutShort`). `softLimit` is the soft deadline, ahead or
passed: `SoftDeadline` writes the entry as running and emits `job.overtime`
whatever the entry says, and where that takes back a failed entry (`crossed`)
the TTL timer is gone with it (`Reopened`). `mustPoll` is the one piece of
timing: a reader that waits when the TTL has less than a poll interval left
polls before it fires, because 15 s is much less than the TTL. `TtlOvertakes`
lets the TTL (600 s) end while a failure is still being recorded.

### Scheduler (scheduler/main.py, scheduled_service.py, main.py's manual trigger)

`row` holds the columns of `scheduled_analyses` that decide anything, `claimed`
and `toLaunch` are the two halves of a claim (committed; read back), `free` is
the semaphore, `run` has one record per job: its kind, task, day, place, report
(`done`, `created`) and, when commits may overlap, the row as its transaction
read it (`read`, `seen`). `ReadRow`, then `RecordSuccess` or `RecordFailure` is
`mark_run_success` / `mark_run_failed` / `record_manual_test_result`: the ORM
writes only the columns that changed, so `Commit` changes just those. The job
itself is `SaveReport` and `JobEnds`, the interface of JobLifecycle: always an end
(`HardLimitReleases`), and a completed job has saved (`RecordsAgree`). The run
only asks whether the entry reads "failed" (scheduler/main.py:236-239,
main.py:193-195), so a failed job whose entry the soft limit turned back to
running, or whose TTL is up, is recorded as a success too: `JobEnds` allows it
from any place and marks the run `misled`.
`Start` is the whole of `_startup` and `_recover_stale_tasks`; `created`
compares the report's UTC creation time with a Shanghai day, as
scheduler/main.py:348-360 does.

### DataCollector (tradingagents/graph/data_collector.py, main.py:1841-2463)

`phase` is where the coroutine of a job is, `thread` where the thread is that
runs `collect` for it; a thread outlives a job that was cut off (`CutOff`).
`cache` and `refs` are `_cache` and `_refcounts`, a key being a symbol on one
trade date; `locked` is the lock of a key. `plan` is the input: a dry run, a
streamed analysis (a reference but no collection) or a query, whose parsed
ticker may differ from the symbol the reference is on. The reference counts and
the cache eviction have a lock of their own, which `collect` does not take: so
`Evict` may fall between any two of `Acquire`, `Check`, `Fetched` and `Return`.
`Evict` of a key without a count acts as on a count of one, as
`_refcounts.get(key, 1)` does. `_fetch_all` is one step that returns or raises,
and may never come.

### ReportRecovery (report_service.py, main.py:3593-3610, scheduler/main.py:372)

`row` is the status and the error of one report (the other columns follow the
status). Writers are the job's threads `init` and `save`, its failure record
`fail`, the start-up `recovery`, and the requests `Readers`. `at` is where a
writer's transaction is and `seen` the row it loaded. `Update` is an ORM commit:
it writes the columns whose value differs from the loaded one, to whatever row
has the key by now, so status and error may come from different writers; on a
deleted row it raises (`Gone`). `Open`, `LookUp`, `Finalize` are the three steps
of opening a report. `setup` is chosen at the start: is the job run by the API or
by the scheduler, in the single container (docker-compose.yml: private job
stores, `docker-entrypoint.py` stops both processes when one ends) or in the
split deployment (docker-compose.split.yml: Redis, each process restarts alone;
an API that does clears the store, main.py:250-251: `Die`, `ApiRestarts`).
`Fail` covers the failing work, a configuration error and the hard limit, after
which the threads `init` and `save` go on. `deleted` remembers that the user
deleted the report: `create_report` inserts it again when it finds no row
(report_service.py:405). `early` carries one assumption on
time: a request that read the row before the job was over looks its entry up
before the entry's TTL (600 s or a day) is up.

### AnalysisGraph (tradingagents/graph, tradingagents/agents, main.py 1841-2330)

`node` is the superstep that runs next: LangGraph runs its nodes, applies what
they return and hands the state to `_run_job_inner`, which must take it
(`chunk`) before the next one starts. The analysts of the first superstep return
in any order (`returned`, applied by `AnalystsReturned`), every other action is
one agent's node function. `inv` and `risk` are the two debate states; their
`count` and `last` decide who speaks next (conditional_logic.py), `said` is
history. `book` is the claims of a debate as `update_debate_state_with_payload`
keeps them: one status per claim and three lists. A reply is what the control
flow reads of it: whether it is empty, which claims its tagged block names, and
the judge's verdict; a block that does not parse is the one that names nothing.
`feedback` holds the judge's retry count, `plan.draft` numbers the trader's
drafts and `decision.draft` is the draft a ruling was on (both history, as are
`steps` and `empties`). `seen`, `shown` and `row` are the consumer: what it has
acted on, the statuses of AgentProgressTracker, the sections it has written.
On the intent route an exception fails the job (`Raise`), on the stream route it
is logged and the job concludes from the last state it took (`Conclude`).

### ChatStream (job_store_redis.py, main.py 3048-3461, ChatCopilotPanel.tsx)

`message` and a reply say what the symbol parser can find, `Recognised` what it
makes of them. `job` is `_extract_and_run` and the job behind it, reduced to its
hash (`entry`: a status, and whether the fields of its creation are there) and
its events. `Emit` is Redis publish: heard by the listener thread if it has
subscribed (`sock`), by nobody otherwise; `queue` lies between that thread and
the stream (`srv`), `wire` between the stream and the browser. `OtherStarts`
clears the store, as an API process does when it starts (main.py:250-251);
`SetJob` merges, so a later write brings back a hash without its other fields
(`whole`). `panel` is the component: reading, recovering by polls, or idle, what
it shows, and the store's "analysing".

### MarketVendors and SourceFetch (tradingagents/dataflows, data_collector.py:264-315)

`MarketVendors` has one definition per method of a vendor: from what its own
requests may bring (rows, nothing, an error), the set of its ends: a table
(`data`), a sentence (`text`) or an exception (`raise`). `route_to_vendor` goes
on to the next vendor of the chain only when one raises, so the difference
matters. `VendorChain` are the places in the registry of the vendors that have a
method which does not always raise: the default configuration asks them in the
registry's order.

`SourceFetch` runs calls through those chains: the calls of one collection's
pool and others of the same process. `at` is where a call stands at AkShare's
lock (`_AkshareLock`: a permit for flagged calls first, then one of the total; a
time-out reclaims zombies and retries once) or in BaoStock's session. Time is
left out: a wait may time out whenever no permit is free, any registered holder
may be a zombie, and a zombie may leave its section later. `Flagged` follows the
code: the scheduler's flag is a context variable, and the threads of the
collection's executor do not inherit it. `Snapshot` is the collection's reading
of `done` and `not_done`, `Return` its end; `answer` goes on changing after it,
since the threads do.

### UserRows, Accounts, Backtest, UserRecords (api/services)

Requests run in threads (`req`, `login`, `edit`), each query before the first
write at a moment of its own, the writes up to a commit one action.
`UserRows`: `table` chooses tokens, watch-list or tasks; `Count`, `Look`,
`Insert` add one row, the watch-list's batch goes round (`NextItem`); `Ensured`
creates the tasks of an import in its transaction, up to the limit.
`Accounts`: a code is looked up, its user is looked up, both are committed
(`LookUp`, `FindUser`, `Accept`); profiles are listed and seeded, and their
default is moved in a bulk update (`Cleared` for a new one, `Sets` for an update
or a choice) or, after a deletion, in a second transaction (`Delete`,
`ChooseNext`, `Promote`). `Find` is `get_user_llm_profile` with its fallback to a
profile of anybody: `profiles` are those of one user, `mine` tells that user's
requests from the others', which may find these too, and `Foreign` is a profile
of another user that one of his may find. `Backtest`: `Set` creates an
entry of an id that is gone, without the fields `submit` gave it (`whole`).
`UserRecords` chooses one of the three per behaviour (`focus`): no request
touches two.

### How they fit

`JobLifecycle` establishes what `JobStore` and `Scheduler` assume of a job: the
order entry, row, event; one terminal event; a failed entry before the verdict
is read, unless soft limit or TTL took it away first. `JobStore` refines the
one-entry, append-only log of `JobLifecycle` into queues and readers.
`Scheduler` uses the verdict and the end of a run only. `AnalysisGraph` is the
"graph" of `JobLifecycle`, which it leaves as `graph' = "finished"` or
`"broken"`; `ChatStream` sees a job as `JobLifecycle` leaves it to its clients
(status before event, one verdict) over the other store. `SourceFetch` is the
`fetching` step of `DataCollector`. `DataCollector` looks at several jobs at
once, each reduced to its `try` and `finally`, `ReportRecovery` at one job and
everybody else; `CutOff` is the cancellation of `JobLifecycle`'s inner task.

## 4. Runs

| Run | Module | What it shows |
|---|---|---|
| `job` | JobLifecycle | Jobs of either origin and route, under every comparison of their limits, with failing database, TTL, shutdown and crash at every step. `OneVerdict`: exactly one terminal event, the last one, before the return; `RecordsAgree`: entry, scheduler's verdict and row agree with it; `NothingTakenBack`; `KeepsPromise`: it implements JobPromise; `HardLimitReleases`: with only the event loop fair, the wrapper lets go although a thread or the graph never ends; `WorkEnds`: without a limit, when the blocking calls end |
| `store` | JobStore | Two streams on queues of two events, jobs of all origins, worker threads that emit through the loop, polls and the soft deadline at any step: `OrderedOnce`, `SomeoneTold`, `LostOnlyToSharer`, `KeepsStreamPromise` (it implements StreamPromise), `StreamsEnd`, `EntryFreed` |
| `sched_days` | Scheduler | Two tasks, one slot, one crash, overlapping commits: `OncePerDay`, `NoDayLost`, `SlotsConserved`, `TaskSettles` |
| `sched_manual` | Scheduler | One task over three days, failing runs and recordings, misled runs, a manual run and an edit: `StrikesDeactivate`, `ReportShownIsTrue` (but for misled runs) |
| `collector` | DataCollector | Three jobs on two keys, every mode, cut off at any moment: `FetchedOnce`, `KeptWhileNeeded`, `OnlyStraysLeft`, and `WaitersLeave` although a fetch may hang |
| `reports` | ReportRecovery | A job of either process in either deployment, two requests, deletion, crash and restart of either process at any step: `SuccessKept`, `OrphansOnly`, `DeletedReturnsFinished` (a deleted report comes back only as the finished one of a save that found no row), `OrphanSettles` |
| `workflow` | AnalysisGraph | All seven analysts, two rounds of debate, one of risk debate, either route, empty replies, every claim block and verdict, nodes and writes that raise: `HeardInFull`, `RunIsShort`, `ClaimsAgree`, `ShownAgrees` |
| `stream` | ChatStream | One chat with lost events, cut streams, restarts of this and of another process, a user who leaves: `ToldTruth`, and `PanelSettles` but for two named cases |
| `records` | UserRecords | Two requests at a time on each table, on profiles also those of another user, a backtest deleted at any moment: `LimitHolds`, `AccountsHold`, `BacktestTruth` |
| `market` | SourceFetch | A collection of two sources and two other calls, in either process, one AkShare permit and one for flagged calls, vendors that answer in any way or never: `SlotsKept`, `ShownAsAnswered`, `FetchSettles` |
| `job_soft_race`, `sched_midnight` | | violations, see section 5 |

Bounds. A job is one record of finite state, so `job` is bounded only by the
order of the two limits (only their comparison matters: 0, 1 < 2). Two streams
can share a queue, lose it to each other and hold different queues; a queue of
two events overflows with four progress events and a verdict; two pending puts
of threads are the smallest number that can be reordered. One slot and two tasks
make a task wait; two days, the first without trading, make a stamp differ from
the present day; three failures need three trading days; `MaxRuns` = 4 leaves
room for both tasks before and after a crash, so the bound never stops a launch
in the liveness run. Three jobs are the smallest number in which one evicts
while a second fetches and a third waits; two keys let a job collect another key
than its own. Two requests can overtake one another on the same row. Two rounds
make every speaker of the first debate answer twice, one revision (the code's
`max_retries`) repeats the risk debate, two claims let one reply resolve one
claim and revert another, one empty reply is enough to be the last word of any
agent. Two polls reach the panel's limit in both orders with each event of a
job; one agent event lies before or after the subscription. A limit of two with
four symbols lets a batch meet a table that fills up while it runs; three codes
make an older one stale twice. One permit makes every second call wait; two
calls in the pool of one worker make one of them unstarted when the collection
returns. Each counter that is capped (`MaxProgress`, `MaxWorker`, `LastDay`,
`MaxRuns`, `MaxManual`, `MaxCrashes`, `MaxEdits`, `MaxClaims`, `MaxEmpty`,
`MaxCodes`, `MaxProfiles`, `MaxDays`) is named as a bound in its module;
`MaxPolls` is the code's own limit, smaller. Deadlock is not checked: a job that
is over, and a clock at its last day, are the end of the model.

The type invariants of `JobStore` and `Scheduler`, which bound queues and slots,
are among the runs' properties; those of the other modules are proved and are not.

Fairness. *JobLifecycle*: asyncio runs every ready callback and fires its timers,
so each resumption of the wrapper and the delivery of a cancellation are weakly
fair (`LoopFairness`); threads, models and vendors owe nothing. `WorkFairness`
adds that calls end and serves one run only. *JobStore*: ready callbacks, timers
and generator finalisers (asyncio's asyncgen hooks); the job and the clients owe
nothing. *Scheduler*: the container restarts (`restart: always` in
docker-compose.split.yml), the loop starts what it claimed, the run's steps are
weakly fair and `Acquire` strongly, because `asyncio.Semaphore` is first come
first served; that a job ends is `HardLimitReleases`. *DataCollector*: a thread that
waits for a lock gets it or times out (`acquire(timeout=...)`); neither the jobs
nor the vendors owe anything. *ReportRecovery*: a
request once begun is answered, an entry expires, and somebody keeps opening the
report (the settling is done by reading; nothing else in the API does it); the
job and its threads owe nothing. *ChatStream*: the job goes on (its hard limit
sees to it: `HardLimitReleases`), the listener and the stream run, the panel's
promises settle; connections, listeners, processes and users owe nothing.
*SourceFetch*: a timed wait ends and the collecting thread goes on; the vendors
and the pool's threads owe nothing.

## 5. Findings and known conditions

Where the code does what a comment, docstring or test says it does not:

1. `job_soft_race` (`EntryAgrees`). The inner task fails, writes the entry as
   failed and awaits the thread that records it (main.py:2438-2453). The soft
   deadline falls in that await, finds the task not done and writes
   status=running, overtime=True (main.py:1674). `job.failed` is emitted, the
   entry says running for good.
2. `sched_midnight` (`OncePerDay`). A run claimed on Monday evening that is
   recorded after Tuesday's claim sets `last_run_date` back
   (scheduled_service.py:333); the next tick runs Tuesday again.

Properties that hold under a condition, with the setting that drops it. None of
these contradicts a document of the repository, so none is a run:

| Condition | Drop it | What then happens |
|---|---|---|
| the hard limit did not cut the inner task off (in `NothingTakenBack`, `RecordsAgree`) | remove `inner # "cancelled"` | the hard limit cancels the inner task while `create_report` runs in its thread; the wrapper announces `job.failed` and returns; the thread then commits the row as completed |
| there is no soft limit (in `RecordsAgree`, `NothingTakenBack`) | remove `SoftTimeout = 0` | finding 1; a scheduled run with a soft limit is then recorded as a success (`misled` in `Scheduler`) |
| the TTL does not overtake the job (in `RecordsAgree`) | remove `~setup.ttlOvertakes` | the failed entry expires while the failure is being recorded; the scheduler reads no entry and records a success |
| the job runs on the intent route (in `RecordsAgree`) | remove `Route = "intent"` | the streaming loop logs what the graph raises, and the job completes without an analysis |
| no stream was cut short (in `SomeoneTold`; `CutShort` in `StreamPromise`) | remove `cutShort` | the 15 s of a reader's poll (job_store.py:256) are over between the failed status (main.py:2438) and `job.failed` (2453): its stream ends untold and drops the queue, and a second reader of that queue is closed by a poll, untold too |
| the soft limit did not reopen the entry (in `StreamsEnd`, `EntryFreed`) | remove `Reopened` | finding 1, seen from the store: the entry says running and its TTL timer is cancelled (job_store.py:117-123), so it is never freed, and a reader who missed the verdict is pinged for ever |
| the entry outlives the recording of a failure (in `SomeoneTold`, `LostOnlyToSharer`) | `TtlOvertakes = TRUE` | the entry and its queue are gone before `job.failed`, which makes a queue nobody reads |
| the run was not misled (in `ReportShownIsTrue`) | remove `run[r].misled` | a job that failed, whose entry the soft limit set to running or the TTL removed, is recorded as a success, and its row shows the id of a failed report |
| a client does not connect in the last seconds of the TTL | `LateClient = TRUE` | the entry expires before the first poll, which takes the absent entry for a running job: the stream pings for ever (`StreamsEnd`) |
| no thread put an event after the verdict's (in `SomeoneTold`) | remove `~LateWorkerPut` | a put handed to the loop before the verdict runs after it and pushes it out of the full queue |
| the loser of a queue never shared it (in `LostOnlyToSharer`) | remove the premise | a client reconnects before the generator of its former stream is finalised; both get one queue, and the finaliser's identity check (job_store.py:274) drops the queue the new one reads, which then gets pings until a poll finds the job over |
| no manual run while the scheduler may crash | `MaxManual = 1`, `MaxCrashes = 1` | the manual run overwrites "running"; the recovery skips the row and the day is lost (`NoDayLost`) |
| users do not delete a task between a claim and its read-back | `MaxEdits = 1` with `sched_days` | the claim of all tasks is lost, their rows stay running (`NoDayLost`) |
| no edit activates a task while the recording of its run, which read it as inactive, is under way (theorem `ThreeStrikes`) | `WritesMayOverlap = TRUE`, `MaxEdits = 2` | a run that read `is_active` as false before an activation does not write it: a row with three failures stays active (`StrikesDeactivate`) |
| the database works | `DbMayFail = TRUE` | both recordings fail and the row stays running until a restart (`TaskSettles`) |
| the job runs in the API process (in `OrphansOnly`) | remove `setup.home = "api"` | in the single container the API has no entry for a job of the scheduler, so whoever opens its running report marks it failed as interrupted (main.py:3605); in the split one the same happens before the job's first entry |
| no finaliser crosses the save (in `SuccessKept`) | remove `crossed = {}` | a request, or the scheduler's start, that read the row as running fails the completed report; or its commit falls between the save's read and commit, which then leaves the error text on a completed report, because the ORM sees no change of the error it loaded |
| no dry run asks for the key (in `KeptWhileNeeded`) | remove the premise | the `finally` of a dry run evicts a reference it never took (main.py:2463): another job on the key loses its data, or its collection ends in a `KeyError` |
| no thread outlived its job, and the query named the symbol's own ticker (in `OnlyStraysLeft`) | remove the disjuncts | the thread of a cut-off job fills the cache after the eviction, or the data is cached under the ticker and evicted under the symbol: it stays until the next job on that key |
| the panel's user stays (in `PanelSettles`) | remove `LeftAnalyzing` | leaving the page during a recovery stops its polls; the store says analysing until a reload, and the next request is refused |
| a verdict is heard or in the hash (in `PanelSettles`) | remove `Deaf` | a chat that fails before its entry, its event published before the listener subscribed (or lost, and another API process clears the hash of a job that is over): nothing is on its way any more, and the stream pings for ever |
| the panel's polls suffice, and the job's id was known (in `ToldTruth`) | remove `LimitReached`, `~panel.jobId` | the panel tells a failure of a job that goes on: an id it never learned, or a hash that lost its creation time, on which the status request fails each time |
| the BUYs (in `BacktestTruth`) | speak of SELLs too | a SELL's return is stored negated (backtest_service.py:211) and counted as won when negative (172): its losses are counted |
| as many requests as counted at once (in `LimitHolds`) | say `<= Limit` | two requests that counted before either inserted exceed the limit by one |
| two first listings do not cross, nor a deletion and a choice, and no request is on another user's profile (in `AccountsHold`) | remove a disjunct of `DefaultsMultiply` | two defaults: seeded twice; a successor promoted although there is a default (chosen meanwhile, or what was deleted was another user's); or a profile set or updated as default by another user, which clears only the caller's own (auth_service.py:421-426, 518-522, 560) |

Seen while modelling, and in the models as the code has it:

- *Streams over Redis.* The start of an API process deletes the hashes of
  jobs that run in other processes (docker-compose.split.yml shares one Redis);
  a later `set_job` merges into nothing, and the status request fails on a hash
  without `created_at`. An error after `job.completed` was read starts a
  recovery, after which the result is announced a second time. A `job.failed`
  whose text reads like an older server's time-out is polled to the limit.
  `hooks/useSSE.ts` has no importer.
- *User records.* A watch-list batch that meets a symbol another request has just
  added ends in an IntegrityError after earlier symbols were committed (the
  docstring promises a result per symbol). The endpoints of model profiles
  (main.py:4286-4335) leave the user to `get_user_llm_profile`, which finds a
  profile of anybody when the id is not one of the caller's (auth_service.py:421):
  update, set_default and delete then act on another user's row, while the bulk
  update and the successor are the caller's, and the owner may be left with two
  defaults or with none. A stale read in an update may leave none either.
  `sample_interval` 0 never ends the planning loop of a backtest; dates that do not
  parse leave it running for ever; the thread of a deleted backtest makes a new
  entry without `job_id`.
- *Vendors.* Scheduled tasks are to take at most three of AkShare's five slots, so
  that two are left to the front end (cn_akshare_provider.py:15). The flag that
  tells them is a context variable, and the collection's executor
  (data_collector.py:299) starts its threads without the caller's context: the
  calls of a scheduled collection enter the lock unflagged (line 91) and may hold
  every slot. The limit binds the calls made outside a collection only
  (`PermitsLimit`). AkShare's `get_global_news` takes one argument and is called with
  three, which raises a TypeError and passes to the next vendor; InvestToday's
  `get_insider_transactions` likewise. BaoStock's login is the process's: a
  logout fails another thread's query. A vendor that answers in words ends the
  chain. A page InvestToday does not return shortens a list without a word. The
  Alpha Vantage requests have no time-out.
- *Jobs.* A chat that finds no symbol emits `job.failed` without an entry; if
  nobody reads, no timer frees its queue.

A crash between the report's commit and its recording leads to a second report of
the day: the recovery looks at `last_report_id`, still that of an earlier day
(scheduler/main.py:348). `OncePerDay` allows for it by
`Excused`: a run may be repeated when it was lost with the process or its recording
raised.

## 6. Proofs

Every theorem is checked by TLAPS for all values of the constants that satisfy the
named assumptions of the modules (sets finite and not empty, bounds natural
numbers). Each proof has one inductive invariant, `IInv` unless said otherwise: a
conjunction of named parts, one lemma per part that every step keeps it (with one
step per action, or per effect an action can have), and theorems that read the
property off. TLC checked the invariants on the instances of section 4 before they
were proved. A theorem with a hypothesis on the constants repeats the condition
under which its property is checked; what happens without it is in section 5.

### JobLifecycleProofs: any set of settings, with or without database faults

| Theorem | States |
|---|---|
| `TypeCorrect` | `Spec => []TypeOK` |
| `AtMostOneVerdict` | `Spec => []TerminalLast` |
| `NoSilentReturn` | `Spec => []ReturnedMeansAnnounced` |
| `ExactlyOneVerdict` | `Spec => []OneVerdict` |
| `NoCompletionUnsaved` | `Spec => []CompletedMeansSaved` |
| `RecordsStayInAgreement` | `Spec => []RecordsAgree` |
| `SettledForGood` | `Spec => NothingTakenBack` |
| `Refinement` | `Spec => KeepsPromise` (JobLifecycle implements JobPromise) |

`IInv` is the conjunction of

- `TypeOK`;
- `Control`: where the inner task can be for each place of the wrapper. Without
  it, `HardFail` could follow an inner task that had returned by itself: the
  guard of `HardDeadline` and `cancelling` together say that an inner task under
  cancellation never gets to announce;
- `Log`: `TerminalLast`; while nobody has decided the log holds no terminal
  event; and whoever has returned has announced. `TerminalLast` alone is not
  inductive: a step that appends needs to know that the log is silent;
- `Stored`: a save call past its commit has set `saved`, and
  `CompletedMeansSaved`. `SaveDone` sees only that its call returned;
- `Records`, for what the entry, the scheduler's verdict and the row say.
  `Released`: a task that ended without being cancelled leaves no thread, so that
  nobody writes the row after it. `Progress`: neither entry nor log is terminal
  before it is due, and completion on the intent route comes after a graph that
  finished. `Settled`: without a soft limit nothing overwrites a terminal status,
  which is what `RecordsAgree` needs between the inner task's write and the
  wrapper's return. `Finalised`: the row of a completed job was written by its
  save, and by nothing after.

`SettledForGood` is an action property: `StatusKept` and `RowKept` show it of each
step from `IInv`. Refinement: `Init` maps to `JobPromise!Init`, and each action to
`Persist` (`SaveCommit`), `Announce` (the terminal emissions), `Answer` (`Join`),
`Stop` (shutdown, crash) or a stutter; `Control` and `Log` show that an announcing
action finds the outcome undecided and the job open.

### JobStoreProofs: any number of clients, any size of queue

| Theorem | States |
|---|---|
| `TypeCorrect` | `Spec => []TypeOK` |
| `EventsOnceInOrder` | `Spec => []OrderedOnce` |
| `QueueLostOnlyToSharer` | `~TtlOvertakes` gives `Spec => []LostOnlyToSharer` |
| `VerdictReachesSomeone` | `~TtlOvertakes` gives `Spec => []SomeoneTold` |
| `StoreKeepsPromise` | `Spec => KeepsStreamPromise` (JobStore implements StreamPromise) |

- `Stages`: the entry and its timer follow the job's coroutine and its soft limit.
- `Order`: an event is in one queue, or in one put that waits for the loop, or
  with one stream; a stream is ahead of its queue, and a waiting put comes after
  all its emitter has put before. `OrderedOnce` speaks of streams only and is not
  inductive: a `Deliver` moves whatever the queue holds.
- `CutFails`: a stream is cut short only of a job that fails.
- `Lost`: a reader whose queue is not the current one shared it with a stream
  that has closed.
- `Verdict`: while nobody has left, was told or was cut short: until the job is over
  there is one queue; after it, that queue holds the verdict until a stream is told
  it.

The last two hold where an entry outlives the recording of its failure
(`~TtlOvertakes`; the TTL is 600 s): otherwise queue and entry go before the
verdict comes. Nothing is assumed of polls and of the soft limit.

Queues drop their first event when full. `PutEffect` and `PutInto` say what that
does to the positions of the others, and every action is one of five moves of
events or leaves them alone (`Kinds`).

Refinement: the pending events of `StreamPromise` are the ones carried by queues
and waiting puts. The failed entry maps to `Fail`, an emission to `Announce`, a
put that the loop runs to `PushOut` or a stutter (`PutCarries`: a put pushes out
at most one event, which by `Order` lies nowhere else), `Subscribe` to `Begin`,
a delivery to `Give`, a disconnection to `Leave`, a poll that ends the stream to
`CutShort` before the announcement and to `EndUntold` after it; the entry, the
timer, pings and the finalisers of generators stutter. Two steps need the
invariant: that what a stream is given is later than what it has of that emitter
(`Order`), and that a stream a poll ends after the announcement leaves no
verdict untold (`Verdict`; with `TtlOvertakes`, of which `StreamPromise` knows,
it may).

### SchedulerProofs: any tasks, calendar, concurrency and bounds

| Theorem | Hypothesis | States |
|---|---|---|
| `TypeCorrect` | | `Spec => []TypeOK` |
| `SlotsAddUp` | | `Spec => []SlotsConserved` |
| `ShownReportsAreTrue` | | `Spec => []ReportShownIsTrue` |
| `ThreeStrikes` | `[][NoStaleActivation]_vars` | `Spec => []StrikesDeactivate` |
| `ThreeStrikesUndisturbed` | `~WritesMayOverlap` or no edits | `Spec => []StrikesDeactivate` |
| `OnceADay` | `~RunsOverMidnight` | `Spec => []OncePerDay` |
| `NoDayIsLost` | `Quiet`: no edits, no manual runs, no failing database, no run over midnight | `Spec => []NoDayLost` |

- `Book`: which runs exist and where they may be, and that a dead process has
  nothing in hand; `SlotsInv`: the free slots and their holders, by the library's
  facts on cardinalities. `SlotsConserved` is inductive with `Book`.
- `StrikesInv`: a run that read its row as inactive still finds it so, hence its
  commit leaves no active row with a third failure. The only steps that break it
  are those `NoStaleActivation` excludes: a row is activated while a transaction
  that read it as inactive is under way. Edits of anything else, and activations at
  any other time, are allowed.
- `Calendar`, where no run lasts into the next day. `Today`: what is claimed and
  what runs is of today. `Owned`: a run of today that may not be repeated has
  stamped its row with today, and a row that is not "running" stays so under a
  commit (`SeenTrue`). `Queue`: what is claimed and not yet launched has no run
  of today but an excused one. `OncePerDay` follows since a claim takes only
  rows that are not stamped with today.
- `NothingLost`, where it is quiet. `Settled`: a "running" row has a run pending or
  was left by a dead process, any other has the outcome its stamp stands for;
  `InOrder`: no success is of a later day than its row's stamp.
- `Backed`: a run that records a success has its report or is misled.
  `ReportShownIsTrue` is inductive with it: a row shows a report only since its run
  recorded a success.

The lemmas named `...Effect` say once what each action does to the row and the
run it is about, for the ten lemmas that follow. The hypotheses of
`ThreeStrikesUndisturbed`, `OnceADay` and `NoDayIsLost` are the settings of
`sched_manual` (the first) and `sched_days`; each is needed, see
`sched_midnight` and the table of section 5.

### DataCollectorProofs: any finite set of jobs, any keys

| Theorem | States |
|---|---|
| `TypeCorrect` | `Spec => []TypeOK` |
| `OneFetchPerKey` | `Spec => []FetchedOnce` |
| `DataKept` | `Spec => []KeptWhileNeeded` |
| `NothingElseLeft` | `Spec => []OnlyStraysLeft` |

Each of the last three has an invariant of its own. `FetchedOnce` speaks of threads
that fetch; it is inductive together with `Exclusive`: at most one thread is
between the acquisition and the release of a lock, which is held meanwhile, and
the key of one that fetches is not cached (an eviction only shrinks the cache,
and only the holder of the lock adds to it). `KeptWhileNeeded` needs to know that
an eviction which drops the data is the last holder's, so it rests on `Counted`:
without a dry run on the key, its count is the number of jobs between their `ref`
and their `evict`. `EvictBalances` carries that over an eviction, which is where
the assumption that the jobs are finitely many is used. `OnlyStraysLeft` rests on
three facts: a lock is held by a thread (`HeldByThread`); with dry runs too, no
count exceeds the holders (`Bounded`), so it is zero when they are gone; and
cached data belongs to a holder, to a thread about to return it, or to a job that
evicts another key (`Accounted`).

### ReportRecoveryProofs: any requests

| Theorem | States |
|---|---|
| `TypeCorrect` | `Spec => []TypeOK` |
| `OnlyOrphans` | `Spec => []OrphansOnly` |
| `SuccessIsKept` | `Spec => []SuccessKept` |
| `DeletedReturns` | `Spec => []DeletedReturnsFinished` |

The invariant says which threads may have begun for each place
of the job (`Threads`); that an API job's entry exists from before its row until
after its end, and which requests a success may still meet (`Requests`); that a
scheduler which runs jobs has recovered (`Recovered`); and what the row may be
before, during and after the save (`Stored`): until `create_report` commits
nobody completes the row, and while it is between its read and its commit the row
changes only through a deletion or a crossing finaliser. `DeletedReturns` adds
`Sequel` (an init begins on no row, a save follows it, and a process that died
leaves no thread) and `Deletions` (a row that is back was put there by a save which
had read none, and nothing made it active since). The one assumption is
that the requests are not named like the other writers.

### AnalysisGraphProofs: any analysts and rounds, and any chat over Redis

| Theorem | States |
|---|---|
| `TypeCorrect` | `Spec => []TypeOK` |
| `JudgesHearEveryone` | `Spec => []HeardInFull` |
| `RunsAreShort` | `Spec => []RunIsShort` |
| `ClaimViewsAgree` | `Spec => []ClaimsAgree` |
| `ShownIsTrue` | `Spec => []ShownAgrees` |
| `PanelToldTruth` | `ChatSpec => []ToldTruth`, of `ChatStream` |

The edges of the graph look at two things only, how many turns were taken and who
took the last. `InvOrder` and `RiskOrder` say what these mean (who has spoken how
often), `InvProgress` and `RiskProgress` how far the debate is at each node; a
judge's inbox follows by arithmetic. `Drafts` says which draft is on the table and
what was ruled on the former one, hence that there is no third; `StepsCounted`
gives the number of supersteps at each node as a function of drafts and turns,
and `RunIsShort` is its maximum (`CoreIsShort`). `Written` (what was written, a
node that ran has written) is what `ShownHasRun`, `RowIsCurrent` and
`ResultIsRuled`, the three parts of `ShownAgrees`, rest on.

The last section is about `ChatStream`; the module extends both, and the two share
no variable (hence `ChatSpec`, `ChatNext`, `chatVars`). `UnderWay`: no event
published, queued or sent tells another verdict than the job's. `Reached`: there is
no verdict before the job's end, no status in the hash tells another one, and a
refused message held no code. `Said`: nor does the panel, unless it is idle after
its last poll or without an id; a panel that recovers shows "running" until then,
which is why `Said` stays true while polls go on.

### UserRecordsProofs: any number of requests, codes, profiles and days

| Theorem | States |
|---|---|
| `TypeCorrect` | `Spec => []TypeOK` |
| `LimitIsKept` | `Spec => []LimitHolds` |
| `BacktestIsTrue` | `Spec => []BacktestTruth` |
| `AccountsAreKept` | `Spec => AccountsHold` |

Four invariants that do not know of each other. Rows: `LimitHolds` bounds the rows
and the requests that have counted; it is inductive because an insertion is one
such request less (`OneInserted`), a batch being one symbol at a time (`OneKey`).
Codes: whoever holds a code looked up one that was sent, and only the newest is
open, so that a code is consumed no more often than requests had looked it up.
Profiles: every step but the three excepted ones leaves the defaults a subset of
those there were, or at most one (`FewDefaultsDoNotMultiply`); a proof by
cardinality is not needed. Backtest: the fields of the entry follow from where its
thread is, and whether it is `whole` from whether a deletion met the thread.

### SourceFetchProofs: any calls, workers and permits, whatever the vendors answer

| Theorem | States |
|---|---|
| `TypeCorrect` | `Spec => []TypeOK` |
| `ShownIsWhatWasAnswered` | `Spec => []ShownAsAnswered` |
| `PermitsAreKept` | `Spec => []SlotsKept` |
| `PermitsLimit` | never more calls have an unreclaimed permit than there are, nor flagged calls a scheduled one |

`Placed` says where a call can be (only a flagged one waits for a scheduled permit,
only one in the section is registered), `Counted` that the free permits and their
owners add up. `CountedMoves` carries the count over a step that takes one permit,
gives one back or does neither, and the reclaim has its own lemma, since it gives
back as many as it strikes off.

The types rest on `MarketVendors`: `VendorsAnswer` says that every method of every
vendor ends with data, in words or in a raise, whatever its requests bring. `Asked`
says that a call stands at a vendor of its own chain; `Answered`, that a call with
an answer is over, which makes answers final (no step of a call begins at "over");
`Collected`, that what was shown is a time-out or such an answer. These need the
places of the calls: a worker that takes a call finds it queued.

### Only model-checked

Liveness (`HardLimitReleases`, `WorkEnds`, `StreamsEnd`, `EntryFreed`,
`TaskSettles`, `WaitersLeave`, `OrphanSettles`, `PanelSettles`, `FetchSettles`),
which is out of the prover's reach.

## 7. Not modelled, and abstractions made

- Claim and start-up recovery are one transaction each, and so are user edits; a
  concurrent commit between the read and the write of a *recording* is modelled
  (`WritesMayOverlap`), one inside a claim is not.
- Database calls raise or commit; a commit that succeeds and is reported as failed
  is modelled for `create_report` only (its refresh after the commit may raise).
- The API process does not crash in `Scheduler`; in `JobLifecycle` a crash may
  come at any step.
- The finalisers' commits in `ReportRecovery` raise only when the row is gone;
  the job's may raise at any time. The partial updates of content columns change
  neither status nor error. A restart of the API that finds no entry to clear is
  left out: it would only cut requests off. The direct POST of a finished report
  is left out.
- Creating tasks is in the initial state of `Scheduler`; the horizon column and
  notifications change nothing these properties speak of.
- The text the agents exchange, and with it what `process_signal` and the
  extraction of the structured fields make of it; the analysts' prompts are
  mapped only as far as their node functions (who reads which report, who is
  skipped). Claim ids of one reply that the registration of new claims renames
  are numbers here.
- The tables of the vendors, the trading calendar, and the indicators computed
  from prices (`_compute_vpa_indicators`, stockstats); of each only whether it
  has rows, is empty or raises. The tracking board only reads.
- `upsert_user_llm_config` (the single row of older model settings), the demo
  login, the encryption of keys, batch edits of tasks, the feedback service.
- Of the chat panel, everything but its stream, its polls and its run state; of
  the Redis store, its expiry after a day.
- Event contents, report contents, prompts, model answers and market data are
  abstracted to what the control flow tells apart.
- The components with status `not_modelled` in PROJECT.json, with the reason given
  there.
