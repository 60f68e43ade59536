------------------------------ MODULE JobStore ------------------------------
(***************************************************************************)
(* The in-memory job store (api/job_store.py) as the event streams of one *)
(* job see it.                                                             *)
(*                                                                         *)
(* The job's coroutine writes the entry and pushes events; each client of *)
(* GET /v1/jobs/{id}/events runs a subscribe() generator that takes events *)
(* from the queue it found when it began.  The store keeps one queue per   *)
(* job: a generator that ends drops it, the next emission or subscription  *)
(* makes another, so a queue that is no longer the store's can still have  *)
(* a reader.  A client connects once; one that reconnects is another       *)
(* client.                                                                 *)
(***************************************************************************)
EXTENDS Integers, Sequences

CONSTANTS
    Clients,      \* the SSE connections that may be opened
    Origins,      \* where the job may come from
    QueueMaxSize, \* _QUEUE_MAXSIZE, 0 for an unbounded queue
    MaxProgress,  \* bound: no progress or overtime event after so many events
    MaxWorker,    \* bound: how many puts of worker threads wait for the loop
    TtlOvertakes, \* may recording a failure outlast the entry's TTL?
    LateClient    \* may a client connect less than one poll before the TTL?

ASSUME OriginAssumption == Origins \subseteq {"api", "chat", "scheduler"}
ASSUME QueueAssumption == QueueMaxSize \in Nat
ASSUME BoundAssumption == MaxProgress \in Nat /\ MaxWorker \in Nat
ASSUME TimingAssumption == {TtlOvertakes, LateClient} \subseteq BOOLEAN

VARIABLES
    origin,   \* "api", "chat" (streamed before the entry exists) or
              \* "scheduler" (another process: nobody can connect)
    producer, \* where the job's coroutine is
    softLimit,\* ahead; passed; or crossed, while a failure was being recorded
    status,   \* the entry's status
    timer,    \* the TTL timer: off, armed, or less than one poll from firing
    queues,   \* every queue ever made, in the order they were made
    current,  \* the one _job_events holds, 0 if none
    calls,    \* puts a worker thread has handed to the loop
    emitted,  \* how many events were emitted
    client,   \* where each connection is
    queue,    \* the queue its generator holds, 0 before it began
    mustPoll, \* will its poll come before the entry expires?
    received  \* the events each connection was given

jobVars == <<origin, producer, softLimit, status, timer>>
queueVars == <<queues, current, calls, emitted>>
clientVars == <<client, queue, mustPoll, received>>
vars == <<jobVars, queueVars, clientVars>>

TerminalStatus == {"completed", "failed"}
Status == {"absent", "pending", "running"} \cup TerminalStatus
\* A stream was told the verdict, left by its client, or closed by a poll:
\* after the verdict was announced, or cut short before that.
Closed == {"told", "left", "polled", "cutShort"}
\* Closed by the server or the client, the generator not yet finalised.
Closing == {"tellingDone", "leaving"}
Open == {"waiting"} \cup Closing
Event == [no : Nat, terminal : BOOLEAN, by : {"loop", "worker"}]

-----------------------------------------------------------------------------
(* The store's operations.                                                 *)

\* Mutant: a failed job's entry is never scheduled for cleanup.
SetJobOnlyCompleted(s) ==
    /\ status' = s
    /\ timer' = IF s = "completed" THEN "armed" ELSE "off"

\* set_job(status=...): arm the timer of a terminal status, else cancel it.
SetJob(s) ==
    /\ status' = s
    /\ timer' = IF s \in TerminalStatus THEN "armed" ELSE "off"

\* Mutant: nothing bounds the queue.
PutUnbounded(q, e) == Append(q, e)

\* Mutant: a full queue refuses the new event.
PutDropsNew(q, e) ==
    IF QueueMaxSize = 0 \/ Len(q) < QueueMaxSize THEN Append(q, e) ELSE q

\* _put_with_overflow: a full queue loses its oldest event.
PutWithOverflow(q, e) ==
    IF QueueMaxSize = 0 \/ Len(q) < QueueMaxSize THEN Append(q, e)
    ELSE Append(Tail(q), e)

\* _ensure_queue: the queue of the job, a new one if it has none.
EnsuredQueue == IF current = 0 THEN Len(queues) + 1 ELSE current
WithEnsuredQueue ==
    IF EnsuredQueue > Len(queues) THEN Append(queues, <<>>) ELSE queues

\* emit_event on the loop.
Emit(terminal) ==
    LET e == [no |-> emitted + 1, terminal |-> terminal, by |-> "loop"]
    IN /\ current' = EnsuredQueue
       /\ queues' = [WithEnsuredQueue EXCEPT
                       ![EnsuredQueue] = PutWithOverflow(@, e)]
       /\ emitted' = emitted + 1
       /\ UNCHANGED calls

\* The finally clause of subscribe: drop the queue if it is still its own.
DropQueue(c) == current' = IF current = queue[c] THEN 0 ELSE current

-----------------------------------------------------------------------------
(* The job.                                                                *)

\* analyze() and the chat stream once it has found the symbol: the entry,
\* then job.created.  A scheduled run has neither until it is running.
Submit ==
    /\ producer \in {"extracting", "submitting"} /\ origin # "scheduler"
    /\ producer' = "pending"
    /\ SetJob("pending")
    /\ Emit(FALSE)
    /\ UNCHANGED <<origin, softLimit, clientVars>>

Run ==
    /\ \/ producer = "pending"
       \/ producer = "submitting" /\ origin = "scheduler"
    /\ producer' = "running"
    /\ SetJob("running")
    /\ Emit(FALSE)
    /\ UNCHANGED <<origin, softLimit, clientVars>>

\* Tokens of the intent extraction, statuses and reports of the agents.
Progress ==
    /\ producer \in {"extracting", "running"}
    /\ emitted < MaxProgress
    /\ Emit(FALSE)
    /\ UNCHANGED <<jobVars, clientVars>>

Complete ==
    /\ producer = "running"
    /\ producer' = "ended"
    /\ SetJob("completed")
    /\ Emit(TRUE)
    /\ UNCHANGED <<origin, softLimit, clientVars>>

\* The failure of _run_job_inner is in the entry before it is recorded in
\* the database, and announced only after that.
FailEntry ==
    /\ producer = "running"
    /\ producer' = "failing"
    /\ SetJob("failed")
    /\ UNCHANGED <<origin, softLimit, queueVars, clientVars>>

FailEvent ==
    /\ producer = "failing"
    /\ producer' = "ended"
    /\ Emit(TRUE)
    /\ UNCHANGED <<origin, softLimit, status, timer, clientVars>>

\* Where _run_job waits for the work it started; a scheduled run has no entry
\* before it is running.
Working ==
    \/ producer \in {"pending", "running", "failing"}
    \/ producer = "submitting" /\ origin = "scheduler"

\* _run_job's own failure report, at the hard limit or on an exception: entry
\* and event in one step.
FailAtOnce ==
    /\ Working
    /\ producer' = "ended"
    /\ SetJob("failed")
    /\ Emit(TRUE)
    /\ UNCHANGED <<origin, softLimit, clientVars>>

\* Mutant: the notice does not ask whether the work has ended.
SoftDeadlineUnchecked ==
    /\ Working \/ producer = "ended"
    /\ softLimit = "ahead" /\ emitted < MaxProgress
    /\ softLimit' = IF producer = "failing" THEN "crossed" ELSE "passed"
    /\ SetJob("running")
    /\ Emit(FALSE)
    /\ UNCHANGED <<origin, producer, clientVars>>

\* The soft limit: an entry that says so and job.overtime, in one step.  It
\* asks whether the work has ended, never what the entry says: one already
\* "failed" is "running" again, and its TTL timer is gone.
SoftDeadline ==
    /\ Working
    /\ softLimit = "ahead" /\ emitted < MaxProgress
    /\ softLimit' = IF producer = "failing" THEN "crossed" ELSE "passed"
    /\ SetJob("running")
    /\ Emit(FALSE)
    /\ UNCHANGED <<origin, producer, clientVars>>

\* The chat stream found no symbol: job.failed for a job with no entry.
ChatFails ==
    /\ producer = "extracting"
    /\ producer' = "ended"
    /\ Emit(TRUE)
    /\ UNCHANGED <<origin, softLimit, status, timer, clientVars>>

\* emit_event in a worker thread: the queue is chosen now, the put is left
\* to the loop (call_soon_threadsafe).
WorkerEmit ==
    /\ producer = "running"
    /\ Len(calls) < MaxWorker /\ emitted < MaxProgress
    /\ current' = EnsuredQueue
    /\ queues' = WithEnsuredQueue
    /\ emitted' = emitted + 1
    /\ calls' = Append(calls, [queue |-> EnsuredQueue,
                    event |-> [no |-> emitted + 1, terminal |-> FALSE,
                               by |-> "worker"]])
    /\ UNCHANGED <<jobVars, clientVars>>

\* Mutant: the loop runs the newest put first.
RunCallNewestFirst ==
    /\ calls # <<>>
    /\ LET call == calls[Len(calls)]
       IN queues' = [queues EXCEPT
                       ![call.queue] = PutWithOverflow(@, call.event)]
    /\ calls' = SubSeq(calls, 1, Len(calls) - 1)
    /\ UNCHANGED <<jobVars, current, emitted, clientVars>>

RunCall ==
    /\ calls # <<>>
    /\ LET call == Head(calls)
       IN queues' = [queues EXCEPT
                       ![call.queue] = PutWithOverflow(@, call.event)]
    /\ calls' = Tail(calls)
    /\ UNCHANGED <<jobVars, current, emitted, clientVars>>

-----------------------------------------------------------------------------
(* The time to live of a finished entry, and the scheduler's delete_job.   *)

\* Less than one poll interval is left: whoever reads now polls in time.
TtlNears ==
    /\ timer = "armed" /\ (TtlOvertakes \/ producer # "failing")
    /\ timer' = "due"
    /\ mustPoll' = [c \in Clients |-> client[c] \in {"admitted", "waiting"}]
    /\ UNCHANGED <<origin, producer, softLimit, status, queueVars, client, queue,
                   received>>

Expire ==
    /\ timer = "due"
    /\ \A c \in Clients : ~mustPoll[c]
    /\ timer' = "off"
    /\ status' = "absent"
    /\ current' = 0
    /\ UNCHANGED <<origin, producer, softLimit, queues, calls, emitted, clientVars>>

\* The scheduler forgets the job once its result is read.
DeleteJob ==
    /\ origin = "scheduler"
    /\ producer = "ended" /\ status # "absent"
    /\ timer' = "off"
    /\ status' = "absent"
    /\ current' = 0
    /\ UNCHANGED <<origin, producer, softLimit, queues, calls, emitted, clientVars>>

-----------------------------------------------------------------------------
(* The event streams.                                                      *)

Moves(c, to) == client' = [client EXCEPT ![c] = to]
NoLongerPolls(c) == mustPoll' = [mustPoll EXCEPT ![c] = FALSE]

\* The endpoint finds the entry (_require_job_owner).
Admit(c) ==
    /\ client[c] = "new" /\ origin # "scheduler"
    /\ status # "absent" /\ (LateClient \/ timer # "due")
    /\ Moves(c, "admitted")
    /\ UNCHANGED <<jobVars, queueVars, queue, mustPoll, received>>

\* Mutant: every subscription makes a queue of its own.
SubscribeAnew(c) ==
    /\ client[c] = "admitted"
    /\ Moves(c, "waiting")
    /\ queue' = [queue EXCEPT ![c] = Len(queues) + 1]
    /\ current' = Len(queues) + 1
    /\ queues' = Append(queues, <<>>)
    /\ UNCHANGED <<jobVars, calls, emitted, mustPoll, received>>

\* The generator's first step.
Subscribe(c) ==
    /\ client[c] = "admitted"
    /\ Moves(c, "waiting")
    /\ queue' = [queue EXCEPT ![c] = EnsuredQueue]
    /\ current' = EnsuredQueue
    /\ queues' = WithEnsuredQueue
    /\ UNCHANGED <<jobVars, calls, emitted, mustPoll, received>>

\* Mutant: the event is shown but left in the queue.
DeliverPeeks(c) ==
    /\ client[c] = "waiting" /\ queues[queue[c]] # <<>>
    /\ LET e == Head(queues[queue[c]])
       IN /\ Len(received[c]) < MaxProgress + 4
          /\ received' = [received EXCEPT ![c] = Append(@, e)]
          /\ Moves(c, IF e.terminal THEN "tellingDone" ELSE "waiting")
          /\ mustPoll' = [mustPoll EXCEPT ![c] = @ /\ ~e.terminal]
    /\ UNCHANGED <<jobVars, queueVars, queue>>

\* q.get() returns: the event goes out, and a terminal one ends the stream.
\* Its generator is finalised later: _stream_job_events returns without
\* closing it.
Deliver(c) ==
    /\ client[c] = "waiting" /\ queues[queue[c]] # <<>>
    /\ LET e == Head(queues[queue[c]])
       IN /\ received' = [received EXCEPT ![c] = Append(@, e)]
          /\ Moves(c, IF e.terminal THEN "tellingDone" ELSE "waiting")
          /\ mustPoll' = [mustPoll EXCEPT ![c] = @ /\ ~e.terminal]
    /\ queues' = [queues EXCEPT ![queue[c]] = Tail(@)]
    /\ UNCHANGED <<jobVars, current, calls, emitted, queue>>

\* The 15 s run from the event the reader took last: they may be over between
\* any two steps of the job, a failed entry and its announcement included.
PollElapses(c) == client[c] = "waiting" /\ queues[queue[c]] = <<>>

Ended == producer = "ended"

\* A poll interval without an event: a ping while the job is not over.
Ping(c) ==
    /\ PollElapses(c) /\ status \notin TerminalStatus
    /\ NoLongerPolls(c)
    /\ UNCHANGED <<jobVars, queueVars, client, queue, received>>

\* Mutant: the poll ends the stream only of a completed job.
PollEndsCompletedOnly(c) ==
    /\ PollElapses(c) /\ status = "completed"
    /\ Moves(c, IF Ended THEN "polled" ELSE "cutShort")
    /\ DropQueue(c)
    /\ NoLongerPolls(c)
    /\ UNCHANGED <<jobVars, queues, calls, emitted, queue, received>>

\* The poll finds the entry terminal and ends the stream.
PollEnds(c) ==
    /\ PollElapses(c) /\ status \in TerminalStatus
    /\ Moves(c, IF Ended THEN "polled" ELSE "cutShort")
    /\ DropQueue(c)
    /\ NoLongerPolls(c)
    /\ UNCHANGED <<jobVars, queues, calls, emitted, queue, received>>

\* The client goes away.
Disconnect(c) ==
    /\ client[c] \in {"admitted", "waiting"}
    /\ Moves(c, IF client[c] = "waiting" THEN "leaving" ELSE "left")
    /\ NoLongerPolls(c)
    /\ UNCHANGED <<jobVars, queueVars, queue, received>>

\* The generator is closed: its finally clause runs.
Leave(c) ==
    /\ client[c] \in Closing
    /\ Moves(c, IF client[c] = "leaving" THEN "left" ELSE "told")
    /\ DropQueue(c)
    /\ UNCHANGED <<jobVars, queues, calls, emitted, queue, mustPoll, received>>

-----------------------------------------------------------------------------
\* The request that starts a chat job is answered with its first stream.
Init ==
    /\ origin \in Origins
    /\ producer = IF origin = "chat" THEN "extracting" ELSE "submitting"
    /\ softLimit = "ahead" /\ status = "absent" /\ timer = "off"
    /\ queues = <<>> /\ current = 0 /\ calls = <<>> /\ emitted = 0
    /\ IF origin = "chat"
       THEN \E poster \in Clients :
              client = [c \in Clients |->
                          IF c = poster THEN "admitted" ELSE "new"]
       ELSE client = [c \in Clients |-> "new"]
    /\ queue = [c \in Clients |-> 0]
    /\ mustPoll = [c \in Clients |-> FALSE]
    /\ received = [c \in Clients |-> <<>>]

JobStep ==
    \/ Submit \/ Run \/ Progress \/ Complete \/ FailEntry \/ FailEvent
    \/ FailAtOnce \/ SoftDeadline \/ ChatFails \/ WorkerEmit
StoreStep == RunCall \/ TtlNears \/ Expire \/ DeleteJob
ClientStep(c) ==
    \/ Admit(c) \/ Subscribe(c) \/ Deliver(c) \/ Ping(c) \/ PollEnds(c)
    \/ Disconnect(c) \/ Leave(c)

Next == JobStep \/ StoreStep \/ \E c \in Clients : ClientStep(c)

Spec == Init /\ [][Next]_vars

\* The loop runs what is ready: timers fire, a response starts its generator,
\* a woken reader reads, a closed generator is finalised.  The job, the clients
\* and the network owe nothing.
LoopFairness ==
    /\ WF_vars(RunCall) /\ WF_vars(TtlNears) /\ WF_vars(Expire)
    /\ \A c \in Clients : /\ WF_vars(Subscribe(c))
                          /\ WF_vars(Deliver(c)) /\ WF_vars(Leave(c))
                          /\ WF_vars(Ping(c)) /\ WF_vars(PollEnds(c))

LoopSpec == Spec /\ LoopFairness

-----------------------------------------------------------------------------
(* Properties.                                                             *)

\* The types of the variables; a queue in use exists.
TypeOK ==
    /\ producer \in {"extracting", "submitting", "pending", "running",
                     "failing", "ended"}
    /\ softLimit \in {"ahead", "passed", "crossed"}
    /\ status \in Status /\ timer \in {"off", "armed", "due"}
    /\ queues \in Seq(Seq(Event))
    /\ QueueMaxSize > 0 =>
         \A q \in 1..Len(queues) : Len(queues[q]) <= QueueMaxSize
    /\ current \in 0..Len(queues)
    /\ calls \in Seq([queue : 1..Len(queues), event : Event])
    /\ emitted \in Nat
    /\ client \in [Clients -> {"new", "admitted"} \cup Open \cup Closed]
    /\ queue \in [Clients -> 0..Len(queues)]
    /\ \A c \in Clients : client[c] \in Open => queue[c] # 0
    /\ mustPoll \in [Clients -> BOOLEAN]
    /\ received \in [Clients -> Seq(Event)]

\* What the streams of a job are given, taken together, holds each event at
\* most once, and each stream has the events of one emitter in the order
\* they were emitted, however the queue overflowed or was replaced.
OrderedOnce ==
    /\ \A c \in Clients : \A i, j \in 1..Len(received[c]) :
         i < j /\ received[c][i].by = received[c][j].by
            => received[c][i].no < received[c][j].no
    /\ \A c, d \in Clients :
         \A i \in 1..Len(received[c]), j \in 1..Len(received[d]) :
           received[c][i].no = received[d][j].no => c = d /\ i = j

\* A poll cuts a stream short only of a job that fails, never of one that
\* completes.  And while no client has gone away and no stream was cut short,
\* one that a poll closes after the verdict's announcement means that some
\* stream was given the verdict: the poll does not stand in for an event that
\* nobody received.  Only the put of a worker thread that the loop runs after
\* the verdict's may push it out of a full queue.
LateWorkerPut ==
    \E c \in Clients : received[c] # <<>>
                         /\ received[c][Len(received[c])].by = "worker"
SomeoneTold ==
    /\ (\E c \in Clients : client[c] = "cutShort") =>
           producer \in {"failing", "ended"} /\ status # "completed"
    /\ /\ \E c \in Clients : client[c] = "polled"
       /\ \A c \in Clients : client[c] \notin {"leaving", "left", "cutShort"}
       /\ ~LateWorkerPut
       => \E c \in Clients : client[c] \in {"tellingDone", "told"}

\* A reader loses the job's queue only to a client that shared that very
\* queue and has ended, never to one that begins or held an older queue.
LostOnlyToSharer ==
    \A c \in Clients :
       client[c] = "waiting" /\ queue[c] # current /\ status # "absent"
       => \E d \in Clients \ {c} : queue[d] = queue[c] /\ client[d] \in Closed

\* The events of queues qs and of puts cs that wait for the loop.
Carrying(qs, cs) ==
    (UNION {{qs[q][i] : i \in 1..Len(qs[q])} : q \in 1..Len(qs)})
       \cup {cs[k].event : k \in 1..Len(cs)}

\* What a connection is to its client.
StreamOf(place) ==
    CASE place \in {"new", "admitted"} -> "before"
      [] place = "waiting" -> "open"
      [] place \in {"tellingDone", "told"} -> "told"
      [] place \in {"leaving", "left"} -> "left"
      [] place = "polled" -> "polled"
      [] place = "cutShort" -> "cut"

\* How far the job's verdict is.
Decision ==
    CASE Ended -> "announced"
      [] producer = "failing" -> "failing"
      [] OTHER -> "open"

\* What is still to be given, and to whom.
Pending == Carrying(queues, calls)
Stream == [c \in Clients |-> StreamOf(client[c])]

Promise == INSTANCE StreamPromise WITH
    decision <- Decision, pending <- Pending, stream <- Stream

\* The streams over queues, an entry and a timer implement StreamPromise: each
\* event to one stream at most, in order, nothing after the verdict or after
\* the stream ended, and no stream closed by a poll before the verdict was
\* announced and taken, but for one cut short while the failure was being
\* recorded, and whoever reads after it (job_store.py, _stream_job_events).
KeepsStreamPromise == Promise!Spec

\* The soft limit fell between a failed entry and its announcement, and the
\* entry of a job that has ended says for good that it is running.
Reopened == softLimit = "crossed" /\ status = "running"

\* Nothing in the queue of this reader can end its stream.
NoVerdictLeft(c) ==
    \A i \in 1..Len(queues[queue[c]]) : ~queues[queue[c]][i].terminal

\* Once the job is over, every stream still open is closed.  Only the reader
\* who missed the verdict of a job whose entry was reopened is pinged for ever.
StreamsEnd ==
    \A c \in Clients :
       client[c] = "waiting" /\ Ended
          ~> client[c] # "waiting" \/ (Reopened /\ NoVerdictLeft(c))

\* Once the job is over, its entry is freed, unless the soft limit reopened it:
\* then no timer is left to do it.
EntryFreed == Ended ~> status = "absent" \/ Reopened
=============================================================================
