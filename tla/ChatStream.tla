------------------------------ MODULE ChatStream ------------------------------
(***************************************************************************)
(* A chat request from the browser to its verdict when the job store is    *)
(* Redis: the request's job (chat_completions), the hash and the Pub/Sub   *)
(* channel of RedisJobStore, the stream that relays the channel, and the   *)
(* panel that reads it and, when the stream breaks, asks for the job's     *)
(* status until it has an answer or gives up (ChatCopilotPanel.tsx).       *)
(*                                                                         *)
(* Pub/Sub keeps nothing: an event published before the listener thread    *)
(* has subscribed, or after it died, is lost.  The hash is shared by all   *)
(* processes, and every API process clears the store when it starts.       *)
(* JobStore models the in-memory store, JobLifecycle what a job does       *)
(* before its verdict.                                                     *)
(***************************************************************************)
EXTENDS Integers, Sequences

CONSTANTS
    MaxPolls,     \* RECOVERY_POLL_MAX_ATTEMPTS
    MaxProgress   \* bound: agent events of the job

ASSUME PollsAssumption == MaxPolls \in Nat /\ MaxProgress \in Nat

VARIABLES
    message,    \* what the text of the request offers to the symbol parser
    job,        \* where _extract_and_run is
    verdict,    \* how the job ended, and with which kind of error text
    told,       \* agent events published so far
    entry,      \* the job's hash: its status, and has it all its fields?
    listener,   \* the listener thread: "starting", "on" or "gone"
    sock,       \* published to the listener, not read by it yet
    queue,      \* the queue between listener and stream
    srv,        \* the stream: "open", "ended" or "cut"
    wire,       \* sent to the browser, not read yet
    panel       \* the browser: what it does and what it shows

jobVars == <<message, job, verdict, told, entry>>
storeVars == <<listener, sock, queue>>
chatVars == <<jobVars, storeVars, srv, wire, panel>>

Verdicts == {"completed", "failed", "legacy"}
Event == Verdicts \cup {"ready", "created", "running", "overtime", "agent", "done"}
Absent == [status |-> "absent", whole |-> FALSE]

-----------------------------------------------------------------------------
(* The stock a message asks for (_ai_extract_symbol_and_date_streaming).   *)

\* A clear code in the text; the name of a listed stock in the text.
Message == [code : BOOLEAN, listed : BOOLEAN]
\* The model's answer: none (or the call raises), a code, a listed name, a name
\* with latin letters or six digits in it, any other name.
ParserReply == {"none", "code", "listed", "latin", "other"}

\* Mutant: the code in the text is used only when the model answers nothing.
RecognisedOnce(m, reply) ==
    \/ reply = "none" /\ (m.code \/ m.listed)
    \/ reply \in {"code", "listed", "latin"}

Recognised(m, reply) ==
    \/ reply = "none" /\ (m.code \/ m.listed)
    \/ reply \in {"code", "listed", "latin"}
    \/ reply = "other" /\ m.code

-----------------------------------------------------------------------------
(* The job and the store.                                                  *)

\* set_job merges: a hash that was deleted comes back with these fields only.
SetJob(status) == entry' = [entry EXCEPT !.status = status]

\* publish: heard by the listener if it is subscribed, and by nobody else.
Emit(e) == sock' = IF listener = "on" THEN Append(sock, e) ELSE sock

\* No stock recognised, or something raised before set_job: the job fails
\* without ever having had an entry.
FailUnentered ==
    /\ job = "extract"
    /\ \E reply \in ParserReply, raises \in BOOLEAN :
          /\ raises \/ ~Recognised(message, reply)
          /\ verdict' = IF raises THEN "failed" ELSE "refused"
    /\ job' = "over"
    /\ Emit("failed")
    /\ UNCHANGED <<message, told, entry, listener, queue, srv, wire, panel>>

Create ==
    /\ job = "extract"
    /\ \E reply \in ParserReply : Recognised(message, reply)
    /\ entry' = [status |-> "pending", whole |-> TRUE]
    /\ job' = "created"
    /\ Emit("created")
    /\ UNCHANGED <<message, verdict, told, listener, queue, srv, wire, panel>>

Start ==
    /\ job = "created"
    /\ SetJob("running")
    /\ job' = "running"
    /\ Emit("running")
    /\ UNCHANGED <<message, verdict, told, listener, queue, srv, wire, panel>>

\* An agent's event; the tokens of the symbol parser come before the entry.
Progress ==
    /\ job \in {"extract", "running", "late"}
    /\ told < MaxProgress
    /\ told' = told + 1
    /\ Emit("agent")
    /\ UNCHANGED <<message, job, verdict, entry, listener, queue, srv, wire,
                   panel>>

Overtime ==
    /\ job = "running"
    /\ SetJob("running")
    /\ job' = "late"
    /\ Emit("overtime")
    /\ UNCHANGED <<message, verdict, told, listener, queue, srv, wire, panel>>

\* The status is set first, the event follows.
Finish ==
    /\ job \in {"running", "late"}
    /\ \E v \in Verdicts :
          /\ verdict' = v
          /\ SetJob(IF v = "completed" THEN "completed" ELSE "failed")
    /\ job' = "announce"
    /\ UNCHANGED <<message, told, storeVars, srv, wire, panel>>

Announce ==
    /\ job = "announce"
    /\ job' = "over"
    /\ Emit(verdict)
    /\ UNCHANGED <<message, verdict, told, entry, listener, queue, srv, wire,
                   panel>>

\* Another API process that shares the store starts, and clears it (lifespan;
\* the scheduler process never calls clear).
OtherStarts ==
    /\ entry # Absent
    /\ entry' = Absent
    /\ UNCHANGED <<message, job, verdict, told, storeVars, srv, wire, panel>>

\* The process of this job dies with its streams, and clears the store when
\* it is up again.
Restart ==
    /\ job # "over" \/ srv = "open"
    /\ job' = "over"
    /\ entry' = Absent
    /\ srv' = IF srv = "open" THEN "cut" ELSE srv
    /\ listener' = "gone"
    /\ UNCHANGED <<message, verdict, told, sock, queue, wire, panel>>

-----------------------------------------------------------------------------
(* subscribe() and _stream_job_events.                                     *)

Subscribe ==
    /\ listener = "starting" /\ srv = "open"
    /\ listener' = "on"
    /\ UNCHANGED <<jobVars, sock, queue, srv, wire, panel>>

\* get_message raises: the thread logs it and exits, the stream stays.
ListenerDies ==
    /\ listener = "on"
    /\ listener' = "gone"
    /\ sock' = <<>>
    /\ UNCHANGED <<jobVars, queue, srv, wire, panel>>

Pump ==
    /\ listener = "on" /\ sock # <<>> /\ srv = "open"
    /\ queue' = Append(queue, Head(sock))
    /\ sock' = Tail(sock)
    /\ UNCHANGED <<jobVars, listener, srv, wire, panel>>

\* A verdict ends the stream, with "done" behind it.
Relay ==
    /\ srv = "open" /\ queue # <<>>
    /\ queue' = Tail(queue)
    /\ IF Head(queue) \in Verdicts
       THEN /\ wire' = wire \o <<Head(queue), "done">>
            /\ srv' = "ended"
            /\ listener' = "gone"
       ELSE /\ wire' = Append(wire, Head(queue))
            /\ UNCHANGED <<srv, listener>>
    /\ UNCHANGED <<jobVars, sock, panel>>

\* Mutant: only a completed job ends the stream.
PollEndsCompletedOnly ==
    /\ srv = "open" /\ queue = <<>>
    /\ entry.status = "completed"
    /\ srv' = "ended"
    /\ listener' = "gone"
    /\ UNCHANGED <<jobVars, sock, queue, wire, panel>>

\* 15 s without an event: the stream of a job that is over ends, without its
\* verdict; any other stream sends a ping, which the browser ignores.
PollEnds ==
    /\ srv = "open" /\ queue = <<>>
    /\ entry.status \in {"completed", "failed"}
    /\ srv' = "ended"
    /\ listener' = "gone"
    /\ UNCHANGED <<jobVars, sock, queue, wire, panel>>

\* The connection breaks; the stream's finally clause stops the listener.
Cut ==
    /\ srv = "open" \/ (srv = "ended" /\ wire # <<>>)
    /\ srv' = "cut"
    /\ wire' = <<>>
    /\ listener' = "gone"
    /\ UNCHANGED <<jobVars, sock, queue, panel>>

-----------------------------------------------------------------------------
(* The panel: handleSubmit, streamChat and recoverInterruptedJob.          *)

Shows(run, analyzing) ==
    panel' = [panel EXCEPT !.run = run, !.analyzing = analyzing]

\* Leaves the stream or the polls with this shown.
Settles(run) ==
    panel' = [panel EXCEPT !.run = run, !.analyzing = FALSE, !.mode = "idle"]

\* recoverInterruptedJob up to its loop; an aborted one does nothing more.
Recovers ==
    panel' = [panel EXCEPT !.run = "running", !.analyzing = TRUE,
                  !.mode = IF panel.mounted THEN "recovering" ELSE "idle"]

\* An error text as older servers wrote it stands for a job that still runs.
Dispatch(e) ==
    CASE e \in {"ready", "created"} -> panel' = [panel EXCEPT !.jobId = TRUE]
      [] e \in {"running", "overtime", "legacy"} -> Shows("running", TRUE)
      [] e \in {"completed", "failed"} ->
            panel' = [panel EXCEPT !.run = e, !.analyzing = FALSE,
                                   !.terminal = TRUE]
      [] e = "agent" -> UNCHANGED panel

Read ==
    /\ panel.mode = "streaming"
    /\ wire # <<>> /\ Head(wire) # "done"
    /\ Dispatch(Head(wire))
    /\ wire' = Tail(wire)
    /\ UNCHANGED <<jobVars, storeVars, srv>>

\* "done", or the end of the body: without a verdict the panel asks for the
\* job's status, if it knows which job to ask for.
StreamOver ==
    /\ panel.mode = "streaming"
    /\ \/ wire # <<>> /\ Head(wire) = "done"
       \/ wire = <<>> /\ srv \in {"ended", "cut"}
    /\ IF panel.terminal THEN panel' = [panel EXCEPT !.mode = "idle"]
       ELSE IF panel.jobId THEN Recovers
       ELSE IF panel.mounted THEN Settles("failed")
       ELSE panel' = [panel EXCEPT !.mode = "idle"]
    /\ wire' = <<>>
    /\ UNCHANGED <<jobVars, storeVars, srv>>

\* fetch or read() raises: whatever was read so far, the panel asks again.
StreamRaises ==
    /\ panel.mode = "streaming"
    /\ wire = <<>> /\ srv = "cut"
    /\ IF panel.jobId THEN Recovers ELSE Settles("failed")
    /\ UNCHANGED <<jobVars, storeVars, srv, wire>>

LimitReached == panel.polls >= MaxPolls

\* Mutant: a job that is not completed has failed.
AnswerHasty ==
    IF ~entry.whole THEN "none"
    ELSE IF entry.status = "completed" THEN "completed" ELSE "failed"

\* classifyRecoveredJobStatus of an answer; a hash that lost its fields makes
\* the endpoint fail, a deleted one is not found.
Answer ==
    IF ~entry.whole THEN "none"
    ELSE IF entry.status = "completed" THEN "completed"
    ELSE IF entry.status = "failed" /\ verdict # "legacy" THEN "failed"
    ELSE "running"

\* One request of the loop that decides nothing: it failed, was not found, or
\* the job runs.
PollAgain ==
    /\ panel.mode = "recovering" /\ ~LimitReached
    /\ panel' = [panel EXCEPT !.polls = @ + 1]
    /\ UNCHANGED <<jobVars, storeVars, srv, wire>>

PollDecides ==
    /\ panel.mode = "recovering" /\ ~LimitReached
    /\ Answer \in {"completed", "failed"}
    /\ Settles(Answer)
    /\ UNCHANGED <<jobVars, storeVars, srv, wire>>

GiveUp ==
    /\ panel.mode = "recovering" /\ LimitReached
    /\ Settles("failed")
    /\ UNCHANGED <<jobVars, storeVars, srv, wire>>

\* The user goes to another page: polling stops, reading does not.
Unmount ==
    /\ panel.mounted /\ panel.mode # "idle"
    /\ panel' = [panel EXCEPT !.mounted = FALSE,
                     !.mode = IF @ = "recovering" THEN "idle" ELSE @]
    /\ UNCHANGED <<jobVars, storeVars, srv, wire>>

-----------------------------------------------------------------------------
\* The request was answered: job.ready is on its way, the job's task and the
\* stream have started, the listener thread is starting.
ChatInit ==
    /\ message \in Message
    /\ job = "extract"
    /\ verdict = "none"
    /\ told = 0
    /\ entry = Absent
    /\ listener = "starting"
    /\ sock = <<>> /\ queue = <<>>
    /\ srv = "open"
    /\ wire = <<"ready">>
    /\ panel = [mode |-> "streaming", mounted |-> TRUE, jobId |-> FALSE,
                analyzing |-> TRUE, run |-> "running", terminal |-> FALSE,
                polls |-> 0]

JobStep ==
    \/ FailUnentered \/ Create \/ Start \/ Progress \/ Overtime \/ Finish
    \/ Announce
StreamStep == Subscribe \/ Pump \/ Relay \/ PollEnds
PanelStep ==
    Read \/ StreamOver \/ StreamRaises \/ PollAgain \/ PollDecides \/ GiveUp
Fault == OtherStarts \/ Restart \/ ListenerDies \/ Cut \/ Unmount

ChatNext == JobStep \/ StreamStep \/ PanelStep \/ Fault

Fairness == WF_chatVars(JobStep) /\ WF_chatVars(StreamStep) /\ WF_chatVars(PanelStep)

ChatSpec == ChatInit /\ [][ChatNext]_chatVars
ChatFairSpec == ChatSpec /\ Fairness

-----------------------------------------------------------------------------
(* Properties.                                                             *)

\* Every variable stays in its range; the panel never asks more often than
\* its limit says.
ChatTypeOK ==
    /\ message \in Message
    /\ job \in {"extract", "created", "running", "late", "announce", "over"}
    /\ verdict \in Verdicts \cup {"none", "refused"}
    /\ told \in 0..MaxProgress
    /\ entry \in [status : {"absent", "pending", "running", "completed", "failed"},
                  whole : BOOLEAN]
    /\ listener \in {"starting", "on", "gone"}
    /\ sock \in Seq(Event) /\ queue \in Seq(Event) /\ wire \in Seq(Event)
    /\ srv \in {"open", "ended", "cut"}
    /\ panel \in [mode : {"streaming", "recovering", "idle"}, mounted : BOOLEAN,
                  jobId : BOOLEAN, analyzing : BOOLEAN,
                  run : {"running", "completed", "failed"}, terminal : BOOLEAN,
                  polls : 0..MaxPolls]

\* What the panel shows happened: a result only of a job that completed, a
\* failure only of a job that failed, or after the panel has used up its
\* requests or never learnt whom to ask; and no message that holds a clear
\* code is refused (the comment above the regular expression promises that).
ToldTruth ==
    /\ panel.run = "completed" => verdict = "completed"
    /\ panel.run = "failed" =>
           \/ verdict \in {"failed", "refused"}
           \/ LimitReached
           \/ ~panel.jobId
    /\ verdict = "refused" => ~message.code

\* The stream pings for ever: the job is over, its verdict was lost (a stream
\* that relays one ends, and none is on its way to this one any more), and the
\* hash does not say how the job ended.
Deaf ==
    /\ job = "over" /\ srv = "open" /\ sock = <<>> /\ queue = <<>>
    /\ entry.status \notin {"completed", "failed"}

\* The user left while the panel had no verdict: nobody asks any more, and the
\* store goes on saying "analyzing", which blocks the next request.
LeftAnalyzing == ~panel.mounted /\ panel.mode = "idle" /\ panel.analyzing

\* Whatever is lost, cut or restarted, the browser comes to an end with the
\* request, and with its stream: it shows a verdict, or it is one of the two
\* cases above.
PanelSettles ==
    panel.mode = "streaming" ~>
        \/ panel.mode = "idle" /\ panel.run \in {"completed", "failed"}
        \/ Deaf \/ LeftAnalyzing
=============================================================================
