------------------------- MODULE JobLifecycleProofs -------------------------
(***************************************************************************)
(* What JobLifecycle guarantees for every deadline, origin, route and      *)
(* fault: at most one verdict, announced last and before _run_job returns, *)
(* no "completed" without a stored report, an entry, a scheduler's verdict *)
(* and a row that agree with what was announced and stay so, and the       *)
(* refinement of JobPromise.                                               *)
(***************************************************************************)
EXTENDS JobLifecycle, TLAPS

Silent == \A i \in 1..Len(emitted) : emitted[i] \notin TerminalEvent

\* Where the inner task can be for each place of the wrapper: whoever is about
\* to emit a terminal event, the other one cannot have emitted it.
Control ==
    /\ wrapper \in {"idle", "starting"} => inner = "none"
    /\ inner = "none" => wrapper \in {"idle", "starting", "cancelled"}
    /\ wrapper = "returned" => inner \in InnerEnded \cup {"dead"}
    /\ wrapper = "cancelled" /\ inner \in InnerAwaits => cancelling
    /\ wrapper = "cancelWait" => cancelling \/ inner = "cancelled"
    /\ cancelling => inner \in InnerAwaits
    /\ inner = "dead" => wrapper \in {"returned", "cancelled", "dead"}
    /\ wrapper = "dead" => inner = "dead"

Undecided ==
    /\ wrapper \notin {"returned", "cancelled", "dead"}
    /\ inner # "returned"

Log ==
    /\ TerminalLast
    /\ Undecided => Silent
    /\ wrapper = "returned" \/ inner = "returned" =>
           \E event \in TerminalEvent : Announced(event)

\* A save call that has committed has set the history variable.
Stored ==
    /\ thread.op = "save" /\ thread.phase \in {"committed", "done"} => saved
    /\ CompletedMeansSaved

-----------------------------------------------------------------------------
(* What the records say, beyond the verdict.                               *)

\* A task that has ended leaves no call of its own behind, unless it was
\* cancelled.
Released == inner \in {"returned", "raised", "dead"} => thread = NoCall

\* The entry and the log for each place of the inner task: no verdict before
\* it is due, and "completed" only by way of a graph that has run.
Progress ==
    /\ inner \in {"none", "created", "init", "analysing", "extract", "saving"}
           => job.status \notin TerminalStatus
    /\ inner \in {"failing", "cancelled", "raised"} /\ wrapper # "returned"
           => job.status # "completed"
    /\ inner \notin {"returned", "dead"} => ~Announced("job.completed")
    /\ Route = "intent"
       /\ (inner \in {"extract", "saving"} \/ Announced("job.completed"))
           => graph \in {"finished", "skipped"}

EntryTold ==
    /\ job.status \in TerminalStatus
    /\ Announced(IF job.status = "completed" THEN "job.completed" ELSE "job.failed")

\* Without a soft limit nothing overwrites a terminal status, and without an
\* early TTL the status is still there when the scheduler reads it.
Settled == SoftTimeout = 0 =>
    /\ wrapper # "softWait"
    /\ inner = "failing" => job.status \in {"failed", "absent"}
    /\ inner = "returned" \/ wrapper = "returned" =>
           job.status = "absent" \/ EntryTold
    /\ ~setup.ttlOvertakes =>
           /\ wrapper \in Waiting /\ inner \in {"failing", "returned"} =>
                  job.status # "absent"
           /\ verdict = "success" => saved

\* The row of a job that completes: written by its save, and by nothing after.
Finalised ==
    /\ inner = "saving" /\ thread.op = "save"
       /\ thread.phase \in {"committed", "done"} => report = "completed"
    /\ inner = "returned" \/ (wrapper = "returned" /\ inner # "cancelled") =>
           (Announced("job.completed") /\ graph # "skipped" =>
                report = "completed")

Records == Released /\ Progress /\ Settled /\ Finalised

IInv == TypeOK /\ Control /\ Log /\ Stored /\ Records

-----------------------------------------------------------------------------
(* Sequences of events.                                                    *)

\* What appending an event to the log does to its length and its elements.
LEMMA AppendFacts ==
    ASSUME NEW s \in Seq(Event), NEW e \in Event
    PROVE /\ Append(s, e) \in Seq(Event)
          /\ Append(s, e) # <<>>
          /\ Len(Append(s, e)) = Len(s) + 1
          /\ Len(s) \in Nat
          /\ Append(s, e)[Len(s) + 1] = e
          /\ \A i \in 1..Len(s) : Append(s, e)[i] = s[i]
OBVIOUS

\* The strings emitted are events, and which of them are terminal.
LEMMA EventFacts ==
    /\ {"job.created", "job.running", "job.overtime", "job.completed",
         "job.failed"} = Event
    /\ TerminalEvent \subseteq Event
    /\ "job.created" \notin TerminalEvent
    /\ "job.running" \notin TerminalEvent
    /\ "job.overtime" \notin TerminalEvent
    /\ TerminalEvent = {"job.completed", "job.failed"}
BY DEF Event, TerminalEvent

-----------------------------------------------------------------------------
(* Types.                                                                  *)

ControlType ==
    /\ wrapper \in Waiting \cup {"idle", "starting", "cancelWait", "returned",
                                  "cancelled", "dead"}
    /\ inner \in InnerAwaits \cup InnerEnded \cup {"none", "dead"}
    /\ cancelling \in BOOLEAN
    /\ thread \in [op : {"none", "init", "save", "record"},
                   phase : {"idle", "queued", "running", "inserted",
                            "configuring", "committed", "done", "raised"}]

StoreType ==
    /\ job \in [status : Status, overtime : BOOLEAN]
    /\ timer \in BOOLEAN
    /\ report \in Status
    /\ emitted \in Seq(Event)
    /\ saved \in BOOLEAN
    /\ graph \in {"unfinished", "finished", "broken", "skipped"}
    /\ verdict \in {"none", "success", "failed"}

\* What set_job and emit_event leave in the store.
LEMMA SetJobType ==
    ASSUME NEW st \in Status, NEW late \in BOOLEAN, SetJob(st, late)
    PROVE /\ job' \in [status : Status, overtime : BOOLEAN]
          /\ timer' \in BOOLEAN
BY DEF SetJob

LEMMA EmitType ==
    ASSUME emitted \in Seq(Event), NEW e \in Event, Emit(e)
    PROVE emitted' \in Seq(Event)
BY AppendFacts DEF Emit

\* Every step of every actor keeps the variables in their ranges.
LEMMA TypeStep == ASSUME TypeOK, [Next]_vars PROVE TypeOK'
<1>0. setup' = setup
  BY DEF Next, vars
<1> USE <1>0, EventFacts, AppendFacts DEF TypeOK
<1>1. ASSUME Submit PROVE TypeOK'
  <2>1. ControlType'
    BY <1>1 DEF Submit, SetJob, Emit, history, Status, Waiting, InnerEnded,
        InnerAwaits, TerminalStatus, ControlType
  <2>2. CASE Origin = "api"
    <3>1. SetJob("pending", FALSE) /\ Emit("job.created")
      BY <1>1, <2>2 DEF Submit
    <3>2. "pending" \in Status /\ FALSE \in BOOLEAN
      BY DEF Status
    <3>3. job' \in [status : Status, overtime : BOOLEAN] /\ timer' \in BOOLEAN
      BY <3>1, <3>2, SetJobType
    <3>4. emitted' \in Seq(Event)
      BY <3>1, EmitType
    <3>5. UNCHANGED <<report, saved, graph, verdict>>
      BY <1>1 DEF Submit, history
    <3> QED  BY <2>1, <3>3, <3>4, <3>5 DEF ControlType
  <2>3. CASE ~(Origin = "api")
    <3>1. StoreType'
      BY <1>1, <2>3 DEF Submit, SetJob, Emit, history, Status, Waiting,
          InnerEnded, InnerAwaits, TerminalStatus, StoreType
    <3> QED  BY <2>1, <3>1 DEF ControlType, StoreType
  <2> QED  BY <2>2, <2>3
<1>2. ASSUME StartWrapper PROVE TypeOK'
  BY <1>2 DEF StartWrapper, entryVars, history, Status, Waiting, InnerEnded,
      InnerAwaits
<1>3. ASSUME SoftDeadline PROVE TypeOK'
  <2>1. ControlType'
    BY <1>3 DEF SoftDeadline, SetJob, Emit, history, Status, Waiting,
        InnerEnded, InnerAwaits, TerminalStatus, ControlType
  <2>2. CASE NoticeDue
    <3>1. SetJob("running", TRUE) /\ Emit("job.overtime")
      BY <1>3, <2>2 DEF SoftDeadline
    <3>2. "running" \in Status /\ TRUE \in BOOLEAN
      BY DEF Status
    <3>3. job' \in [status : Status, overtime : BOOLEAN] /\ timer' \in BOOLEAN
      BY <3>1, <3>2, SetJobType
    <3>4. emitted' \in Seq(Event)
      BY <3>1, EmitType
    <3>5. UNCHANGED <<report, saved, graph, verdict>>
      BY <1>3 DEF SoftDeadline, history
    <3> QED  BY <2>1, <3>3, <3>4, <3>5 DEF ControlType
  <2>3. CASE ~(NoticeDue)
    <3>1. StoreType'
      BY <1>3, <2>3 DEF SoftDeadline, SetJob, Emit, history, Status,
          Waiting, InnerEnded, InnerAwaits, TerminalStatus, StoreType
    <3> QED  BY <2>1, <3>1 DEF ControlType, StoreType
  <2> QED  BY <2>2, <2>3
<1>4. ASSUME HardDeadline PROVE TypeOK'
  BY <1>4 DEF HardDeadline, entryVars, history, Status, Waiting, InnerEnded,
      InnerAwaits
<1>5. ASSUME HardFail PROVE TypeOK'
  BY <1>5 DEF HardFail, WrapperFails, SetJob, MarkReportFailed, UpdateReport,
      Emit, Conclude, concludeRest, Status, Waiting, InnerEnded, InnerAwaits,
      TerminalStatus
<1>6. ASSUME Join PROVE TypeOK'
  BY <1>6 DEF Join, Conclude, entryVars, concludeRest, Status, Waiting,
      InnerEnded, InnerAwaits
<1>7. ASSUME JoinRaised PROVE TypeOK'
  BY <1>7 DEF JoinRaised, WrapperFails, SetJob, MarkReportFailed,
      UpdateReport, Emit, Conclude, concludeRest, Status, Waiting,
      InnerEnded, InnerAwaits, TerminalStatus
<1>8. ASSUME JoinCancelled PROVE TypeOK'
  BY <1>8 DEF JoinCancelled, entryVars, history, Status, Waiting, InnerEnded,
      InnerAwaits
<1>9. ASSUME InnerStart PROVE TypeOK'
  BY <1>9 DEF InnerStart, Resumes, Await, Queued, entryVars, deadlineVars,
      history, Status, Waiting, InnerEnded, InnerAwaits
<1>10. ASSUME InitDone PROVE TypeOK'
  <2>1. ControlType'
    BY <1>10 DEF InitDone, Resumes, CallReturned, SetJob, Emit, Await,
        NoCall, deadlineVars, history, Status, Waiting, InnerEnded,
        InnerAwaits, TerminalStatus, ControlType
  <2>2. StoreType'
    BY <1>10 DEF InitDone, Resumes, CallReturned, SetJob, Emit, Await,
        NoCall, deadlineVars, history, Status, Waiting, InnerEnded,
        InnerAwaits, TerminalStatus, StoreType
  <2> QED  BY <2>1, <2>2 DEF ControlType, StoreType
<1>10d. ASSUME AnswerDryRun PROVE TypeOK'
  <2>1. ControlType'
    BY <1>10d DEF AnswerDryRun, Resumes, NoCall, deadlineVars, Waiting,
        InnerEnded, InnerAwaits, ControlType
  <2>2. /\ SetJob("completed", FALSE)
        /\ emitted' = Append(Append(emitted, "job.running"), "job.completed")
    BY <1>10d DEF AnswerDryRun
  <2>3. "completed" \in Status /\ FALSE \in BOOLEAN
    BY DEF Status
  <2>4. job' \in [status : Status, overtime : BOOLEAN] /\ timer' \in BOOLEAN
    BY <2>2, <2>3, SetJobType
  <2>5. emitted' \in Seq(Event)
    <3>1. Append(emitted, "job.running") \in Seq(Event)
      OBVIOUS
    <3> QED  BY <2>2, <3>1
  <2>6. /\ UNCHANGED <<report, verdict>>
        /\ saved' = TRUE /\ graph' = "skipped"
    BY <1>10d DEF AnswerDryRun
  <2> QED  BY <2>1, <2>4, <2>5, <2>6 DEF ControlType
<1>11. ASSUME InitRaised PROVE TypeOK'
  BY <1>11 DEF InitRaised, Resumes, CallRaised, NoCall, entryVars,
      deadlineVars, history, Status, Waiting, InnerEnded, InnerAwaits
<1>12. ASSUME GraphDone PROVE TypeOK'
  BY <1>12 DEF GraphDone, Resumes, Await, NoCall, entryVars, deadlineVars,
      Status, Waiting, InnerEnded, InnerAwaits
<1>13. ASSUME GraphRaised PROVE TypeOK'
  BY <1>13 DEF GraphRaised, Resumes, EnterFailing, SetJob, Await, Queued,
      deadlineVars, Status, Waiting, InnerEnded, InnerAwaits, TerminalStatus
<1>14. ASSUME GraphSwallowed PROVE TypeOK'
  BY <1>14 DEF GraphSwallowed, Resumes, Await, NoCall, entryVars,
      deadlineVars, Status, Waiting, InnerEnded, InnerAwaits
<1>15. ASSUME ExtractDone PROVE TypeOK'
  BY <1>15 DEF ExtractDone, Resumes, Await, Queued, entryVars, deadlineVars,
      history, Status, Waiting, InnerEnded, InnerAwaits
<1>16. ASSUME ExtractRaised PROVE TypeOK'
  BY <1>16 DEF ExtractRaised, Resumes, EnterFailing, SetJob, Await, Queued,
      deadlineVars, history, Status, Waiting, InnerEnded, InnerAwaits,
      TerminalStatus
<1>17. ASSUME SaveDone PROVE TypeOK'
  BY <1>17 DEF SaveDone, Resumes, CallReturned, SetJob, Emit, NoCall,
      deadlineVars, history, Status, Waiting, InnerEnded, InnerAwaits,
      TerminalStatus
<1>18. ASSUME SaveRaised PROVE TypeOK'
  BY <1>18 DEF SaveRaised, Resumes, CallRaised, EnterFailing, SetJob, Await,
      Queued, deadlineVars, history, Status, Waiting, InnerEnded,
      InnerAwaits, TerminalStatus
<1>19. ASSUME FailureRecorded PROVE TypeOK'
  BY <1>19 DEF FailureRecorded, Resumes, CallReturned, CallRaised, Emit,
      NoCall, entryVars, deadlineVars, history, Status, Waiting, InnerEnded,
      InnerAwaits
<1>20. ASSUME InnerCancelled PROVE TypeOK'
  <2>1. ControlType'
    BY <1>20 DEF InnerCancelled, NoCall, entryVars, history, Status,
        Waiting, InnerEnded, InnerAwaits, ControlType
  <2>2. StoreType'
    BY <1>20 DEF InnerCancelled, NoCall, entryVars, history, Status,
        Waiting, InnerEnded, InnerAwaits, StoreType
  <2> QED  BY <2>1, <2>2 DEF ControlType, StoreType
<1>21. ASSUME ThreadBegins PROVE TypeOK'
  BY <1>21 DEF ThreadBegins, Advance, threadRest, entryVars, deadlineVars,
      Status, Waiting, InnerEnded, InnerAwaits
<1>22. ASSUME InitInsert PROVE TypeOK'
  BY <1>22 DEF InitInsert, Advance, threadRest, entryVars, deadlineVars,
      Status, Waiting, InnerEnded, InnerAwaits
<1>23. ASSUME InitMark PROVE TypeOK'
  BY <1>23 DEF InitMark, Advance, threadRest, UpdateReport, entryVars,
      deadlineVars, Status, Waiting, InnerEnded, InnerAwaits
<1>24. ASSUME InitDbFails PROVE TypeOK'
  BY <1>24 DEF InitDbFails, Advance, threadRest, entryVars, deadlineVars,
      Status, Waiting, InnerEnded, InnerAwaits
<1>25. ASSUME Configure PROVE TypeOK'
  BY <1>25 DEF Configure, Advance, threadRest, entryVars, deadlineVars,
      Status, Waiting, InnerEnded, InnerAwaits
<1>26. ASSUME SaveCommit PROVE TypeOK'
  BY <1>26 DEF SaveCommit, Advance, threadRest, entryVars, deadlineVars,
      Status, Waiting, InnerEnded, InnerAwaits
<1>27. ASSUME SaveReturns PROVE TypeOK'
  BY <1>27 DEF SaveReturns, Advance, threadRest, entryVars, deadlineVars,
      Status, Waiting, InnerEnded, InnerAwaits
<1>28. ASSUME SaveRaises PROVE TypeOK'
  BY <1>28 DEF SaveRaises, Advance, threadRest, entryVars, deadlineVars,
      Status, Waiting, InnerEnded, InnerAwaits
<1>29. ASSUME RecordFailure PROVE TypeOK'
  BY <1>29 DEF RecordFailure, Advance, threadRest, UpdateReport, entryVars,
      deadlineVars, Status, Waiting, InnerEnded, InnerAwaits
<1>30. ASSUME RecordRaises PROVE TypeOK'
  BY <1>30 DEF RecordRaises, Advance, threadRest, entryVars, deadlineVars,
      Status, Waiting, InnerEnded, InnerAwaits
<1>31. ASSUME Shutdown PROVE TypeOK'
  BY <1>31 DEF Shutdown, entryVars, history, Status, Waiting, InnerEnded,
      InnerAwaits
<1>32. ASSUME ExpireJob PROVE TypeOK'
  <2>1. ControlType'
    BY <1>32 DEF ExpireJob, deadlineVars, history, Status, Waiting,
        InnerEnded, InnerAwaits, NoJob, ControlType
  <2>2. StoreType'
    BY <1>32 DEF ExpireJob, deadlineVars, history, Status, Waiting,
        InnerEnded, InnerAwaits, NoJob, StoreType
  <2> QED  BY <2>1, <2>2 DEF ControlType, StoreType
<1>33. ASSUME DeleteJob PROVE TypeOK'
  <2>1. ControlType'
    BY <1>33 DEF DeleteJob, deadlineVars, history, Status, Waiting,
        InnerEnded, InnerAwaits, NoJob, ControlType
  <2>2. StoreType'
    BY <1>33 DEF DeleteJob, deadlineVars, history, Status, Waiting,
        InnerEnded, InnerAwaits, NoJob, StoreType
  <2> QED  BY <2>1, <2>2 DEF ControlType, StoreType
<1>34. ASSUME Crash PROVE TypeOK'
  <2>1. ControlType'
    BY <1>34 DEF Crash, history, Status, Waiting, InnerEnded, InnerAwaits,
        NoJob, NoCall, ControlType
  <2>2. StoreType'
    BY <1>34 DEF Crash, history, Status, Waiting, InnerEnded, InnerAwaits,
        NoJob, NoCall, StoreType
  <2> QED  BY <2>1, <2>2 DEF ControlType, StoreType
<1>35. ASSUME UNCHANGED vars PROVE TypeOK'
  BY <1>35 DEF vars, Status, Waiting, InnerEnded, InnerAwaits
<1> QED
  BY <1>1, <1>2, <1>3, <1>4, <1>5, <1>6, <1>7, <1>8, <1>9, <1>10, <1>10d,
      <1>11,
     <1>12, <1>13, <1>14, <1>15, <1>16, <1>17, <1>18, <1>19, <1>20, <1>21,
     <1>22, <1>23, <1>24, <1>25, <1>26, <1>27, <1>28, <1>29, <1>30, <1>31,
     <1>32, <1>33, <1>34, <1>35
  DEF Next, JobStep, WrapperStep, InnerStep, ThreadStep

-----------------------------------------------------------------------------
(* Where the two coroutines can be together.                               *)

LEMMA ControlStep == ASSUME TypeOK, Control, [Next]_vars PROVE Control'
<1> USE DEF TypeOK, Control
<1>1. ASSUME Submit PROVE Control'
  BY <1>1 DEF Submit, Waiting, InnerEnded, InnerAwaits
<1>2. ASSUME StartWrapper PROVE Control'
  BY <1>2 DEF StartWrapper, Waiting, InnerEnded, InnerAwaits
<1>3. ASSUME SoftDeadline PROVE Control'
  BY <1>3 DEF SoftDeadline, Waiting, InnerEnded, InnerAwaits
<1>4. ASSUME HardDeadline PROVE Control'
  BY <1>4 DEF HardDeadline, Waiting, InnerEnded, InnerAwaits
<1>5. ASSUME HardFail PROVE Control'
  BY <1>5 DEF HardFail, WrapperFails, concludeRest, Waiting, InnerEnded,
      InnerAwaits
<1>6. ASSUME Join PROVE Control'
  BY <1>6 DEF Join, concludeRest, Waiting, InnerEnded, InnerAwaits
<1>7. ASSUME JoinRaised PROVE Control'
  BY <1>7 DEF JoinRaised, WrapperFails, concludeRest, Waiting, InnerEnded,
      InnerAwaits
<1>8. ASSUME JoinCancelled PROVE Control'
  BY <1>8 DEF JoinCancelled, Waiting, InnerEnded, InnerAwaits
<1>9. ASSUME InnerStart PROVE Control'
  BY <1>9 DEF InnerStart, Resumes, Await, deadlineVars, Waiting, InnerEnded,
      InnerAwaits
<1>10d. ASSUME AnswerDryRun PROVE Control'
  BY <1>10d DEF AnswerDryRun, Resumes, deadlineVars, Waiting, InnerEnded,
      InnerAwaits
<1>10. ASSUME InitDone PROVE Control'
  BY <1>10 DEF InitDone, Resumes, Await, deadlineVars, Waiting, InnerEnded,
      InnerAwaits
<1>11. ASSUME InitRaised PROVE Control'
  BY <1>11 DEF InitRaised, Resumes, deadlineVars, Waiting, InnerEnded,
      InnerAwaits
<1>12. ASSUME GraphDone PROVE Control'
  BY <1>12 DEF GraphDone, Resumes, Await, deadlineVars, Waiting, InnerEnded,
      InnerAwaits
<1>13. ASSUME GraphRaised PROVE Control'
  BY <1>13 DEF GraphRaised, Resumes, EnterFailing, Await, deadlineVars,
      Waiting, InnerEnded, InnerAwaits
<1>14. ASSUME GraphSwallowed PROVE Control'
  BY <1>14 DEF GraphSwallowed, Resumes, Await, deadlineVars, Waiting,
      InnerEnded, InnerAwaits
<1>15. ASSUME ExtractDone PROVE Control'
  BY <1>15 DEF ExtractDone, Resumes, Await, deadlineVars, Waiting,
      InnerEnded, InnerAwaits
<1>16. ASSUME ExtractRaised PROVE Control'
  BY <1>16 DEF ExtractRaised, Resumes, EnterFailing, Await, deadlineVars,
      Waiting, InnerEnded, InnerAwaits
<1>17. ASSUME SaveDone PROVE Control'
  BY <1>17 DEF SaveDone, Resumes, deadlineVars, Waiting, InnerEnded,
      InnerAwaits
<1>18. ASSUME SaveRaised PROVE Control'
  BY <1>18 DEF SaveRaised, Resumes, EnterFailing, Await, deadlineVars,
      Waiting, InnerEnded, InnerAwaits
<1>19. ASSUME FailureRecorded PROVE Control'
  BY <1>19 DEF FailureRecorded, Resumes, deadlineVars, Waiting, InnerEnded,
      InnerAwaits
<1>20. ASSUME InnerCancelled PROVE Control'
  BY <1>20 DEF InnerCancelled, Waiting, InnerEnded, InnerAwaits
<1>21. ASSUME ThreadBegins PROVE Control'
  BY <1>21 DEF ThreadBegins, Advance, threadRest, deadlineVars, Waiting,
      InnerEnded, InnerAwaits
<1>22. ASSUME InitInsert PROVE Control'
  BY <1>22 DEF InitInsert, Advance, threadRest, deadlineVars, Waiting,
      InnerEnded, InnerAwaits
<1>23. ASSUME InitMark PROVE Control'
  BY <1>23 DEF InitMark, Advance, threadRest, deadlineVars, Waiting,
      InnerEnded, InnerAwaits
<1>24. ASSUME InitDbFails PROVE Control'
  BY <1>24 DEF InitDbFails, Advance, threadRest, deadlineVars, Waiting,
      InnerEnded, InnerAwaits
<1>25. ASSUME Configure PROVE Control'
  BY <1>25 DEF Configure, Advance, threadRest, deadlineVars, Waiting,
      InnerEnded, InnerAwaits
<1>26. ASSUME SaveCommit PROVE Control'
  BY <1>26 DEF SaveCommit, Advance, threadRest, deadlineVars, Waiting,
      InnerEnded, InnerAwaits
<1>27. ASSUME SaveReturns PROVE Control'
  BY <1>27 DEF SaveReturns, Advance, threadRest, deadlineVars, Waiting,
      InnerEnded, InnerAwaits
<1>28. ASSUME SaveRaises PROVE Control'
  BY <1>28 DEF SaveRaises, Advance, threadRest, deadlineVars, Waiting,
      InnerEnded, InnerAwaits
<1>29. ASSUME RecordFailure PROVE Control'
  BY <1>29 DEF RecordFailure, Advance, threadRest, deadlineVars, Waiting,
      InnerEnded, InnerAwaits
<1>30. ASSUME RecordRaises PROVE Control'
  BY <1>30 DEF RecordRaises, Advance, threadRest, deadlineVars, Waiting,
      InnerEnded, InnerAwaits
<1>31. ASSUME Shutdown PROVE Control'
  BY <1>31 DEF Shutdown, Waiting, InnerEnded, InnerAwaits
<1>32. ASSUME ExpireJob PROVE Control'
  BY <1>32 DEF ExpireJob, deadlineVars, Waiting, InnerEnded, InnerAwaits
<1>33. ASSUME DeleteJob PROVE Control'
  BY <1>33 DEF DeleteJob, deadlineVars, Waiting, InnerEnded, InnerAwaits
<1>34. ASSUME Crash PROVE Control'
  BY <1>34 DEF Crash, Waiting, InnerEnded, InnerAwaits
<1>35. ASSUME UNCHANGED vars PROVE Control'
  BY <1>35 DEF vars, Waiting, InnerEnded, InnerAwaits
<1> QED
  BY <1>1, <1>2, <1>3, <1>4, <1>5, <1>6, <1>7, <1>8, <1>9, <1>10, <1>10d,
      <1>11,
     <1>12, <1>13, <1>14, <1>15, <1>16, <1>17, <1>18, <1>19, <1>20, <1>21,
     <1>22, <1>23, <1>24, <1>25, <1>26, <1>27, <1>28, <1>29, <1>30, <1>31,
     <1>32, <1>33, <1>34, <1>35
  DEF Next, JobStep, WrapperStep, InnerStep, ThreadStep

-----------------------------------------------------------------------------
(* The log of events.                                                      *)

\* Emitting to a log without a verdict: the event comes last, and the log
\* stays without a verdict unless the event is one.
LEMMA EmitLog ==
    ASSUME emitted \in Seq(Event), Silent, NEW e \in Event, Emit(e)
    PROVE /\ TerminalLast'
          /\ Announced(e)'
          /\ e \notin TerminalEvent => Silent'
<1>1. /\ emitted' = Append(emitted, e)
      /\ Len(emitted) \in Nat
      /\ Len(emitted') = Len(emitted) + 1
      /\ emitted' # <<>>
      /\ emitted'[Len(emitted) + 1] = e
      /\ \A i \in 1..Len(emitted) : emitted'[i] = emitted[i]
  BY AppendFacts DEF Emit
<1>2. \A i \in 1..Len(emitted') : i \in 1..Len(emitted) \/ i = Len(emitted')
  BY <1>1
<1> QED
  BY <1>1, <1>2 DEF Silent, TerminalLast, Announced

\* A step that emits nothing keeps the log if it decides nothing.
LEMMA KeepLog ==
    ASSUME Log, UNCHANGED emitted, Undecided' => Undecided,
           wrapper' = "returned" \/ inner' = "returned" =>
               wrapper = "returned" \/ inner = "returned"
    PROVE Log'
BY DEF Log, Silent, TerminalLast, Announced

LEMMA LogStep == ASSUME TypeOK, Control, Log, [Next]_vars PROVE Log'
<1> USE DEF TypeOK, Control
<1>u. Undecided => emitted \in Seq(Event) /\ Silent
  BY DEF Log
<1>1. ASSUME Submit PROVE Log'
  <2>1. CASE Origin = "api"
    <3>1. Undecided /\ Emit("job.created")
      BY <1>1, <2>1 DEF Submit, Undecided, Waiting, InnerEnded
    <3>2. TerminalLast' /\ Silent'
      BY <3>1, <1>u, EmitLog, EventFacts
    <3>3. wrapper' # "returned" /\ inner' # "returned"
      BY <1>1 DEF Submit, InnerEnded
    <3> QED  BY <3>2, <3>3 DEF Log
  <2>2. CASE ~(Origin = "api")
    <3>1. UNCHANGED emitted /\ Undecided
      BY <1>1, <2>2 DEF Submit, Undecided, Waiting, InnerEnded
    <3>2. wrapper' # "returned" /\ inner' # "returned"
      BY <1>1 DEF Submit, InnerEnded
    <3> QED  BY <3>1, <3>2, KeepLog
  <2> QED  BY <2>1, <2>2
<1>2. ASSUME StartWrapper PROVE Log'
  BY <1>2, KeepLog DEF StartWrapper, Undecided, Waiting, InnerEnded,
      InnerAwaits
<1>3. ASSUME SoftDeadline PROVE Log'
  <2>1. CASE NoticeDue
    <3>1. Undecided /\ Emit("job.overtime")
      BY <1>3, <2>1 DEF SoftDeadline, Undecided, Waiting, InnerEnded
    <3>2. TerminalLast' /\ Silent'
      BY <3>1, <1>u, EmitLog, EventFacts
    <3>3. wrapper' # "returned" /\ inner' # "returned"
      BY <1>3 DEF SoftDeadline, InnerEnded
    <3> QED  BY <3>2, <3>3 DEF Log
  <2>2. CASE ~(NoticeDue)
    <3>1. UNCHANGED emitted /\ Undecided
      BY <1>3, <2>2 DEF SoftDeadline, Undecided, Waiting, InnerEnded
    <3>2. wrapper' # "returned" /\ inner' # "returned"
      BY <1>3 DEF SoftDeadline, InnerEnded
    <3> QED  BY <3>1, <3>2, KeepLog
  <2> QED  BY <2>1, <2>2
<1>4. ASSUME HardDeadline PROVE Log'
  BY <1>4, KeepLog DEF HardDeadline, Undecided, Waiting, InnerEnded,
      InnerAwaits
<1>5. ASSUME HardFail PROVE Log'
  <2>1. Undecided /\ Emit("job.failed")
    BY <1>5 DEF HardFail, WrapperFails, Undecided, Waiting, InnerEnded,
        InnerAwaits
  <2>2. TerminalLast' /\ Announced("job.failed")'
    BY <2>1, <1>u, EmitLog, EventFacts
  <2>3. wrapper' = "returned"
    BY <1>5 DEF HardFail, WrapperFails
  <2> QED  BY <2>2, <2>3, EventFacts DEF Log, Undecided
<1>6. ASSUME Join PROVE Log'
  BY <1>6, KeepLog DEF Join, concludeRest, Undecided, Waiting, InnerEnded,
      InnerAwaits
<1>7. ASSUME JoinRaised PROVE Log'
  <2>1. Undecided /\ Emit("job.failed")
    BY <1>7 DEF JoinRaised, WrapperFails, Undecided, Waiting, InnerEnded,
        InnerAwaits
  <2>2. TerminalLast' /\ Announced("job.failed")'
    BY <2>1, <1>u, EmitLog, EventFacts
  <2>3. wrapper' = "returned"
    BY <1>7 DEF JoinRaised, WrapperFails
  <2> QED  BY <2>2, <2>3, EventFacts DEF Log, Undecided
<1>8. ASSUME JoinCancelled PROVE Log'
  BY <1>8, KeepLog DEF JoinCancelled, Undecided, Waiting, InnerEnded,
      InnerAwaits
<1>9. ASSUME InnerStart PROVE Log'
  BY <1>9, KeepLog DEF InnerStart, Resumes, Await, deadlineVars, Undecided,
      Waiting, InnerEnded, InnerAwaits
<1>10. ASSUME InitDone PROVE Log'
  <2>1. Undecided
    BY <1>10 DEF InitDone, Resumes, Undecided, Waiting, InnerEnded, InnerAwaits
  <2>2. Emit("job.running")
    BY <1>10 DEF InitDone
  <2>3. TerminalLast' /\ Silent'
    BY <2>1, <2>2, <1>u, EmitLog, EventFacts
  <2>4. wrapper' # "returned" /\ inner' # "returned"
    BY <1>10, <2>1 DEF InitDone, Await, deadlineVars, Undecided
  <2> QED  BY <2>3, <2>4 DEF Log
<1>10d. ASSUME AnswerDryRun PROVE Log'
  <2>1. Undecided
    BY <1>10d DEF AnswerDryRun, Resumes, Undecided, Waiting, InnerEnded,
        InnerAwaits
  <2>2. /\ emitted' = Append(Append(emitted, "job.running"), "job.completed")
        /\ inner' = "returned"
    BY <1>10d DEF AnswerDryRun
  <2> DEFINE first == Append(emitted, "job.running")
  <2>3. /\ first \in Seq(Event)
        /\ \A i \in 1..Len(first) : first[i] \notin TerminalEvent
    <3>1. /\ first \in Seq(Event)
          /\ Len(first) = Len(emitted) + 1
          /\ Len(emitted) \in Nat
          /\ first[Len(emitted) + 1] = "job.running"
          /\ \A i \in 1..Len(emitted) : first[i] = emitted[i]
      BY <2>1, <1>u, AppendFacts, EventFacts
    <3>2. \A i \in 1..Len(first) : i \in 1..Len(emitted) \/ i = Len(emitted) + 1
      BY <3>1
    <3> QED  BY <3>1, <3>2, <2>1, <1>u, EventFacts DEF Silent
  <2> HIDE DEF first
  <2>4. /\ emitted' # <<>>
        /\ Len(first) \in Nat
        /\ Len(emitted') = Len(first) + 1
        /\ emitted'[Len(first) + 1] = "job.completed"
        /\ \A i \in 1..Len(first) : emitted'[i] = first[i]
    <3>1. emitted' = Append(first, "job.completed")
      BY <2>2 DEF first
    <3> QED  BY <3>1, <2>3, AppendFacts, EventFacts
  <2>5. \A i \in 1..Len(emitted') : i \in 1..Len(first) \/ i = Len(emitted')
    BY <2>4
  <2>6. TerminalLast' /\ Announced("job.completed")'
    BY <2>3, <2>4, <2>5 DEF TerminalLast, Announced
  <2> QED  BY <2>2, <2>6, EventFacts DEF Log, Undecided
<1>11. ASSUME InitRaised PROVE Log'
  BY <1>11, KeepLog DEF InitRaised, Resumes, deadlineVars, Undecided,
      Waiting, InnerEnded, InnerAwaits
<1>12. ASSUME GraphDone PROVE Log'
  BY <1>12, KeepLog DEF GraphDone, Resumes, Await, deadlineVars, Undecided,
      Waiting, InnerEnded, InnerAwaits
<1>13. ASSUME GraphRaised PROVE Log'
  BY <1>13, KeepLog DEF GraphRaised, Resumes, EnterFailing, Await,
      deadlineVars, Undecided, Waiting, InnerEnded, InnerAwaits
<1>14. ASSUME GraphSwallowed PROVE Log'
  BY <1>14, KeepLog DEF GraphSwallowed, Resumes, Await, deadlineVars,
      Undecided, Waiting, InnerEnded, InnerAwaits
<1>15. ASSUME ExtractDone PROVE Log'
  BY <1>15, KeepLog DEF ExtractDone, Resumes, Await, deadlineVars, Undecided,
      Waiting, InnerEnded, InnerAwaits
<1>16. ASSUME ExtractRaised PROVE Log'
  BY <1>16, KeepLog DEF ExtractRaised, Resumes, EnterFailing, Await,
      deadlineVars, Undecided, Waiting, InnerEnded, InnerAwaits
<1>17. ASSUME SaveDone PROVE Log'
  <2>1. Undecided /\ Emit("job.completed")
    BY <1>17 DEF SaveDone, Resumes, Undecided, Waiting, InnerEnded, InnerAwaits
  <2>2. TerminalLast' /\ Announced("job.completed")'
    BY <2>1, <1>u, EmitLog, EventFacts
  <2>3. inner' = "returned"
    BY <1>17 DEF SaveDone
  <2> QED  BY <2>2, <2>3, EventFacts DEF Log, Undecided
<1>18. ASSUME SaveRaised PROVE Log'
  BY <1>18, KeepLog DEF SaveRaised, Resumes, EnterFailing, Await,
      deadlineVars, Undecided, Waiting, InnerEnded, InnerAwaits
<1>19. ASSUME FailureRecorded PROVE Log'
  <2>1. Undecided /\ Emit("job.failed")
    BY <1>19 DEF FailureRecorded, Resumes, Undecided, Waiting, InnerEnded,
        InnerAwaits
  <2>2. TerminalLast' /\ Announced("job.failed")'
    BY <2>1, <1>u, EmitLog, EventFacts
  <2>3. inner' = "returned"
    BY <1>19 DEF FailureRecorded
  <2> QED  BY <2>2, <2>3, EventFacts DEF Log, Undecided
<1>20. ASSUME InnerCancelled PROVE Log'
  BY <1>20, KeepLog DEF InnerCancelled, Undecided, Waiting, InnerEnded,
      InnerAwaits
<1>21. ASSUME ThreadBegins PROVE Log'
  BY <1>21, KeepLog DEF ThreadBegins, Advance, threadRest, deadlineVars,
      Undecided, Waiting, InnerEnded, InnerAwaits
<1>22. ASSUME InitInsert PROVE Log'
  BY <1>22, KeepLog DEF InitInsert, Advance, threadRest, deadlineVars,
      Undecided, Waiting, InnerEnded, InnerAwaits
<1>23. ASSUME InitMark PROVE Log'
  BY <1>23, KeepLog DEF InitMark, Advance, threadRest, deadlineVars,
      Undecided, Waiting, InnerEnded, InnerAwaits
<1>24. ASSUME InitDbFails PROVE Log'
  BY <1>24, KeepLog DEF InitDbFails, Advance, threadRest, deadlineVars,
      Undecided, Waiting, InnerEnded, InnerAwaits
<1>25. ASSUME Configure PROVE Log'
  BY <1>25, KeepLog DEF Configure, Advance, threadRest, deadlineVars,
      Undecided, Waiting, InnerEnded, InnerAwaits
<1>26. ASSUME SaveCommit PROVE Log'
  BY <1>26, KeepLog DEF SaveCommit, Advance, threadRest, deadlineVars,
      Undecided, Waiting, InnerEnded, InnerAwaits
<1>27. ASSUME SaveReturns PROVE Log'
  BY <1>27, KeepLog DEF SaveReturns, Advance, threadRest, deadlineVars,
      Undecided, Waiting, InnerEnded, InnerAwaits
<1>28. ASSUME SaveRaises PROVE Log'
  BY <1>28, KeepLog DEF SaveRaises, Advance, threadRest, deadlineVars,
      Undecided, Waiting, InnerEnded, InnerAwaits
<1>29. ASSUME RecordFailure PROVE Log'
  BY <1>29, KeepLog DEF RecordFailure, Advance, threadRest, deadlineVars,
      Undecided, Waiting, InnerEnded, InnerAwaits
<1>30. ASSUME RecordRaises PROVE Log'
  BY <1>30, KeepLog DEF RecordRaises, Advance, threadRest, deadlineVars,
      Undecided, Waiting, InnerEnded, InnerAwaits
<1>31. ASSUME Shutdown PROVE Log'
  BY <1>31, KeepLog DEF Shutdown, Undecided, Waiting, InnerEnded, InnerAwaits
<1>32. ASSUME ExpireJob PROVE Log'
  BY <1>32, KeepLog DEF ExpireJob, deadlineVars, Undecided, Waiting,
      InnerEnded, InnerAwaits
<1>33. ASSUME DeleteJob PROVE Log'
  BY <1>33, KeepLog DEF DeleteJob, deadlineVars, Undecided, Waiting,
      InnerEnded, InnerAwaits
<1>34. ASSUME Crash PROVE Log'
  BY <1>34, KeepLog DEF Crash, Undecided, Waiting, InnerEnded, InnerAwaits
<1>35. ASSUME UNCHANGED vars PROVE Log'
  BY <1>35, KeepLog DEF vars, Undecided, Waiting, InnerEnded, InnerAwaits
<1> QED
  BY <1>1, <1>2, <1>3, <1>4, <1>5, <1>6, <1>7, <1>8, <1>9, <1>10, <1>10d,
      <1>11,
     <1>12, <1>13, <1>14, <1>15, <1>16, <1>17, <1>18, <1>19, <1>20, <1>21,
     <1>22, <1>23, <1>24, <1>25, <1>26, <1>27, <1>28, <1>29, <1>30, <1>31,
     <1>32, <1>33, <1>34, <1>35
  DEF Next, JobStep, WrapperStep, InnerStep, ThreadStep

-----------------------------------------------------------------------------
(* A completed job has a stored report.                                    *)

\* The last event of the log is the one just emitted.
LEMMA EmitAnnounces ==
    ASSUME emitted \in Seq(Event), NEW e \in Event, Emit(e)
    PROVE \A other \in Event : Announced(other)' <=> other = e
<1>1. /\ Len(emitted) \in Nat
      /\ Len(emitted') = Len(emitted) + 1
      /\ emitted' # <<>>
      /\ emitted'[Len(emitted) + 1] = e
  BY AppendFacts DEF Emit
<1> QED
  BY <1>1 DEF Announced

LEMMA StoredStep == ASSUME TypeOK, Stored, [Next]_vars PROVE Stored'
<1>u. emitted \in Seq(Event)
  BY DEF TypeOK
<1> USE EventFacts DEF Stored, CompletedMeansSaved
<1>1. ASSUME Submit PROVE Stored'
  <2>1. CASE Origin = "api"
    <3>1. Emit("job.created")
      BY <1>1, <2>1 DEF Submit
    <3>2. ~Announced("job.completed")'
      BY <3>1, <1>u, EmitAnnounces
    <3> QED
      BY <1>1, <2>1, <3>2 DEF Submit, SetJob, history
  <2>2. CASE ~(Origin = "api")
    BY <1>1, <2>2 DEF Submit, SetJob, history, Announced
  <2> QED  BY <2>1, <2>2
<1>2. ASSUME StartWrapper PROVE Stored'
  BY <1>2 DEF StartWrapper, history, entryVars, Announced
<1>3. ASSUME SoftDeadline PROVE Stored'
  <2>1. CASE NoticeDue
    <3>1. Emit("job.overtime")
      BY <1>3, <2>1 DEF SoftDeadline
    <3>2. ~Announced("job.completed")'
      BY <3>1, <1>u, EmitAnnounces
    <3> QED
      BY <1>3, <2>1, <3>2 DEF SoftDeadline, SetJob, history
  <2>2. CASE ~(NoticeDue)
    BY <1>3, <2>2 DEF SoftDeadline, SetJob, history, Announced
  <2> QED  BY <2>1, <2>2
<1>4. ASSUME HardDeadline PROVE Stored'
  BY <1>4 DEF HardDeadline, history, entryVars, Announced
<1>5. ASSUME HardFail PROVE Stored'
  <2>1. Emit("job.failed")
    BY <1>5 DEF HardFail, WrapperFails
  <2>2. ~Announced("job.completed")'
    BY <2>1, <1>u, EmitAnnounces
  <2> QED
    BY <1>5, <2>2 DEF HardFail, WrapperFails, SetJob, MarkReportFailed,
        UpdateReport, Conclude, concludeRest
<1>6. ASSUME Join PROVE Stored'
  BY <1>6 DEF Join, Conclude, concludeRest, entryVars, Announced
<1>7. ASSUME JoinRaised PROVE Stored'
  <2>1. Emit("job.failed")
    BY <1>7 DEF JoinRaised, WrapperFails
  <2>2. ~Announced("job.completed")'
    BY <2>1, <1>u, EmitAnnounces
  <2> QED
    BY <1>7, <2>2 DEF JoinRaised, WrapperFails, SetJob, MarkReportFailed,
        UpdateReport, Conclude, concludeRest
<1>8. ASSUME JoinCancelled PROVE Stored'
  BY <1>8 DEF JoinCancelled, history, entryVars, Announced
<1>9. ASSUME InnerStart PROVE Stored'
  BY <1>9 DEF InnerStart, Resumes, Await, Queued, history, deadlineVars,
      entryVars, Announced
<1>10. ASSUME InitDone PROVE Stored'
  <2>1. Emit("job.running")
    BY <1>10 DEF InitDone
  <2>2. ~Announced("job.completed")'
    BY <2>1, <1>u, EmitAnnounces
  <2> QED
    BY <1>10, <2>2 DEF InitDone, Resumes, CallReturned, SetJob, Await,
        NoCall, history, deadlineVars
<1>10d. ASSUME AnswerDryRun PROVE Stored'
  BY <1>10d DEF AnswerDryRun
<1>11. ASSUME InitRaised PROVE Stored'
  BY <1>11 DEF InitRaised, Resumes, CallRaised, NoCall, history,
      deadlineVars, entryVars, Announced
<1>12. ASSUME GraphDone PROVE Stored'
  BY <1>12 DEF GraphDone, Resumes, Await, NoCall, deadlineVars, entryVars,
      Announced
<1>13. ASSUME GraphRaised PROVE Stored'
  BY <1>13 DEF GraphRaised, Resumes, EnterFailing, SetJob, Await, Queued,
      deadlineVars, Announced
<1>14. ASSUME GraphSwallowed PROVE Stored'
  BY <1>14 DEF GraphSwallowed, Resumes, Await, NoCall, deadlineVars,
      entryVars, Announced
<1>15. ASSUME ExtractDone PROVE Stored'
  BY <1>15 DEF ExtractDone, Resumes, Await, Queued, history, deadlineVars,
      entryVars, Announced
<1>16. ASSUME ExtractRaised PROVE Stored'
  BY <1>16 DEF ExtractRaised, Resumes, EnterFailing, SetJob, Await, Queued,
      history, deadlineVars, Announced
<1>17. ASSUME SaveDone PROVE Stored'
  BY <1>17 DEF SaveDone, Resumes, CallReturned, SetJob, NoCall, history,
      deadlineVars
<1>18. ASSUME SaveRaised PROVE Stored'
  BY <1>18 DEF SaveRaised, Resumes, CallRaised, EnterFailing, SetJob, Await,
      Queued, history, deadlineVars, Announced
<1>19. ASSUME FailureRecorded PROVE Stored'
  <2>1. Emit("job.failed")
    BY <1>19 DEF FailureRecorded
  <2>2. ~Announced("job.completed")'
    BY <2>1, <1>u, EmitAnnounces
  <2> QED
    BY <1>19, <2>2 DEF FailureRecorded, Resumes, CallReturned, CallRaised,
        NoCall, history, deadlineVars, entryVars
<1>20. ASSUME InnerCancelled PROVE Stored'
  BY <1>20 DEF InnerCancelled, NoCall, history, entryVars, Announced
<1>21. ASSUME ThreadBegins PROVE Stored'
  BY <1>21 DEF ThreadBegins, Advance, threadRest, deadlineVars, entryVars,
      Announced
<1>22. ASSUME InitInsert PROVE Stored'
  BY <1>22 DEF InitInsert, Advance, threadRest, deadlineVars, entryVars,
      Announced
<1>23. ASSUME InitMark PROVE Stored'
  BY <1>23 DEF InitMark, Advance, threadRest, UpdateReport, deadlineVars,
      entryVars, Announced
<1>24. ASSUME InitDbFails PROVE Stored'
  BY <1>24 DEF InitDbFails, Advance, threadRest, deadlineVars, entryVars,
      Announced
<1>25. ASSUME Configure PROVE Stored'
  BY <1>25 DEF Configure, Advance, threadRest, deadlineVars, entryVars,
      Announced
<1>26. ASSUME SaveCommit PROVE Stored'
  BY <1>26 DEF SaveCommit, Advance, threadRest, deadlineVars, entryVars,
      Announced
<1>27. ASSUME SaveReturns PROVE Stored'
  BY <1>27 DEF SaveReturns, Advance, threadRest, deadlineVars, entryVars,
      Announced
<1>28. ASSUME SaveRaises PROVE Stored'
  BY <1>28 DEF SaveRaises, Advance, threadRest, deadlineVars, entryVars,
      Announced
<1>29. ASSUME RecordFailure PROVE Stored'
  BY <1>29 DEF RecordFailure, Advance, threadRest, UpdateReport,
      deadlineVars, entryVars, Announced
<1>30. ASSUME RecordRaises PROVE Stored'
  BY <1>30 DEF RecordRaises, Advance, threadRest, deadlineVars, entryVars,
      Announced
<1>31. ASSUME Shutdown PROVE Stored'
  BY <1>31 DEF Shutdown, history, entryVars, Announced
<1>32. ASSUME ExpireJob PROVE Stored'
  BY <1>32 DEF ExpireJob, history, deadlineVars, NoJob, Announced
<1>33. ASSUME DeleteJob PROVE Stored'
  BY <1>33 DEF DeleteJob, history, deadlineVars, NoJob, Announced
<1>34. ASSUME Crash PROVE Stored'
  <2>1. thread'.op # "save" /\ job'.status # "completed"
    BY <1>34 DEF Crash, NoCall, NoJob
  <2>2. Announced("job.completed")' => Announced("job.completed")
    BY <1>34 DEF Crash, Announced
  <2>3. saved' = saved
    BY <1>34 DEF Crash, history
  <2> QED  BY <2>1, <2>2, <2>3
<1>35. ASSUME UNCHANGED vars PROVE Stored'
  BY <1>35 DEF vars, Announced
<1> QED
  BY <1>1, <1>2, <1>3, <1>4, <1>5, <1>6, <1>7, <1>8, <1>9, <1>10, <1>10d,
      <1>11,
     <1>12, <1>13, <1>14, <1>15, <1>16, <1>17, <1>18, <1>19, <1>20, <1>21,
     <1>22, <1>23, <1>24, <1>25, <1>26, <1>27, <1>28, <1>29, <1>30, <1>31,
     <1>32, <1>33, <1>34, <1>35
  DEF Next, JobStep, WrapperStep, InnerStep, ThreadStep

-----------------------------------------------------------------------------
(* The entry, the verdict and the row of a job.                            *)

\* Every blocking call has ended with the inner task, unless it was cancelled.
LEMMA ReleasedStep ==
    ASSUME TypeOK, Control, Released, [Next]_vars PROVE Released'
<1>0. setup' = setup
  BY DEF Next, vars
<1>u. emitted \in Seq(Event)
  BY DEF TypeOK
<1> USE DEF TypeOK, Control, Released
<1>1. ASSUME Submit PROVE Released'
  BY <1>1 DEF Submit, SetJob, InnerEnded, InnerAwaits, Waiting, history
<1>2. ASSUME StartWrapper PROVE Released'
  BY <1>2 DEF StartWrapper, InnerEnded, InnerAwaits, Waiting, entryVars,
      history
<1>3. ASSUME SoftDeadline PROVE Released'
  BY <1>3 DEF SoftDeadline, SetJob, InnerEnded, InnerAwaits, Waiting, history
<1>4. ASSUME HardDeadline PROVE Released'
  BY <1>4 DEF HardDeadline, InnerEnded, InnerAwaits, Waiting, entryVars,
      history
<1>5. ASSUME HardFail PROVE Released'
  BY <1>5 DEF HardFail, WrapperFails, SetJob, MarkReportFailed, UpdateReport,
      Conclude, InnerEnded, InnerAwaits, Waiting, concludeRest
<1>6. ASSUME Join PROVE Released'
  BY <1>6 DEF Join, Conclude, InnerEnded, InnerAwaits, Waiting, entryVars,
      concludeRest
<1>7. ASSUME JoinRaised PROVE Released'
  BY <1>7 DEF JoinRaised, WrapperFails, SetJob, MarkReportFailed,
      UpdateReport, Conclude, InnerEnded, InnerAwaits, Waiting, concludeRest
<1>8. ASSUME JoinCancelled PROVE Released'
  BY <1>8 DEF JoinCancelled, InnerEnded, InnerAwaits, Waiting, entryVars,
      history
<1>9. ASSUME InnerStart PROVE Released'
  BY <1>9 DEF InnerStart, Resumes, Await, Queued, NoCall, InnerEnded,
      InnerAwaits, Waiting, deadlineVars, entryVars, history
<1>10. ASSUME InitDone PROVE Released'
  BY <1>10 DEF InitDone, Resumes, CallReturned, SetJob, Await, NoCall,
      InnerEnded, InnerAwaits, Waiting, deadlineVars, history
<1>10d. ASSUME AnswerDryRun PROVE Released'
  BY <1>10d DEF AnswerDryRun, Resumes, CallReturned, SetJob, NoCall,
      InnerEnded, InnerAwaits, Waiting, deadlineVars
<1>11. ASSUME InitRaised PROVE Released'
  BY <1>11 DEF InitRaised, Resumes, CallRaised, NoCall, InnerEnded,
      InnerAwaits, Waiting, deadlineVars, entryVars, history
<1>12. ASSUME GraphDone PROVE Released'
  BY <1>12 DEF GraphDone, Resumes, Await, NoCall, InnerEnded, InnerAwaits,
      Waiting, deadlineVars, entryVars
<1>13. ASSUME GraphRaised PROVE Released'
  BY <1>13 DEF GraphRaised, Resumes, EnterFailing, SetJob, Await, Queued,
      NoCall, InnerEnded, InnerAwaits, Waiting, deadlineVars
<1>14. ASSUME GraphSwallowed PROVE Released'
  BY <1>14 DEF GraphSwallowed, Resumes, Await, NoCall, InnerEnded,
      InnerAwaits, Waiting, deadlineVars, entryVars
<1>15. ASSUME ExtractDone PROVE Released'
  BY <1>15 DEF ExtractDone, Resumes, Await, Queued, NoCall, InnerEnded,
      InnerAwaits, Waiting, deadlineVars, entryVars, history
<1>16. ASSUME ExtractRaised PROVE Released'
  BY <1>16 DEF ExtractRaised, Resumes, EnterFailing, SetJob, Await, Queued,
      NoCall, InnerEnded, InnerAwaits, Waiting, deadlineVars, history
<1>17. ASSUME SaveDone PROVE Released'
  BY <1>17 DEF SaveDone, Resumes, CallReturned, SetJob, NoCall, InnerEnded,
      InnerAwaits, Waiting, deadlineVars, history
<1>18. ASSUME SaveRaised PROVE Released'
  BY <1>18 DEF SaveRaised, Resumes, CallRaised, EnterFailing, SetJob, Await,
      Queued, NoCall, InnerEnded, InnerAwaits, Waiting, deadlineVars, history
<1>19. ASSUME FailureRecorded PROVE Released'
  BY <1>19 DEF FailureRecorded, Resumes, CallReturned, CallRaised, NoCall,
      InnerEnded, InnerAwaits, Waiting, deadlineVars, entryVars, history
<1>20. ASSUME InnerCancelled PROVE Released'
  BY <1>20 DEF InnerCancelled, NoCall, InnerEnded, InnerAwaits, Waiting,
      entryVars, history
<1>21. ASSUME ThreadBegins PROVE Released'
  BY <1>21 DEF ThreadBegins, Advance, threadRest, NoCall, InnerEnded,
      InnerAwaits, Waiting, deadlineVars, entryVars
<1>22. ASSUME InitInsert PROVE Released'
  BY <1>22 DEF InitInsert, Advance, threadRest, NoCall, InnerEnded,
      InnerAwaits, Waiting, deadlineVars, entryVars
<1>23. ASSUME InitMark PROVE Released'
  BY <1>23 DEF InitMark, Advance, threadRest, UpdateReport, NoCall,
      InnerEnded, InnerAwaits, Waiting, deadlineVars, entryVars
<1>24. ASSUME InitDbFails PROVE Released'
  BY <1>24 DEF InitDbFails, Advance, threadRest, NoCall, InnerEnded,
      InnerAwaits, Waiting, deadlineVars, entryVars
<1>25. ASSUME Configure PROVE Released'
  BY <1>25 DEF Configure, Advance, threadRest, NoCall, InnerEnded,
      InnerAwaits, Waiting, deadlineVars, entryVars
<1>26. ASSUME SaveCommit PROVE Released'
  BY <1>26 DEF SaveCommit, Advance, threadRest, NoCall, InnerEnded,
      InnerAwaits, Waiting, deadlineVars, entryVars
<1>27. ASSUME SaveReturns PROVE Released'
  BY <1>27 DEF SaveReturns, Advance, threadRest, NoCall, InnerEnded,
      InnerAwaits, Waiting, deadlineVars, entryVars
<1>28. ASSUME SaveRaises PROVE Released'
  BY <1>28 DEF SaveRaises, Advance, threadRest, NoCall, InnerEnded,
      InnerAwaits, Waiting, deadlineVars, entryVars
<1>29. ASSUME RecordFailure PROVE Released'
  BY <1>29 DEF RecordFailure, Advance, threadRest, UpdateReport, NoCall,
      InnerEnded, InnerAwaits, Waiting, deadlineVars, entryVars
<1>30. ASSUME RecordRaises PROVE Released'
  BY <1>30 DEF RecordRaises, Advance, threadRest, NoCall, InnerEnded,
      InnerAwaits, Waiting, deadlineVars, entryVars
<1>31. ASSUME Shutdown PROVE Released'
  BY <1>31 DEF Shutdown, InnerEnded, InnerAwaits, Waiting, entryVars, history
<1>32. ASSUME ExpireJob PROVE Released'
  BY <1>32 DEF ExpireJob, NoJob, InnerEnded, InnerAwaits, Waiting,
      deadlineVars, history
<1>33. ASSUME DeleteJob PROVE Released'
  BY <1>33 DEF DeleteJob, NoJob, InnerEnded, InnerAwaits, Waiting,
      deadlineVars, history
<1>34. ASSUME Crash PROVE Released'
  BY <1>34 DEF Crash, NoJob, NoCall, InnerEnded, InnerAwaits, Waiting,
      history
<1>35. ASSUME UNCHANGED vars PROVE Released'
  BY <1>35 DEF vars, InnerEnded, InnerAwaits, Waiting
<1> QED
  BY <1>1, <1>2, <1>3, <1>4, <1>5, <1>6, <1>7, <1>8, <1>9, <1>10, <1>10d,
      <1>11,
     <1>12, <1>13, <1>14, <1>15, <1>16, <1>17, <1>18, <1>19, <1>20, <1>21,
     <1>22, <1>23, <1>24, <1>25, <1>26, <1>27, <1>28, <1>29, <1>30, <1>31,
     <1>32, <1>33, <1>34, <1>35
  DEF Next, JobStep, WrapperStep, InnerStep, ThreadStep

\* What the entry and the log may say for each place of the inner task.
LEMMA ProgressStep ==
    ASSUME TypeOK, Control, Progress, [Next]_vars PROVE Progress'
<1>0. setup' = setup
  BY DEF Next, vars
<1>u. emitted \in Seq(Event)
  BY DEF TypeOK
<1> USE <1>0, EventFacts DEF TypeOK, Control, Progress, Route, Origin
<1>1. ASSUME Submit PROVE Progress'
  <2>1. CASE Origin = "api"
    <3>1. Emit("job.created")
      BY <1>1, <2>1 DEF Submit
    <3>2. ~Announced("job.completed")' /\ ~Announced("job.failed")'
      BY <3>1, <1>u, EmitAnnounces
    <3> QED
      BY <1>1, <2>1, <3>2 DEF Submit, SetJob, InnerEnded, InnerAwaits,
          Waiting, history, TerminalStatus
  <2>2. CASE ~(Origin = "api")
    BY <1>1, <2>2 DEF Submit, SetJob, InnerEnded, InnerAwaits, Waiting,
        history, TerminalStatus, Announced
  <2> QED  BY <2>1, <2>2
<1>2. ASSUME StartWrapper PROVE Progress'
  BY <1>2 DEF StartWrapper, InnerEnded, InnerAwaits, Waiting, entryVars,
      history, TerminalStatus, Announced
<1>3. ASSUME SoftDeadline PROVE Progress'
  <2>1. CASE NoticeDue
    <3>1. Emit("job.overtime")
      BY <1>3, <2>1 DEF SoftDeadline
    <3>2. ~Announced("job.completed")' /\ ~Announced("job.failed")'
      BY <3>1, <1>u, EmitAnnounces
    <3> QED
      BY <1>3, <2>1, <3>2 DEF SoftDeadline, SetJob, InnerEnded,
          InnerAwaits, Waiting, history, TerminalStatus
  <2>2. CASE ~(NoticeDue)
    BY <1>3, <2>2 DEF SoftDeadline, SetJob, InnerEnded, InnerAwaits,
        Waiting, history, TerminalStatus, Announced
  <2> QED  BY <2>1, <2>2
<1>4. ASSUME HardDeadline PROVE Progress'
  BY <1>4 DEF HardDeadline, InnerEnded, InnerAwaits, Waiting, entryVars,
      history, TerminalStatus, Announced
<1>5. ASSUME HardFail PROVE Progress'
  <2>1. Emit("job.failed")
    BY <1>5 DEF HardFail, WrapperFails
  <2>2. ~Announced("job.completed")' /\ Announced("job.failed")'
    BY <2>1, <1>u, EmitAnnounces
  <2> QED
    BY <1>5, <2>2 DEF HardFail, WrapperFails, SetJob, MarkReportFailed,
        UpdateReport, Conclude, InnerEnded, InnerAwaits, Waiting,
        concludeRest, TerminalStatus
<1>6. ASSUME Join PROVE Progress'
  BY <1>6 DEF Join, Conclude, InnerEnded, InnerAwaits, Waiting, entryVars,
      concludeRest, TerminalStatus, Announced
<1>7. ASSUME JoinRaised PROVE Progress'
  <2>1. Emit("job.failed")
    BY <1>7 DEF JoinRaised, WrapperFails
  <2>2. ~Announced("job.completed")' /\ Announced("job.failed")'
    BY <2>1, <1>u, EmitAnnounces
  <2> QED
    BY <1>7, <2>2 DEF JoinRaised, WrapperFails, SetJob, MarkReportFailed,
        UpdateReport, Conclude, InnerEnded, InnerAwaits, Waiting,
        concludeRest, TerminalStatus
<1>8. ASSUME JoinCancelled PROVE Progress'
  BY <1>8 DEF JoinCancelled, InnerEnded, InnerAwaits, Waiting, entryVars,
      history, TerminalStatus, Announced
<1>9. ASSUME InnerStart PROVE Progress'
  BY <1>9 DEF InnerStart, Resumes, Await, Queued, InnerEnded, InnerAwaits,
      Waiting, deadlineVars, entryVars, history, TerminalStatus, Announced
<1>10. ASSUME InitDone PROVE Progress'
  <2>1. Emit("job.running")
    BY <1>10 DEF InitDone
  <2>2. ~Announced("job.completed")' /\ ~Announced("job.failed")'
    BY <2>1, <1>u, EmitAnnounces
  <2> QED
    BY <1>10, <2>2 DEF InitDone, Resumes, CallReturned, SetJob, Await,
        NoCall, InnerEnded, InnerAwaits, Waiting, deadlineVars, history,
        TerminalStatus
<1>10d. ASSUME AnswerDryRun PROVE Progress'
  <2>1. emitted' = Append(Append(emitted, "job.running"), "job.completed")
    BY <1>10d DEF AnswerDryRun
  <2>2. Announced("job.completed")'
    BY <2>1, <1>u, AppendFacts, EventFacts DEF Announced
  <2> QED
    BY <1>10d, <2>2 DEF AnswerDryRun, Resumes, CallReturned, SetJob,
        NoCall, InnerEnded, InnerAwaits, Waiting, deadlineVars,
        TerminalStatus
<1>11. ASSUME InitRaised PROVE Progress'
  BY <1>11 DEF InitRaised, Resumes, CallRaised, NoCall, InnerEnded,
      InnerAwaits, Waiting, deadlineVars, entryVars, history, TerminalStatus,
      Announced
<1>12. ASSUME GraphDone PROVE Progress'
  BY <1>12 DEF GraphDone, Resumes, Await, NoCall, InnerEnded, InnerAwaits,
      Waiting, deadlineVars, entryVars, TerminalStatus, Announced
<1>13. ASSUME GraphRaised PROVE Progress'
  BY <1>13 DEF GraphRaised, Resumes, EnterFailing, SetJob, Await, Queued,
      InnerEnded, InnerAwaits, Waiting, deadlineVars, TerminalStatus,
      Announced
<1>14. ASSUME GraphSwallowed PROVE Progress'
  BY <1>14 DEF GraphSwallowed, Resumes, Await, NoCall, InnerEnded,
      InnerAwaits, Waiting, deadlineVars, entryVars, TerminalStatus,
      Announced
<1>15. ASSUME ExtractDone PROVE Progress'
  BY <1>15 DEF ExtractDone, Resumes, Await, Queued, InnerEnded, InnerAwaits,
      Waiting, deadlineVars, entryVars, history, TerminalStatus, Announced
<1>16. ASSUME ExtractRaised PROVE Progress'
  BY <1>16 DEF ExtractRaised, Resumes, EnterFailing, SetJob, Await, Queued,
      InnerEnded, InnerAwaits, Waiting, deadlineVars, history,
      TerminalStatus, Announced
<1>17. ASSUME SaveDone PROVE Progress'
  <2>1. Emit("job.completed")
    BY <1>17 DEF SaveDone
  <2>2. Announced("job.completed")' /\ ~Announced("job.failed")'
    BY <2>1, <1>u, EmitAnnounces
  <2> QED
    BY <1>17, <2>2 DEF SaveDone, Resumes, CallReturned, SetJob, NoCall,
        InnerEnded, InnerAwaits, Waiting, deadlineVars, history,
        TerminalStatus
<1>18. ASSUME SaveRaised PROVE Progress'
  BY <1>18 DEF SaveRaised, Resumes, CallRaised, EnterFailing, SetJob, Await,
      Queued, InnerEnded, InnerAwaits, Waiting, deadlineVars, history,
      TerminalStatus, Announced
<1>19. ASSUME FailureRecorded PROVE Progress'
  <2>1. Emit("job.failed")
    BY <1>19 DEF FailureRecorded
  <2>2. ~Announced("job.completed")' /\ Announced("job.failed")'
    BY <2>1, <1>u, EmitAnnounces
  <2> QED
    BY <1>19, <2>2 DEF FailureRecorded, Resumes, CallReturned, CallRaised,
        NoCall, InnerEnded, InnerAwaits, Waiting, deadlineVars, entryVars,
        history, TerminalStatus
<1>20. ASSUME InnerCancelled PROVE Progress'
  BY <1>20 DEF InnerCancelled, NoCall, InnerEnded, InnerAwaits, Waiting,
      entryVars, history, TerminalStatus, Announced
<1>21. ASSUME ThreadBegins PROVE Progress'
  BY <1>21 DEF ThreadBegins, Advance, threadRest, InnerEnded, InnerAwaits,
      Waiting, deadlineVars, entryVars, TerminalStatus, Announced
<1>22. ASSUME InitInsert PROVE Progress'
  BY <1>22 DEF InitInsert, Advance, threadRest, InnerEnded, InnerAwaits,
      Waiting, deadlineVars, entryVars, TerminalStatus, Announced
<1>23. ASSUME InitMark PROVE Progress'
  BY <1>23 DEF InitMark, Advance, threadRest, UpdateReport, InnerEnded,
      InnerAwaits, Waiting, deadlineVars, entryVars, TerminalStatus,
      Announced
<1>24. ASSUME InitDbFails PROVE Progress'
  BY <1>24 DEF InitDbFails, Advance, threadRest, InnerEnded, InnerAwaits,
      Waiting, deadlineVars, entryVars, TerminalStatus, Announced
<1>25. ASSUME Configure PROVE Progress'
  BY <1>25 DEF Configure, Advance, threadRest, InnerEnded, InnerAwaits,
      Waiting, deadlineVars, entryVars, TerminalStatus, Announced
<1>26. ASSUME SaveCommit PROVE Progress'
  BY <1>26 DEF SaveCommit, Advance, threadRest, InnerEnded, InnerAwaits,
      Waiting, deadlineVars, entryVars, TerminalStatus, Announced
<1>27. ASSUME SaveReturns PROVE Progress'
  BY <1>27 DEF SaveReturns, Advance, threadRest, InnerEnded, InnerAwaits,
      Waiting, deadlineVars, entryVars, TerminalStatus, Announced
<1>28. ASSUME SaveRaises PROVE Progress'
  BY <1>28 DEF SaveRaises, Advance, threadRest, InnerEnded, InnerAwaits,
      Waiting, deadlineVars, entryVars, TerminalStatus, Announced
<1>29. ASSUME RecordFailure PROVE Progress'
  BY <1>29 DEF RecordFailure, Advance, threadRest, UpdateReport, InnerEnded,
      InnerAwaits, Waiting, deadlineVars, entryVars, TerminalStatus,
      Announced
<1>30. ASSUME RecordRaises PROVE Progress'
  BY <1>30 DEF RecordRaises, Advance, threadRest, InnerEnded, InnerAwaits,
      Waiting, deadlineVars, entryVars, TerminalStatus, Announced
<1>31. ASSUME Shutdown PROVE Progress'
  BY <1>31 DEF Shutdown, InnerEnded, InnerAwaits, Waiting, entryVars,
      history, TerminalStatus, Announced
<1>32. ASSUME ExpireJob PROVE Progress'
  BY <1>32 DEF ExpireJob, NoJob, InnerEnded, InnerAwaits, Waiting,
      deadlineVars, history, TerminalStatus, Announced
<1>33. ASSUME DeleteJob PROVE Progress'
  BY <1>33 DEF DeleteJob, NoJob, InnerEnded, InnerAwaits, Waiting,
      deadlineVars, history, TerminalStatus, Announced
<1>34. ASSUME Crash PROVE Progress'
  BY <1>34 DEF Crash, NoJob, NoCall, InnerEnded, InnerAwaits, Waiting,
      history, TerminalStatus, Announced
<1>35. ASSUME UNCHANGED vars PROVE Progress'
  BY <1>35 DEF vars, InnerEnded, InnerAwaits, Waiting, TerminalStatus,
      Announced
<1> QED
  BY <1>1, <1>2, <1>3, <1>4, <1>5, <1>6, <1>7, <1>8, <1>9, <1>10, <1>10d,
      <1>11,
     <1>12, <1>13, <1>14, <1>15, <1>16, <1>17, <1>18, <1>19, <1>20, <1>21,
     <1>22, <1>23, <1>24, <1>25, <1>26, <1>27, <1>28, <1>29, <1>30, <1>31,
     <1>32, <1>33, <1>34, <1>35
  DEF Next, JobStep, WrapperStep, InnerStep, ThreadStep

\* Without a soft limit the entry follows the event.
LEMMA SettledStep ==
    ASSUME TypeOK, Control, Stored, Released, Progress, Settled, [Next]_vars
    PROVE Settled'
<1>0. setup' = setup
  BY DEF Next, vars
<1>u. emitted \in Seq(Event)
  BY DEF TypeOK
<1> USE <1>0, EventFacts DEF TypeOK, Control, Stored, CompletedMeansSaved,
    Released, Progress, Settled, EntryTold, Origin, SoftTimeout
<1>1. ASSUME Submit PROVE Settled'
  <2>1. CASE Origin = "api"
    <3>1. Emit("job.created")
      BY <1>1, <2>1 DEF Submit
    <3>2. ~Announced("job.completed")' /\ ~Announced("job.failed")'
      BY <3>1, <1>u, EmitAnnounces
    <3> QED
      BY <1>1, <2>1, <3>2 DEF Submit, SetJob, InnerEnded, InnerAwaits,
          Waiting, history, TerminalStatus
  <2>2. CASE ~(Origin = "api")
    BY <1>1, <2>2 DEF Submit, SetJob, InnerEnded, InnerAwaits, Waiting,
        history, TerminalStatus, Announced
  <2> QED  BY <2>1, <2>2
<1>2. ASSUME StartWrapper PROVE Settled'
  BY <1>2 DEF StartWrapper, InnerEnded, InnerAwaits, Waiting, entryVars,
      history, TerminalStatus, Announced
<1>3. ASSUME SoftDeadline PROVE Settled'
  <2>1. CASE NoticeDue
    <3>1. Emit("job.overtime")
      BY <1>3, <2>1 DEF SoftDeadline
    <3>2. ~Announced("job.completed")' /\ ~Announced("job.failed")'
      BY <3>1, <1>u, EmitAnnounces
    <3> QED
      BY <1>3, <2>1, <3>2 DEF SoftDeadline, SetJob, InnerEnded,
          InnerAwaits, Waiting, history, TerminalStatus
  <2>2. CASE ~(NoticeDue)
    BY <1>3, <2>2 DEF SoftDeadline, SetJob, InnerEnded, InnerAwaits,
        Waiting, history, TerminalStatus, Announced
  <2> QED  BY <2>1, <2>2
<1>4. ASSUME HardDeadline PROVE Settled'
  BY <1>4 DEF HardDeadline, InnerEnded, InnerAwaits, Waiting, entryVars,
      history, TerminalStatus, Announced
<1>5. ASSUME HardFail PROVE Settled'
  <2>1. Emit("job.failed")
    BY <1>5 DEF HardFail, WrapperFails
  <2>2. ~Announced("job.completed")' /\ Announced("job.failed")'
    BY <2>1, <1>u, EmitAnnounces
  <2> QED
    BY <1>5, <2>2 DEF HardFail, WrapperFails, SetJob, MarkReportFailed,
        UpdateReport, Conclude, InnerEnded, InnerAwaits, Waiting,
        concludeRest, TerminalStatus
<1>6. ASSUME Join PROVE Settled'
  BY <1>6 DEF Join, Conclude, InnerEnded, InnerAwaits, Waiting, entryVars,
      concludeRest, TerminalStatus, Announced
<1>7. ASSUME JoinRaised PROVE Settled'
  <2>1. Emit("job.failed")
    BY <1>7 DEF JoinRaised, WrapperFails
  <2>2. ~Announced("job.completed")' /\ Announced("job.failed")'
    BY <2>1, <1>u, EmitAnnounces
  <2> QED
    BY <1>7, <2>2 DEF JoinRaised, WrapperFails, SetJob, MarkReportFailed,
        UpdateReport, Conclude, InnerEnded, InnerAwaits, Waiting,
        concludeRest, TerminalStatus
<1>8. ASSUME JoinCancelled PROVE Settled'
  BY <1>8 DEF JoinCancelled, InnerEnded, InnerAwaits, Waiting, entryVars,
      history, TerminalStatus, Announced
<1>9. ASSUME InnerStart PROVE Settled'
  BY <1>9 DEF InnerStart, Resumes, Await, Queued, NoCall, InnerEnded,
      InnerAwaits, Waiting, deadlineVars, entryVars, history, TerminalStatus,
      Announced
<1>10. ASSUME InitDone PROVE Settled'
  <2>1. Emit("job.running")
    BY <1>10 DEF InitDone
  <2>2. ~Announced("job.completed")' /\ ~Announced("job.failed")'
    BY <2>1, <1>u, EmitAnnounces
  <2> QED
    BY <1>10, <2>2 DEF InitDone, Resumes, CallReturned, SetJob, Await,
        NoCall, InnerEnded, InnerAwaits, Waiting, deadlineVars, history,
        TerminalStatus
<1>10d. ASSUME AnswerDryRun PROVE Settled'
  <2>1. emitted' = Append(Append(emitted, "job.running"), "job.completed")
    BY <1>10d DEF AnswerDryRun
  <2>2. Announced("job.completed")'
    BY <2>1, <1>u, AppendFacts, EventFacts DEF Announced
  <2> QED
    BY <1>10d, <2>2 DEF AnswerDryRun, Resumes, CallReturned, SetJob,
        NoCall, InnerEnded, InnerAwaits, Waiting, deadlineVars,
        TerminalStatus
<1>11. ASSUME InitRaised PROVE Settled'
  BY <1>11 DEF InitRaised, Resumes, CallRaised, NoCall, InnerEnded,
      InnerAwaits, Waiting, deadlineVars, entryVars, history, TerminalStatus,
      Announced
<1>12. ASSUME GraphDone PROVE Settled'
  BY <1>12 DEF GraphDone, Resumes, Await, NoCall, InnerEnded, InnerAwaits,
      Waiting, deadlineVars, entryVars, TerminalStatus, Announced
<1>13. ASSUME GraphRaised PROVE Settled'
  BY <1>13 DEF GraphRaised, Resumes, EnterFailing, SetJob, Await, Queued,
      NoCall, InnerEnded, InnerAwaits, Waiting, deadlineVars, TerminalStatus,
      Announced
<1>14. ASSUME GraphSwallowed PROVE Settled'
  BY <1>14 DEF GraphSwallowed, Resumes, Await, NoCall, InnerEnded,
      InnerAwaits, Waiting, deadlineVars, entryVars, TerminalStatus,
      Announced
<1>15. ASSUME ExtractDone PROVE Settled'
  BY <1>15 DEF ExtractDone, Resumes, Await, Queued, NoCall, InnerEnded,
      InnerAwaits, Waiting, deadlineVars, entryVars, history, TerminalStatus,
      Announced
<1>16. ASSUME ExtractRaised PROVE Settled'
  BY <1>16 DEF ExtractRaised, Resumes, EnterFailing, SetJob, Await, Queued,
      NoCall, InnerEnded, InnerAwaits, Waiting, deadlineVars, history,
      TerminalStatus, Announced
<1>17. ASSUME SaveDone PROVE Settled'
  <2>1. Emit("job.completed")
    BY <1>17 DEF SaveDone
  <2>2. Announced("job.completed")' /\ ~Announced("job.failed")'
    BY <2>1, <1>u, EmitAnnounces
  <2> QED
    BY <1>17, <2>2 DEF SaveDone, Resumes, CallReturned, SetJob, NoCall,
        InnerEnded, InnerAwaits, Waiting, deadlineVars, history,
        TerminalStatus
<1>18. ASSUME SaveRaised PROVE Settled'
  BY <1>18 DEF SaveRaised, Resumes, CallRaised, EnterFailing, SetJob, Await,
      Queued, NoCall, InnerEnded, InnerAwaits, Waiting, deadlineVars,
      history, TerminalStatus, Announced
<1>19. ASSUME FailureRecorded PROVE Settled'
  <2>1. Emit("job.failed")
    BY <1>19 DEF FailureRecorded
  <2>2. ~Announced("job.completed")' /\ Announced("job.failed")'
    BY <2>1, <1>u, EmitAnnounces
  <2> QED
    BY <1>19, <2>2 DEF FailureRecorded, Resumes, CallReturned, CallRaised,
        NoCall, InnerEnded, InnerAwaits, Waiting, deadlineVars, entryVars,
        history, TerminalStatus
<1>20. ASSUME InnerCancelled PROVE Settled'
  BY <1>20 DEF InnerCancelled, NoCall, InnerEnded, InnerAwaits, Waiting,
      entryVars, history, TerminalStatus, Announced
<1>21. ASSUME ThreadBegins PROVE Settled'
  BY <1>21 DEF ThreadBegins, Advance, threadRest, NoCall, InnerEnded,
      InnerAwaits, Waiting, deadlineVars, entryVars, TerminalStatus,
      Announced
<1>22. ASSUME InitInsert PROVE Settled'
  BY <1>22 DEF InitInsert, Advance, threadRest, NoCall, InnerEnded,
      InnerAwaits, Waiting, deadlineVars, entryVars, TerminalStatus,
      Announced
<1>23. ASSUME InitMark PROVE Settled'
  BY <1>23 DEF InitMark, Advance, threadRest, UpdateReport, NoCall,
      InnerEnded, InnerAwaits, Waiting, deadlineVars, entryVars,
      TerminalStatus, Announced
<1>24. ASSUME InitDbFails PROVE Settled'
  BY <1>24 DEF InitDbFails, Advance, threadRest, NoCall, InnerEnded,
      InnerAwaits, Waiting, deadlineVars, entryVars, TerminalStatus,
      Announced
<1>25. ASSUME Configure PROVE Settled'
  BY <1>25 DEF Configure, Advance, threadRest, NoCall, InnerEnded,
      InnerAwaits, Waiting, deadlineVars, entryVars, TerminalStatus,
      Announced
<1>26. ASSUME SaveCommit PROVE Settled'
  BY <1>26 DEF SaveCommit, Advance, threadRest, NoCall, InnerEnded,
      InnerAwaits, Waiting, deadlineVars, entryVars, TerminalStatus,
      Announced
<1>27. ASSUME SaveReturns PROVE Settled'
  BY <1>27 DEF SaveReturns, Advance, threadRest, NoCall, InnerEnded,
      InnerAwaits, Waiting, deadlineVars, entryVars, TerminalStatus,
      Announced
<1>28. ASSUME SaveRaises PROVE Settled'
  BY <1>28 DEF SaveRaises, Advance, threadRest, NoCall, InnerEnded,
      InnerAwaits, Waiting, deadlineVars, entryVars, TerminalStatus,
      Announced
<1>29. ASSUME RecordFailure PROVE Settled'
  BY <1>29 DEF RecordFailure, Advance, threadRest, UpdateReport, NoCall,
      InnerEnded, InnerAwaits, Waiting, deadlineVars, entryVars,
      TerminalStatus, Announced
<1>30. ASSUME RecordRaises PROVE Settled'
  BY <1>30 DEF RecordRaises, Advance, threadRest, NoCall, InnerEnded,
      InnerAwaits, Waiting, deadlineVars, entryVars, TerminalStatus,
      Announced
<1>31. ASSUME Shutdown PROVE Settled'
  BY <1>31 DEF Shutdown, InnerEnded, InnerAwaits, Waiting, entryVars,
      history, TerminalStatus, Announced
<1>32. ASSUME ExpireJob PROVE Settled'
  BY <1>32 DEF ExpireJob, NoJob, InnerEnded, InnerAwaits, Waiting,
      deadlineVars, history, TerminalStatus, Announced
<1>33. ASSUME DeleteJob PROVE Settled'
  BY <1>33 DEF DeleteJob, NoJob, InnerEnded, InnerAwaits, Waiting,
      deadlineVars, history, TerminalStatus, Announced
<1>34. ASSUME Crash PROVE Settled'
  BY <1>34 DEF Crash, NoJob, NoCall, InnerEnded, InnerAwaits, Waiting,
      history, TerminalStatus, Announced
<1>35. ASSUME UNCHANGED vars PROVE Settled'
  BY <1>35 DEF vars, InnerEnded, InnerAwaits, Waiting, TerminalStatus,
      Announced
<1> QED
  BY <1>1, <1>2, <1>3, <1>4, <1>5, <1>6, <1>7, <1>8, <1>9, <1>10, <1>10d,
      <1>11,
     <1>12, <1>13, <1>14, <1>15, <1>16, <1>17, <1>18, <1>19, <1>20, <1>21,
     <1>22, <1>23, <1>24, <1>25, <1>26, <1>27, <1>28, <1>29, <1>30, <1>31,
     <1>32, <1>33, <1>34, <1>35
  DEF Next, JobStep, WrapperStep, InnerStep, ThreadStep

\* A completed row stays as the save left it.
LEMMA FinalisedStep ==
    ASSUME TypeOK, Control, Released, Progress, Finalised, [Next]_vars
    PROVE Finalised'
<1>0. setup' = setup
  BY DEF Next, vars
<1>u. emitted \in Seq(Event)
  BY DEF TypeOK
<1> USE <1>0, EventFacts DEF TypeOK, Control, Released, Progress, Finalised
<1>1. ASSUME Submit PROVE Finalised'
  <2>1. CASE Origin = "api"
    <3>1. Emit("job.created")
      BY <1>1, <2>1 DEF Submit
    <3>2. ~Announced("job.completed")' /\ ~Announced("job.failed")'
      BY <3>1, <1>u, EmitAnnounces
    <3> QED
      BY <1>1, <2>1, <3>2 DEF Submit, SetJob, InnerEnded, InnerAwaits,
          Waiting, history
  <2>2. CASE ~(Origin = "api")
    BY <1>1, <2>2 DEF Submit, SetJob, InnerEnded, InnerAwaits, Waiting,
        history, Announced
  <2> QED  BY <2>1, <2>2
<1>2. ASSUME StartWrapper PROVE Finalised'
  BY <1>2 DEF StartWrapper, InnerEnded, InnerAwaits, Waiting, entryVars,
      history, Announced
<1>3. ASSUME SoftDeadline PROVE Finalised'
  <2>1. CASE NoticeDue
    <3>1. Emit("job.overtime")
      BY <1>3, <2>1 DEF SoftDeadline
    <3>2. ~Announced("job.completed")' /\ ~Announced("job.failed")'
      BY <3>1, <1>u, EmitAnnounces
    <3> QED
      BY <1>3, <2>1, <3>2 DEF SoftDeadline, SetJob, InnerEnded,
          InnerAwaits, Waiting, history
  <2>2. CASE ~(NoticeDue)
    BY <1>3, <2>2 DEF SoftDeadline, SetJob, InnerEnded, InnerAwaits,
        Waiting, history, Announced
  <2> QED  BY <2>1, <2>2
<1>4. ASSUME HardDeadline PROVE Finalised'
  BY <1>4 DEF HardDeadline, InnerEnded, InnerAwaits, Waiting, entryVars,
      history, Announced
<1>5. ASSUME HardFail PROVE Finalised'
  <2>1. Emit("job.failed")
    BY <1>5 DEF HardFail, WrapperFails
  <2>2. ~Announced("job.completed")' /\ Announced("job.failed")'
    BY <2>1, <1>u, EmitAnnounces
  <2> QED
    BY <1>5, <2>2 DEF HardFail, WrapperFails, SetJob, MarkReportFailed,
        UpdateReport, Conclude, InnerEnded, InnerAwaits, Waiting,
        concludeRest
<1>6. ASSUME Join PROVE Finalised'
  BY <1>6 DEF Join, Conclude, InnerEnded, InnerAwaits, Waiting, entryVars,
      concludeRest, Announced
<1>7. ASSUME JoinRaised PROVE Finalised'
  <2>1. Emit("job.failed")
    BY <1>7 DEF JoinRaised, WrapperFails
  <2>2. ~Announced("job.completed")' /\ Announced("job.failed")'
    BY <2>1, <1>u, EmitAnnounces
  <2> QED
    BY <1>7, <2>2 DEF JoinRaised, WrapperFails, SetJob, MarkReportFailed,
        UpdateReport, Conclude, InnerEnded, InnerAwaits, Waiting,
        concludeRest
<1>8. ASSUME JoinCancelled PROVE Finalised'
  BY <1>8 DEF JoinCancelled, InnerEnded, InnerAwaits, Waiting, entryVars,
      history, Announced
<1>9. ASSUME InnerStart PROVE Finalised'
  BY <1>9 DEF InnerStart, Resumes, Await, Queued, NoCall, InnerEnded,
      InnerAwaits, Waiting, deadlineVars, entryVars, history, Announced
<1>10. ASSUME InitDone PROVE Finalised'
  <2>1. Emit("job.running")
    BY <1>10 DEF InitDone
  <2>2. ~Announced("job.completed")' /\ ~Announced("job.failed")'
    BY <2>1, <1>u, EmitAnnounces
  <2> QED
    BY <1>10, <2>2 DEF InitDone, Resumes, CallReturned, SetJob, Await,
        NoCall, InnerEnded, InnerAwaits, Waiting, deadlineVars, history
<1>10d. ASSUME AnswerDryRun PROVE Finalised'
  <2>1. emitted' = Append(Append(emitted, "job.running"), "job.completed")
    BY <1>10d DEF AnswerDryRun
  <2>2. Announced("job.completed")'
    BY <2>1, <1>u, AppendFacts, EventFacts DEF Announced
  <2> QED
    BY <1>10d, <2>2 DEF AnswerDryRun, Resumes, CallReturned, SetJob,
        NoCall, InnerEnded, InnerAwaits, Waiting, deadlineVars
<1>11. ASSUME InitRaised PROVE Finalised'
  BY <1>11 DEF InitRaised, Resumes, CallRaised, NoCall, InnerEnded,
      InnerAwaits, Waiting, deadlineVars, entryVars, history, Announced
<1>12. ASSUME GraphDone PROVE Finalised'
  BY <1>12 DEF GraphDone, Resumes, Await, NoCall, InnerEnded, InnerAwaits,
      Waiting, deadlineVars, entryVars, Announced
<1>13. ASSUME GraphRaised PROVE Finalised'
  BY <1>13 DEF GraphRaised, Resumes, EnterFailing, SetJob, Await, Queued,
      NoCall, InnerEnded, InnerAwaits, Waiting, deadlineVars, Announced
<1>14. ASSUME GraphSwallowed PROVE Finalised'
  BY <1>14 DEF GraphSwallowed, Resumes, Await, NoCall, InnerEnded,
      InnerAwaits, Waiting, deadlineVars, entryVars, Announced
<1>15. ASSUME ExtractDone PROVE Finalised'
  BY <1>15 DEF ExtractDone, Resumes, Await, Queued, NoCall, InnerEnded,
      InnerAwaits, Waiting, deadlineVars, entryVars, history, Announced
<1>16. ASSUME ExtractRaised PROVE Finalised'
  BY <1>16 DEF ExtractRaised, Resumes, EnterFailing, SetJob, Await, Queued,
      NoCall, InnerEnded, InnerAwaits, Waiting, deadlineVars, history,
      Announced
<1>17. ASSUME SaveDone PROVE Finalised'
  <2>1. Emit("job.completed")
    BY <1>17 DEF SaveDone
  <2>2. Announced("job.completed")' /\ ~Announced("job.failed")'
    BY <2>1, <1>u, EmitAnnounces
  <2> QED
    BY <1>17, <2>2 DEF SaveDone, Resumes, CallReturned, SetJob, NoCall,
        InnerEnded, InnerAwaits, Waiting, deadlineVars, history
<1>18. ASSUME SaveRaised PROVE Finalised'
  BY <1>18 DEF SaveRaised, Resumes, CallRaised, EnterFailing, SetJob, Await,
      Queued, NoCall, InnerEnded, InnerAwaits, Waiting, deadlineVars,
      history, Announced
<1>19. ASSUME FailureRecorded PROVE Finalised'
  <2>1. Emit("job.failed")
    BY <1>19 DEF FailureRecorded
  <2>2. ~Announced("job.completed")' /\ Announced("job.failed")'
    BY <2>1, <1>u, EmitAnnounces
  <2> QED
    BY <1>19, <2>2 DEF FailureRecorded, Resumes, CallReturned, CallRaised,
        NoCall, InnerEnded, InnerAwaits, Waiting, deadlineVars, entryVars,
        history
<1>20. ASSUME InnerCancelled PROVE Finalised'
  BY <1>20 DEF InnerCancelled, NoCall, InnerEnded, InnerAwaits, Waiting,
      entryVars, history, Announced
<1>21. ASSUME ThreadBegins PROVE Finalised'
  BY <1>21 DEF ThreadBegins, Advance, threadRest, NoCall, InnerEnded,
      InnerAwaits, Waiting, deadlineVars, entryVars, Announced
<1>22. ASSUME InitInsert PROVE Finalised'
  BY <1>22 DEF InitInsert, Advance, threadRest, NoCall, InnerEnded,
      InnerAwaits, Waiting, deadlineVars, entryVars, Announced
<1>23. ASSUME InitMark PROVE Finalised'
  BY <1>23 DEF InitMark, Advance, threadRest, UpdateReport, NoCall,
      InnerEnded, InnerAwaits, Waiting, deadlineVars, entryVars, Announced
<1>24. ASSUME InitDbFails PROVE Finalised'
  BY <1>24 DEF InitDbFails, Advance, threadRest, NoCall, InnerEnded,
      InnerAwaits, Waiting, deadlineVars, entryVars, Announced
<1>25. ASSUME Configure PROVE Finalised'
  BY <1>25 DEF Configure, Advance, threadRest, NoCall, InnerEnded,
      InnerAwaits, Waiting, deadlineVars, entryVars, Announced
<1>26. ASSUME SaveCommit PROVE Finalised'
  BY <1>26 DEF SaveCommit, Advance, threadRest, NoCall, InnerEnded,
      InnerAwaits, Waiting, deadlineVars, entryVars, Announced
<1>27. ASSUME SaveReturns PROVE Finalised'
  BY <1>27 DEF SaveReturns, Advance, threadRest, NoCall, InnerEnded,
      InnerAwaits, Waiting, deadlineVars, entryVars, Announced
<1>28. ASSUME SaveRaises PROVE Finalised'
  BY <1>28 DEF SaveRaises, Advance, threadRest, NoCall, InnerEnded,
      InnerAwaits, Waiting, deadlineVars, entryVars, Announced
<1>29. ASSUME RecordFailure PROVE Finalised'
  BY <1>29 DEF RecordFailure, Advance, threadRest, UpdateReport, NoCall,
      InnerEnded, InnerAwaits, Waiting, deadlineVars, entryVars, Announced
<1>30. ASSUME RecordRaises PROVE Finalised'
  BY <1>30 DEF RecordRaises, Advance, threadRest, NoCall, InnerEnded,
      InnerAwaits, Waiting, deadlineVars, entryVars, Announced
<1>31. ASSUME Shutdown PROVE Finalised'
  BY <1>31 DEF Shutdown, InnerEnded, InnerAwaits, Waiting, entryVars,
      history, Announced
<1>32. ASSUME ExpireJob PROVE Finalised'
  BY <1>32 DEF ExpireJob, NoJob, InnerEnded, InnerAwaits, Waiting,
      deadlineVars, history, Announced
<1>33. ASSUME DeleteJob PROVE Finalised'
  BY <1>33 DEF DeleteJob, NoJob, InnerEnded, InnerAwaits, Waiting,
      deadlineVars, history, Announced
<1>34. ASSUME Crash PROVE Finalised'
  BY <1>34 DEF Crash, NoJob, NoCall, InnerEnded, InnerAwaits, Waiting,
      history, Announced
<1>35. ASSUME UNCHANGED vars PROVE Finalised'
  BY <1>35 DEF vars, InnerEnded, InnerAwaits, Waiting, Announced
<1> QED
  BY <1>1, <1>2, <1>3, <1>4, <1>5, <1>6, <1>7, <1>8, <1>9, <1>10, <1>10d,
      <1>11,
     <1>12, <1>13, <1>14, <1>15, <1>16, <1>17, <1>18, <1>19, <1>20, <1>21,
     <1>22, <1>23, <1>24, <1>25, <1>26, <1>27, <1>28, <1>29, <1>30, <1>31,
     <1>32, <1>33, <1>34, <1>35
  DEF Next, JobStep, WrapperStep, InnerStep, ThreadStep

-----------------------------------------------------------------------------
(* The theorems.                                                           *)

LEMMA Initially == Init => IInv
<1> SUFFICES ASSUME Init PROVE IInv
  OBVIOUS
<1> USE DEF Init
<1>1. emitted = <<>> /\ Len(emitted) = 0
  OBVIOUS
<1>2. TypeOK
  <2>1. ControlType
    BY DEF ControlType, NoCall
  <2>2. emitted \in Seq(Event)
    OBVIOUS
  <2>3. job \in [status : Status, overtime : BOOLEAN]
    BY DEF NoJob, Status
  <2>4. StoreType
    BY <2>2, <2>3 DEF StoreType, Status
  <2> QED  BY <2>1, <2>4 DEF TypeOK, ControlType, StoreType
<1>3. Control
  BY DEF Control, InnerEnded, InnerAwaits
<1>4. Log
  BY <1>1 DEF Log, TerminalLast, Silent, InnerEnded
<1>5. Stored
  BY <1>1 DEF Stored, CompletedMeansSaved, Announced, NoCall, NoJob
<1>6. Records
  BY <1>1 DEF Records, Released, Progress, Settled, Finalised, Announced,
      NoCall, NoJob, Waiting, TerminalStatus, EntryTold
<1> QED
  BY <1>2, <1>3, <1>4, <1>5, <1>6 DEF IInv

\* IInv is an inductive invariant of the specification.
THEOREM Inductive == Spec => []IInv
<1>1. IInv /\ [Next]_vars => IInv'
  BY TypeStep, ControlStep, LogStep, StoredStep, ReleasedStep, ProgressStep,
     SettledStep, FinalisedStep
  DEF IInv, Records
<1> QED
  BY Initially, <1>1, PTL DEF Spec

\* The variables of a job stay in their ranges, whatever is cancelled, raised
\* or left running.
THEOREM TypeCorrect == Spec => []TypeOK
<1>1. IInv => TypeOK
  BY DEF IInv
<1> QED
  BY Inductive, <1>1, PTL

\* No event follows a terminal one, so a job has at most one verdict.
THEOREM AtMostOneVerdict == Spec => []TerminalLast
<1>1. IInv => TerminalLast
  BY DEF IInv, Log
<1> QED
  BY Inductive, <1>1, PTL

\* When _run_job returns, a verdict is the last event and the inner task is
\* over.
THEOREM NoSilentReturn == Spec => []ReturnedMeansAnnounced
<1>1. IInv => ReturnedMeansAnnounced
  BY DEF IInv, Log, Control, ReturnedMeansAnnounced
<1> QED
  BY Inductive, <1>1, PTL

\* A job whose _run_job has returned has one verdict, said last.
THEOREM ExactlyOneVerdict == Spec => []OneVerdict
<1>1. IInv => OneVerdict
  BY DEF IInv, Log, Control, ReturnedMeansAnnounced, OneVerdict
<1> QED
  BY Inductive, <1>1, PTL

\* Neither the entry nor the event claims a completion without its report.
THEOREM NoCompletionUnsaved == Spec => []CompletedMeansSaved
<1>1. IInv => CompletedMeansSaved
  BY DEF IInv, Stored
<1> QED
  BY Inductive, <1>1, PTL

\* Once _run_job has returned, the entry, the scheduler's verdict and the row
\* agree with the event, in the cases RecordsAgree names.
THEOREM RecordsStayInAgreement == Spec => []RecordsAgree
<1>1. ASSUME IInv PROVE RecordsAgree
  <2> USE <1>1 DEF IInv, Records
  <2>1. CompletedMeansSaved
    BY DEF Stored
  <2>2. ASSUME SoftTimeout = 0, ~setup.ttlOvertakes
        PROVE EntryAgrees /\ (verdict = "success" => saved)
    BY <2>2 DEF Settled, EntryTold, EntryAgrees
  <2>3. Announced("job.completed") /\ Route = "intent" =>
            graph \in {"finished", "skipped"}
    BY DEF Progress
  <2>4. wrapper = "returned" /\ inner # "cancelled" /\ graph # "skipped"
        /\ Announced("job.completed") => report = "completed"
    BY DEF Finalised
  <2> QED  BY <2>1, <2>2, <2>3, <2>4 DEF RecordsAgree
<1> QED
  BY Inductive, <1>1, PTL

\* Without a soft limit no step replaces a terminal status.
LEMMA StatusKept ==
    ASSUME TypeOK, Control, Progress, Settled, SoftTimeout = 0,
           job.status \in TerminalStatus, [Next]_vars
    PROVE job'.status \in {job.status, "absent"}
<1> DEFINE Goal == job'.status \in {job.status, "absent"}
<1> USE DEF TypeOK, Control, Progress, Settled, TerminalStatus
<1>1. ASSUME Submit PROVE Goal
  BY <1>1 DEF Submit, SetJob, InnerEnded, InnerAwaits, Waiting, history
<1>2. ASSUME SoftDeadline PROVE Goal
  BY <1>2 DEF SoftDeadline, SetJob, InnerEnded, InnerAwaits, Waiting, history
<1>3. ASSUME HardFail PROVE Goal
  BY <1>3 DEF HardFail, WrapperFails, SetJob, MarkReportFailed, UpdateReport,
      Conclude, InnerEnded, InnerAwaits, Waiting, concludeRest
<1>4. ASSUME JoinRaised PROVE Goal
  BY <1>4 DEF JoinRaised, WrapperFails, SetJob, MarkReportFailed,
      UpdateReport, Conclude, InnerEnded, InnerAwaits, Waiting, concludeRest
<1>5. ASSUME AnswerDryRun PROVE Goal
  BY <1>5 DEF AnswerDryRun, Resumes, CallReturned, SetJob, NoCall,
      InnerEnded, InnerAwaits, Waiting, deadlineVars
<1>6. ASSUME InitDone PROVE Goal
  BY <1>6 DEF InitDone, Resumes, CallReturned, SetJob, Await, NoCall,
      InnerEnded, InnerAwaits, Waiting, deadlineVars, history
<1>7. ASSUME GraphRaised PROVE Goal
  BY <1>7 DEF GraphRaised, Resumes, EnterFailing, SetJob, Await, Queued,
      InnerEnded, InnerAwaits, Waiting, deadlineVars
<1>8. ASSUME ExtractRaised PROVE Goal
  BY <1>8 DEF ExtractRaised, Resumes, EnterFailing, SetJob, Await, Queued,
      InnerEnded, InnerAwaits, Waiting, deadlineVars, history
<1>9. ASSUME SaveDone PROVE Goal
  BY <1>9 DEF SaveDone, Resumes, CallReturned, SetJob, NoCall, InnerEnded,
      InnerAwaits, Waiting, deadlineVars, history
<1>10. ASSUME SaveRaised PROVE Goal
  BY <1>10 DEF SaveRaised, Resumes, CallRaised, EnterFailing, SetJob, Await,
      Queued, InnerEnded, InnerAwaits, Waiting, deadlineVars, history
<1>11. ASSUME ExpireJob PROVE Goal
  BY <1>11 DEF ExpireJob, NoJob, InnerEnded, InnerAwaits, Waiting,
      deadlineVars, history
<1>12. ASSUME DeleteJob PROVE Goal
  BY <1>12 DEF DeleteJob, NoJob, InnerEnded, InnerAwaits, Waiting,
      deadlineVars, history
<1>13. ASSUME Crash PROVE Goal
  BY <1>13 DEF Crash, NoJob, NoCall, InnerEnded, InnerAwaits, Waiting,
      history
<1>14. ASSUME StartWrapper \/ HardDeadline \/ Join \/ JoinCancelled \/
            Shutdown
      PROVE Goal
  BY <1>14 DEF StartWrapper, HardDeadline, Join, JoinCancelled, Shutdown,
      InnerEnded, InnerAwaits, Waiting, entryVars, history, concludeRest
<1>15. ASSUME InnerStart \/ InitRaised \/ GraphDone \/ GraphSwallowed \/
            ExtractDone \/ FailureRecorded \/ InnerCancelled
      PROVE Goal
  BY <1>15 DEF InnerStart, InitRaised, GraphDone, GraphSwallowed,
      ExtractDone, FailureRecorded, InnerCancelled, InnerEnded, InnerAwaits,
      Waiting, deadlineVars, entryVars, history
<1>16. ASSUME ThreadBegins \/ InitInsert \/ InitMark \/ InitDbFails \/
            Configure \/ SaveCommit \/ SaveReturns \/ SaveRaises \/
            RecordFailure \/ RecordRaises
      PROVE Goal
  BY <1>16 DEF ThreadBegins, InitInsert, InitMark, InitDbFails, Configure,
      SaveCommit, SaveReturns, SaveRaises, RecordFailure, RecordRaises,
      Advance, threadRest, InnerEnded, InnerAwaits, Waiting, deadlineVars,
      entryVars
<1>17. ASSUME UNCHANGED vars PROVE Goal
  BY <1>17 DEF vars
<1> QED
  BY <1>1, <1>2, <1>3, <1>4, <1>5, <1>6, <1>7, <1>8, <1>9, <1>10, <1>11,
     <1>12, <1>13, <1>14, <1>15, <1>16, <1>17
  DEF Next, JobStep, WrapperStep, InnerStep, ThreadStep

\* Nothing of a job that has returned uncancelled is left to write its row.
LEMMA RowKept ==
    ASSUME TypeOK, Control, Released, wrapper = "returned", inner #
        "cancelled", [Next]_vars
    PROVE report' = report
<1> DEFINE Goal == report' = report
<1> USE DEF TypeOK, Control, Released, NoCall
<1>1. ASSUME HardFail PROVE Goal
  BY <1>1 DEF HardFail, WrapperFails, SetJob, MarkReportFailed, UpdateReport,
      Conclude, InnerEnded, InnerAwaits, Waiting, concludeRest
<1>2. ASSUME JoinRaised PROVE Goal
  BY <1>2 DEF JoinRaised, WrapperFails, SetJob, MarkReportFailed,
      UpdateReport, Conclude, InnerEnded, InnerAwaits, Waiting, concludeRest
<1>3. ASSUME InitInsert PROVE Goal
  BY <1>3 DEF InitInsert, Advance, threadRest, InnerEnded, InnerAwaits,
      Waiting, deadlineVars, entryVars
<1>4. ASSUME InitMark PROVE Goal
  BY <1>4 DEF InitMark, Advance, threadRest, UpdateReport, InnerEnded,
      InnerAwaits, Waiting, deadlineVars, entryVars
<1>5. ASSUME SaveCommit PROVE Goal
  BY <1>5 DEF SaveCommit, Advance, threadRest, InnerEnded, InnerAwaits,
      Waiting, deadlineVars, entryVars
<1>6. ASSUME RecordFailure PROVE Goal
  BY <1>6 DEF RecordFailure, Advance, threadRest, UpdateReport, InnerEnded,
      InnerAwaits, Waiting, deadlineVars, entryVars
<1>7. ASSUME Submit \/ StartWrapper \/ SoftDeadline \/ HardDeadline \/ Join \/
            JoinCancelled \/ Shutdown \/ ExpireJob \/ DeleteJob \/ Crash
      PROVE Goal
  BY <1>7 DEF Submit, StartWrapper, SoftDeadline, HardDeadline, Join,
      JoinCancelled, Shutdown, ExpireJob, DeleteJob, Crash, InnerEnded,
      InnerAwaits, Waiting, deadlineVars, entryVars, history, concludeRest
<1>8. ASSUME InnerStart \/ InitDone \/ AnswerDryRun \/ InitRaised \/ GraphDone
            \/ GraphRaised \/ GraphSwallowed \/ ExtractDone \/ ExtractRaised
            \/ SaveDone \/ SaveRaised \/ FailureRecorded \/ InnerCancelled
      PROVE Goal
  BY <1>8 DEF InnerStart, InitDone, AnswerDryRun, InitRaised, GraphDone,
      GraphRaised, GraphSwallowed, ExtractDone, ExtractRaised, SaveDone,
      SaveRaised, FailureRecorded, InnerCancelled, InnerEnded, InnerAwaits,
      Waiting, deadlineVars, entryVars, history
<1>9. ASSUME ThreadBegins \/ InitDbFails \/ Configure \/ SaveReturns \/
            SaveRaises \/ RecordRaises
      PROVE Goal
  BY <1>9 DEF ThreadBegins, InitDbFails, Configure, SaveReturns, SaveRaises,
      RecordRaises, Advance, threadRest, InnerEnded, InnerAwaits, Waiting,
      deadlineVars, entryVars
<1>10. ASSUME UNCHANGED vars PROVE Goal
  BY <1>10 DEF vars
<1> QED
  BY <1>1, <1>2, <1>3, <1>4, <1>5, <1>6, <1>7, <1>8, <1>9, <1>10
  DEF Next, JobStep, WrapperStep, InnerStep, ThreadStep

\* Without a soft limit a terminal status is only ever removed, and a job that
\* has returned with its inner task uncancelled leaves its row alone.
THEOREM SettledForGood == Spec => NothingTakenBack
<1>1. IInv /\ [Next]_vars =>
          [/\ SoftTimeout = 0 /\ job.status \in TerminalStatus =>
                  job'.status \in {job.status, "absent"}
           /\ wrapper = "returned" /\ inner # "cancelled" =>
                  report' = report]_vars
  BY StatusKept, RowKept DEF IInv, Records
<1> QED
  BY Inductive, <1>1, PTL DEF Spec, NothingTakenBack

-----------------------------------------------------------------------------
(* JobLifecycle implements JobPromise.                                     *)

\* The concrete steps map to these abstract ones.
Simulates == [Promise!Next]_(Promise!vars)

LEMMA Stutters ==
    ASSUME UNCHANGED <<emitted, saved>>, Ended' = Ended PROVE Simulates
BY DEF Simulates, Promise!vars, Outcome, Announced

LEMMA UndecidedOutcome == Silent /\ emitted \in Seq(Event) => Outcome = "undecided"
<1> SUFFICES ASSUME Silent, emitted \in Seq(Event), emitted # <<>>
             PROVE emitted[Len(emitted)] \notin TerminalEvent
  BY EventFacts DEF Outcome, Announced
<1>1. Len(emitted) \in 1..Len(emitted)
  OBVIOUS
<1> QED
  BY <1>1 DEF Silent

\* Emitting a verdict to an undecided job announces it.
LEMMA VerdictAnnounces ==
    ASSUME emitted \in Seq(Event), Silent, NEW e \in TerminalEvent, Emit(e),
           Ended = "open", Ended' \in {"open", "answered"}, saved' = saved,
           CompletedMeansSaved'
    PROVE Simulates
<1>1. \A other \in Event : Announced(other)' <=> other = e
  BY EmitAnnounces, EventFacts
<1>2. Outcome = "undecided"
  BY UndecidedOutcome
<1> DEFINE result == IF e = "job.completed" THEN "completed" ELSE "failed"
<1>3. Outcome' = result
  BY <1>1, EventFacts DEF Outcome
<1>4. result = "completed" => saved
  BY <1>1, EventFacts DEF CompletedMeansSaved
<1>5. result \in {"completed", "failed"}
  OBVIOUS
<1>6. Promise!Announce(result)
  BY <1>2, <1>3, <1>4 DEF Promise!Announce
<1> QED
  BY <1>5, <1>6 DEF Simulates, Promise!Next

\* Emitting a notice to an undecided job changes nothing a client relies on.
LEMMA NoticeStutters ==
    ASSUME emitted \in Seq(Event), Silent, NEW e \in Event \ TerminalEvent,
           Emit(e), Ended' = Ended, saved' = saved
    PROVE Simulates
<1>1. \A other \in Event : Announced(other)' <=> other = e
  BY EmitAnnounces
<1>2. Outcome = "undecided" /\ Outcome' = "undecided"
  BY <1>1, UndecidedOutcome, EventFacts DEF Outcome
<1> QED
  BY <1>2 DEF Simulates, Promise!vars

LEMMA RefinementStep == ASSUME IInv, IInv', [Next]_vars PROVE Simulates
<1>u. /\ emitted \in Seq(Event)
      /\ Undecided => Silent
      /\ CompletedMeansSaved'
  BY DEF IInv, TypeOK, Log, Stored
<1>c. Control
  BY DEF IInv
<1>v. Undecided => Ended = "open"
  BY DEF Undecided, Ended
<1>1. CASE HardFail
  <2>1. Undecided /\ Emit("job.failed") /\ saved' = saved
    BY <1>1, <1>c DEF HardFail, WrapperFails, Undecided, Control,
        Waiting, InnerEnded, InnerAwaits, history, concludeRest
  <2>2. Ended' \in {"open", "answered"}
    BY <1>1, <1>c, <2>1 DEF HardFail, WrapperFails, Undecided, Ended,
        deadlineVars
  <2> QED  BY <2>1, <2>2, <1>u, <1>v, VerdictAnnounces, EventFacts
<1>2. CASE JoinRaised
  <2>1. Undecided /\ Emit("job.failed") /\ saved' = saved
    BY <1>2, <1>c DEF JoinRaised, WrapperFails, Undecided, Control,
        Waiting, InnerEnded, InnerAwaits, history, concludeRest
  <2>2. Ended' \in {"open", "answered"}
    BY <1>2, <1>c, <2>1 DEF JoinRaised, WrapperFails, Undecided, Ended,
        deadlineVars
  <2> QED  BY <2>1, <2>2, <1>u, <1>v, VerdictAnnounces, EventFacts
<1>3. CASE SaveDone
  <2>1. Undecided /\ Emit("job.completed") /\ saved' = saved
    BY <1>3, <1>c DEF SaveDone, Resumes, Undecided, Control,
        Waiting, InnerEnded, InnerAwaits, history, concludeRest
  <2>2. Ended' \in {"open", "answered"}
    BY <1>3, <1>c, <2>1 DEF SaveDone, Resumes, Undecided, Ended, deadlineVars
  <2> QED  BY <2>1, <2>2, <1>u, <1>v, VerdictAnnounces, EventFacts
<1>4. CASE FailureRecorded
  <2>1. Undecided /\ Emit("job.failed") /\ saved' = saved
    BY <1>4, <1>c DEF FailureRecorded, Resumes, Undecided, Control,
        Waiting, InnerEnded, InnerAwaits, history, concludeRest
  <2>2. Ended' \in {"open", "answered"}
    BY <1>4, <1>c, <2>1 DEF FailureRecorded, Resumes, Undecided, Ended,
        deadlineVars
  <2> QED  BY <2>1, <2>2, <1>u, <1>v, VerdictAnnounces, EventFacts
<1>5. CASE Submit
  <2>1. Undecided /\ saved' = saved /\ Ended' = Ended
    BY <1>5, <1>c DEF Submit, Undecided, Control, Ended, Waiting, InnerEnded,
        history
  <2>2. CASE Origin = "api"
    BY <1>5, <2>1, <2>2, <1>u, NoticeStutters, EventFacts DEF Submit
  <2>3. CASE ~(Origin = "api")
    BY <1>5, <2>1, <2>3, Stutters DEF Submit
  <2> QED  BY <2>2, <2>3
<1>6. CASE SoftDeadline
  <2>1. Undecided /\ saved' = saved /\ Ended' = Ended
    BY <1>6, <1>c DEF SoftDeadline, Undecided, Control, Ended, Waiting,
        InnerEnded,
        history
  <2>2. CASE NoticeDue
    BY <1>6, <2>1, <2>2, <1>u, NoticeStutters, EventFacts DEF SoftDeadline
  <2>3. CASE ~(NoticeDue)
    BY <1>6, <2>1, <2>3, Stutters DEF SoftDeadline
  <2> QED  BY <2>2, <2>3
<1>7. CASE InitDone
  <2>1. Undecided /\ saved' = saved /\ Ended' = Ended
    BY <1>7, <1>c DEF InitDone, Resumes, Undecided, Control, Ended, Waiting,
        InnerEnded, InnerAwaits, history, deadlineVars
  <2> QED
    BY <1>7, <2>1, <1>u, NoticeStutters, EventFacts DEF InitDone
<1>7d. CASE AnswerDryRun
  <2>1. Undecided /\ saved' = TRUE /\ Ended' = Ended
    BY <1>7d, <1>c DEF AnswerDryRun, Resumes, Undecided, Control, Ended,
        Waiting, InnerEnded, InnerAwaits, deadlineVars
  <2>2. emitted' = Append(Append(emitted, "job.running"), "job.completed")
    BY <1>7d DEF AnswerDryRun
  <2>3. Outcome = "undecided"
    BY <2>1, <1>u, UndecidedOutcome
  <2>4. Outcome' = "completed"
    <3>1. emitted' # <<>> /\ emitted'[Len(emitted')] = "job.completed"
      BY <2>2, <1>u, EventFacts, AppendFacts
    <3> QED  BY <3>1 DEF Outcome, Announced
  <2>5. Promise!Announce("completed")
    BY <2>1, <2>3, <2>4, <1>v DEF Promise!Announce
  <2> QED  BY <2>5 DEF Simulates, Promise!Next
<1>8. CASE SaveCommit
  <2>1. saved' = TRUE /\ Outcome' = Outcome /\ Ended' = Ended
    BY <1>8 DEF SaveCommit, threadRest, deadlineVars, Outcome, Ended, Announced
  <2>2. Promise!Persist
    BY <2>1 DEF Promise!Persist
  <2> QED  BY <2>2 DEF Simulates, Promise!Next
<1>9. CASE Join
  <2>1. UNCHANGED <<emitted, saved>> /\ Ended = "open" /\ Ended' = "answered"
    BY <1>9 DEF Join, Ended, Waiting, concludeRest
  <2>2. Outcome # "undecided" /\ Outcome' = Outcome
    BY <1>9, <2>1, EventFacts DEF Join, IInv, Log, Outcome, Announced
  <2>3. Promise!Answer
    BY <2>1, <2>2 DEF Promise!Answer
  <2> QED  BY <2>3 DEF Simulates, Promise!Next
<1>10. CASE JoinCancelled \/ Shutdown \/ Crash
  <2>1. UNCHANGED <<emitted, saved>>
    BY <1>10 DEF JoinCancelled, Shutdown, Crash, history
  <2>2. \/ wrapper' = wrapper
        \/ /\ wrapper \notin {"returned", "cancelled", "dead"}
           /\ wrapper' \in {"cancelled", "dead"}
    BY <1>10, <1>c DEF JoinCancelled, Shutdown, Crash, Waiting, Control
  <2>3. Outcome' = Outcome
    BY <2>1 DEF Outcome, Announced
  <2>4. CASE wrapper' = wrapper
    BY <2>1, <2>4, Stutters DEF Ended
  <2>5. CASE /\ wrapper \notin {"returned", "cancelled", "dead"}
             /\ wrapper' \in {"cancelled", "dead"}
    <3>1. Ended = "open"
      BY <2>5 DEF Ended
    <3>2. Ended' = "stopped"
      BY <2>5 DEF Ended
    <3>3. Promise!Stop
      BY <2>1, <2>3, <3>1, <3>2 DEF Promise!Stop
    <3> QED  BY <3>3 DEF Simulates, Promise!Next
  <2> QED  BY <2>2, <2>4, <2>5
<1>11. CASE StartWrapper \/ HardDeadline \/ ExpireJob
           \/ DeleteJob
  <2>1. UNCHANGED <<emitted, saved>> /\ Ended' = Ended
    BY <1>11 DEF StartWrapper, HardDeadline, ExpireJob, DeleteJob, history,
        deadlineVars, Ended
  <2> QED  BY <2>1, Stutters
<1>12. CASE InnerStart \/ InitRaised \/ GraphDone
           \/ GraphRaised \/ GraphSwallowed \/ ExtractDone \/ ExtractRaised
           \/ SaveRaised \/ InnerCancelled
  <2>1. UNCHANGED <<emitted, saved>> /\ Ended' = Ended
    BY <1>12 DEF InnerStart, InitRaised, GraphDone, GraphRaised,
        GraphSwallowed, ExtractDone, ExtractRaised, SaveRaised,
        InnerCancelled, history, deadlineVars, Ended
  <2> QED  BY <2>1, Stutters
<1>13. CASE ThreadBegins \/ InitInsert \/ InitMark
           \/ InitDbFails \/ Configure \/ SaveReturns \/ SaveRaises
           \/ RecordFailure \/ RecordRaises
  <2>1. UNCHANGED <<emitted, saved>> /\ Ended' = Ended
    BY <1>13 DEF ThreadBegins, InitInsert, InitMark, InitDbFails, Configure,
        SaveReturns, SaveRaises, RecordFailure, RecordRaises, threadRest,
        deadlineVars, Ended
  <2> QED  BY <2>1, Stutters
<1>14. CASE UNCHANGED vars
  BY <1>14, Stutters DEF vars, Ended
<1> QED
  BY <1>1, <1>2, <1>3, <1>4, <1>5, <1>6, <1>7, <1>7d, <1>8, <1>9, <1>10,
     <1>11, <1>12, <1>13, <1>14
  DEF Next, JobStep, WrapperStep, InnerStep, ThreadStep

\* JobLifecycle implements JobPromise: one outcome, never revised, "completed"
\* only with the report stored, and no answer without an outcome.
THEOREM Refinement == Spec => KeepsPromise
<1>1. Init => Promise!Init
  BY DEF Init, Promise!Init, Outcome, Ended, Announced
<1>2. IInv /\ IInv' /\ [Next]_vars => [Promise!Next]_(Promise!vars)
  BY RefinementStep DEF Simulates
<1> QED
  BY <1>1, <1>2, Inductive, PTL DEF Spec, KeepsPromise, Promise!Spec
====
