------------------------ MODULE ReportRecoveryProofs ------------------------
(***************************************************************************)
(* What holds of a report for any number of requests that open it: types,  *)
(* that no request of the API takes a live job of the API for gone, and    *)
(* what may become of the report of a job that succeeded.                  *)
(***************************************************************************)
EXTENDS ReportRecovery, TLAPS

Live == {"init", "running", "saving", "failing"}
Done == [status |-> "completed", error |-> "none"]

\* The finalisers whose commit may cross the save of a successful job.
MayCross == IF setup.home = "api" THEN {"recovery"} ELSE Readers

\* Which threads have begun when the job is where it is.
Threads ==
    /\ job = "idle" => at["init"] = "idle"
    /\ job \in {"idle", "init", "running"} => at["save"] = "idle"
    /\ job \in {"running", "saving"} => at["init"] = "done"
    /\ job \in {"idle", "init", "running", "saving"} => at["fail"] = "idle"
    /\ at["fail"] \in {"begun", "read"} => job = "failing"
    /\ job \in Live \cup {"idle"} => said = "none"
    /\ said = "completed" => /\ at["init"] \in {"done", "idle"}
                            /\ at["save"] \in {"done", "idle"}
                            /\ at["fail"] = "idle"

\* The entry of an API job is there from before its row until after its end,
\* and no request that began in its life finds it gone.
Requests ==
    /\ \A r \in Readers : at[r] \in {"idle", "read", "orphan"}
    /\ job = "idle" => row.status = "absent" /\ \A r \in Readers : at[r] = "idle"
    /\ setup.home = "api" /\ job \in Live => entry
    /\ OrphansOnly
    /\ setup.home = "api" /\ said = "completed" =>
         \A r \in Readers :
            at[r] # "idle" => at[r] = "read" /\ r \in early /\ entry

\* A scheduler that runs jobs has recovered, and finds no report to recover
\* after a success.
Recovered ==
    setup.home = "scheduler" =>
       /\ job \notin {"idle", "dead"} => at["recovery"] = "up"
       /\ said = "completed" => at["recovery"] # "read"

\* What is known of the row before, during and after the save.
Stored ==
    /\ job \in {"idle", "init", "running"}
         \/ (job = "saving" /\ at["save"] = "begun")
       => row.status # "completed" /\ crossed = {}
    /\ job = "saving" /\ at["save"] = "read" =>
         /\ seen["save"].status # "completed"
         /\ crossed = {} => row = seen["save"] \/ row.status = "absent"
    /\ job = "saving" \/ said = "completed" => crossed \subseteq MayCross
    /\ (job = "saving" /\ at["save"] = "done") \/ said = "completed" =>
         \/ row.status = "absent"
         \/ /\ row.status \notin ActiveStatus
            /\ crossed = {} => row = Done

\* No row is there before the init's thread; a save follows that thread, and
\* no thread outlives its process.
Sequel ==
    /\ at["init"] = "begun" => Gone
    /\ at["save"] # "idle" => at["init"] = "done"
    /\ job = "dead" => at["init"] = "idle" /\ at["save"] = "idle"

\* Of a deleted row: it had been inserted, and who put it back was the save.
Deletions ==
    deleted =>
       /\ job # "idle" /\ at["init"] # "begun"
       /\ ~Gone => /\ row.status \notin ActiveStatus
                   /\ at["init"] \in {"done", "idle"}
                   /\ job = "dead" \/ (at["save"] = "done" /\ seen["save"] = Absent)

IInv == TypeOK /\ Threads /\ Requests /\ Recovered /\ Stored

DelInv == IInv /\ Sequel /\ Deletions

\* The commit of a row that is there leaves a row.
LEMMA UpdateFacts ==
    ASSUME TypeOK, ~Gone, NEW w \in Writers,
           NEW status \in {"pending", "running", "completed", "failed"},
           NEW error \in {"none", "job", "stale"},
           Update(w, status, error)
    PROVE row' \in Row
BY DEF TypeOK, Gone, Update, Row, Absent

\* A row that is gone has the status of none.
LEMMA GoneFacts == ASSUME TypeOK PROVE Gone <=> row.status = "absent"
BY DEF TypeOK, Gone, Row, Absent

\* The columns of the row after a commit.
LEMMA UpdateColumns ==
    ASSUME NEW w, NEW status, NEW error, Update(w, status, error)
    PROVE /\ row'.status \in {status, row.status}
          /\ seen[w].status # status => row'.status = status
          /\ row' = [status |-> row'.status, error |-> row'.error]
BY DEF Update

\* Requests are writers, and none of the other writers is a request.
LEMMA WriterFacts ==
    /\ \A r \in Readers : r \in Writers
    /\ {"init", "save", "fail", "recovery"} \subseteq Writers
    /\ \A w \in {"init", "save", "fail", "recovery"} : w \notin Readers
BY ReadersAssumption DEF Writers

-----------------------------------------------------------------------------
(* Types.                                                                  *)

LEMMA TypeInit == ASSUME Init PROVE TypeOK
BY DEF Init, TypeOK, Row, Absent

\* Every step keeps the variables in their ranges.
LEMMA TypeStep == ASSUME TypeOK, [Next]_vars PROVE TypeOK'
<1> USE WriterFacts
<1>1. CASE UNCHANGED vars
  BY <1>1 DEF TypeOK, vars, history
<1>2. CASE JobStep
  <2> USE DEF TypeOK, history, Moves, JobMoves, Announce
  <2>1. CASE Submit
    BY <2>1 DEF Submit
  <2>2. CASE Work
    BY <2>2 DEF Work
  <2>3. CASE DryRun
    BY <2>3 DEF DryRun
  <2>4. CASE StartSave
    BY <2>4 DEF StartSave
  <2>5. CASE Saved
    BY <2>5 DEF Saved
  <2>6. CASE Fail
    BY <2>6 DEF Fail
  <2>7. CASE MarkFailed
    <3>1. row' \in Row
      BY <2>7, UpdateFacts DEF MarkFailed
    <3> QED  BY <2>7, <3>1 DEF MarkFailed
  <2> QED  BY <1>2, <2>1, <2>2, <2>3, <2>4, <2>5, <2>6, <2>7 DEF JobStep
<1>3. CASE ThreadStep
  <2> USE DEF TypeOK, history, Moves, Reads
  <2>1. CASE Insert
    BY <2>1 DEF Insert, Row
  <2>2. CASE ReadInserted
    BY <2>2 DEF ReadInserted
  <2>3. CASE MarkRunning
    <3>1. row' \in Row
      BY <2>3, UpdateFacts DEF MarkRunning, Row, Absent
    <3> QED  BY <2>3, <3>1 DEF MarkRunning
  <2>4. CASE ReadToSave
    BY <2>4 DEF ReadToSave
  <2>5. CASE Save
    <3>1. row' \in Row
      BY <2>5, UpdateFacts DEF Save, Row
    <3> QED  BY <2>5, <3>1 DEF Save
  <2>6. CASE ReadToFail
    BY <2>6 DEF ReadToFail
  <2> QED  BY <1>3, <2>1, <2>2, <2>3, <2>4, <2>5, <2>6 DEF ThreadStep
<1>4. CASE Expire
  BY <1>4 DEF Expire, TypeOK, history
<1>5. ASSUME NEW r \in Readers, Open(r) \/ LookUp(r) \/ Finalize(r)
      PROVE TypeOK'
  <2> USE DEF TypeOK, history, Moves, Reads
  <2>1. CASE Open(r)
    BY <2>1 DEF Open
  <2>2. CASE LookUp(r)
    BY <2>2 DEF LookUp
  <2>3. CASE Finalize(r)
    <3>1. row' \in Row
      BY <2>3, UpdateFacts DEF Finalize, CommitStale
    <3> QED  BY <2>3, <3>1 DEF Finalize, CommitStale
  <2> QED  BY <1>5, <2>1, <2>2, <2>3
<1>6. CASE Delete
  BY <1>6 DEF Delete, TypeOK, history, Row
<1>7. ASSUME Die PROVE TypeOK'
  BY <1>7 DEF Die, TypeOK
<1>8. CASE Recover
  <2> USE DEF TypeOK, history, Moves, Reads
  <2>1. CASE RecoverRead
    BY <2>1 DEF RecoverRead
  <2>2. CASE RecoverCommit
    <3>1. row' \in Row
      BY <2>2, UpdateFacts DEF RecoverCommit, CommitStale
    <3> QED  BY <2>2, <3>1 DEF RecoverCommit, CommitStale
  <2>3. CASE RecoverFails
    BY <1>7, <2>3 DEF RecoverFails
  <2> QED  BY <1>8, <2>1, <2>2, <2>3 DEF Recover
<1>9. CASE SchedulerRestarts
  BY <1>9 DEF SchedulerRestarts, TypeOK, history, Moves
<1>10. CASE Crash
  BY <1>7, <1>10 DEF Crash
<1>11. CASE ApiRestarts
  BY <1>11 DEF ApiRestarts, TypeOK
<1> QED  BY <1>1, <1>2, <1>3, <1>4, <1>5, <1>6, <1>8, <1>9, <1>10, <1>11
   DEF Next

\* The row, the job, every transaction and the histories stay in their ranges.
THEOREM TypeCorrect == Spec => []TypeOK
<1>1. Init => TypeOK
  BY TypeInit
<1>2. TypeOK /\ [Next]_vars => TypeOK'
  BY TypeStep
<1> QED  BY <1>1, <1>2, PTL DEF Spec
-----------------------------------------------------------------------------
(* Orphans and successes.                                                  *)

LEMMA InvInit == ASSUME Init PROVE IInv
<1> USE WriterFacts
<1>1. TypeOK
  BY TypeInit
<1>2. Threads /\ Requests /\ Recovered /\ Stored
  BY DEF Init, Threads, Requests, Recovered, Stored, OrphansOnly, Absent,
     Live, Over, MayCross
<1> QED  BY <1>1, <1>2 DEF IInv

\* Every step keeps the invariant.
LEMMA InvStep == ASSUME IInv, [Next]_vars PROVE IInv'
<1> USE WriterFacts
<1> DEFINE Rest == Threads /\ Requests /\ Recovered /\ Stored
<1>0. TypeOK' /\ (Gone <=> row.status = "absent")
  BY TypeStep, GoneFacts DEF IInv
<1> SUFFICES Rest'
  BY <1>0 DEF IInv
<1> USE DEF IInv, TypeOK, Threads, Requests, Recovered, Stored, OrphansOnly,
    Live, Over, Done, MayCross, ActiveStatus, history
<1>1. CASE UNCHANGED vars
  BY <1>1 DEF vars
<1>2. CASE JobStep
  <2> USE DEF Moves, JobMoves, Announce
  <2>1. CASE Submit
    BY <2>1 DEF Submit
  <2>2. CASE Work
    BY <2>2 DEF Work
  <2>3. CASE DryRun
    BY <2>3 DEF DryRun
  <2>4. CASE StartSave
    BY <2>4 DEF StartSave
  <2>5. CASE Saved
    BY <2>5 DEF Saved
  <2>6. CASE Fail
    BY <2>6 DEF Fail
  <2>7. CASE MarkFailed
    <3>1. /\ job = "failing" /\ job' = "over"
          /\ said' = "failed" /\ setup' = setup
          /\ at'["fail"] = "done"
          /\ \A w \in Writers \ {"fail"} : at'[w] = at[w]
      BY <2>7 DEF MarkFailed
    <3>2. Threads' /\ Recovered' /\ Stored'
      BY <3>1
    <3>3. Requests'
      BY <3>1
    <3> QED  BY <3>2, <3>3
  <2> QED  BY <1>2, <2>1, <2>2, <2>3, <2>4, <2>5, <2>6, <2>7 DEF JobStep
<1>3. CASE ThreadStep
  <2> USE DEF Moves, Reads
  <2>1. CASE Insert
    BY <2>1 DEF Insert
  <2>2. CASE ReadInserted
    BY <2>2 DEF ReadInserted
  <2>3. CASE MarkRunning
    BY <1>0, <2>3, UpdateColumns DEF MarkRunning
  <2>4. CASE ReadToSave
    BY <2>4 DEF ReadToSave
  <2>5. CASE Save
    BY <1>0, <2>5 DEF Save, Update, Gone, Absent
  <2>6. CASE ReadToFail
    BY <2>6 DEF ReadToFail
  <2> QED  BY <1>3, <2>1, <2>2, <2>3, <2>4, <2>5, <2>6 DEF ThreadStep
<1>4. CASE Expire
  BY <1>4 DEF Expire
<1>5. ASSUME NEW r \in Readers, Open(r) \/ LookUp(r) \/ Finalize(r)
      PROVE Rest'
  <2> USE DEF Moves, Reads
  <2>1. CASE Open(r)
    BY <1>0, <2>1 DEF Open
  <2>2. CASE LookUp(r)
    BY <2>2 DEF LookUp, Visible
  <2>3. CASE Finalize(r)
    BY <1>0, <2>3, UpdateColumns DEF Finalize, CommitStale
  <2> QED  BY <1>5, <2>1, <2>2, <2>3
<1>6. CASE Delete
  BY <1>0, <1>6 DEF Delete, Absent
<1>7. ASSUME Die PROVE Rest'
  BY <1>7 DEF Die, Dying
<1>8. CASE Recover
  <2> USE DEF Moves, Reads
  <2>1. CASE RecoverRead
    BY <1>0, <2>1 DEF RecoverRead
  <2>2. CASE RecoverCommit
    BY <1>0, <2>2, UpdateColumns DEF RecoverCommit, CommitStale
  <2>3. CASE RecoverFails
    BY <1>7, <2>3 DEF RecoverFails
  <2> QED  BY <1>8, <2>1, <2>2, <2>3 DEF Recover
<1>9. CASE SchedulerRestarts
  BY <1>9 DEF SchedulerRestarts, Moves
<1>10. CASE Crash
  BY <1>7, <1>10 DEF Crash
<1>11. CASE ApiRestarts
  BY <1>11 DEF ApiRestarts
<1> QED  BY <1>1, <1>2, <1>3, <1>4, <1>5, <1>6, <1>8, <1>9, <1>10, <1>11
   DEF Next

\* No request of the API takes a live job of the API for gone.
THEOREM OnlyOrphans == Spec => []OrphansOnly
<1>1. Init => IInv
  BY InvInit
<1>2. IInv /\ [Next]_vars => IInv'
  BY InvStep
<1>3. IInv => OrphansOnly
  BY DEF IInv, Requests
<1> QED  BY <1>1, <1>2, <1>3, PTL DEF Spec

\* The report of a successful job is completed and without an error, unless a
\* finaliser that may cross its save did.
THEOREM SuccessIsKept == Spec => []SuccessKept
<1>1. Init => IInv
  BY InvInit
<1>2. IInv /\ [Next]_vars => IInv'
  BY InvStep
<1>3. IInv => SuccessKept
  BY GoneFacts DEF IInv, Stored, SuccessKept, Done, MayCross
<1> QED  BY <1>1, <1>2, <1>3, PTL DEF Spec

-----------------------------------------------------------------------------
(* Deleted reports.                                                        *)

\* No thread starts before the init's is done, or in a process that is gone.
LEMMA SequelStep == ASSUME IInv, Sequel, [Next]_vars PROVE Sequel'
<1> USE WriterFacts DEF Moves, JobMoves, Reads, history
<1> USE DEF IInv, TypeOK, Threads, Sequel, Gone
<1>0. job = "idle" => Gone
  BY GoneFacts DEF Requests
<1>1. CASE UNCHANGED vars
  BY <1>1 DEF vars
<1>2. CASE JobStep
  BY <1>0, <1>2 DEF JobStep, Submit, Work, DryRun, StartSave, Saved, Fail, MarkFailed,
     Announce
<1>3. CASE ThreadStep
  BY <1>3 DEF ThreadStep, Insert, ReadInserted, MarkRunning, ReadToSave, Save,
     ReadToFail
<1>4. CASE \E r \in Readers : Open(r) \/ LookUp(r) \/ Finalize(r)
  BY <1>4 DEF Open, LookUp, Finalize, CommitStale
<1>5. ASSUME Die PROVE Sequel'
  BY <1>5 DEF Die, Dying
<1>6. CASE Recover \/ SchedulerRestarts \/ Crash
  BY <1>5, <1>6 DEF Recover, RecoverRead, RecoverCommit, RecoverFails,
     SchedulerRestarts, Crash
<1>7. CASE Expire \/ Delete \/ ApiRestarts
  BY <1>7 DEF Expire, Delete, ApiRestarts
<1> QED  BY <1>1, <1>2, <1>3, <1>4, <1>6, <1>7 DEF Next

\* A commit on a row that is there, which is not active, leaves it so.
LEMMA CommitKeeps ==
    ASSUME NEW w, NEW status \in {"completed", "failed"}, NEW error,
           row.status \notin ActiveStatus, Update(w, status, error)
    PROVE row'.status \notin ActiveStatus
BY DEF Update, ActiveStatus

\* A step that leaves alone what is known of a deleted row.
LEMMA DeletionsStay ==
    ASSUME Deletions, deleted' = deleted,
           Gone => Gone',
           ~Gone' /\ row.status \notin ActiveStatus
              => row'.status \notin ActiveStatus,
           at'["init"] = at["init"], at'["save"] = at["save"],
           seen'["save"] = seen["save"],
           job' = "idle" => job = "idle", job = "dead" => job' = "dead"
    PROVE Deletions'
BY DEF Deletions

\* Only the save brings a deleted row back, and nobody makes it active.
LEMMA DeletionsStep ==
    ASSUME IInv, Sequel, Deletions, [Next]_vars PROVE Deletions'
<1> USE WriterFacts
<1>0. IInv' /\ Sequel' /\ TypeOK /\ Sequel /\ Threads
      /\ (Gone <=> row.status = "absent")
  BY InvStep, SequelStep, GoneFacts DEF IInv
<1>1. CASE UNCHANGED vars
  BY <1>1 DEF vars, Deletions, Gone
<1>2. CASE JobStep
  <2>1. CASE Submit \/ Work \/ DryRun \/ Saved \/ Fail
    BY <1>0, <2>1, DeletionsStay
    DEF Submit, Work, DryRun, Saved, Fail, Moves, JobMoves, Announce, history,
        Gone, TypeOK, Deletions
  <2>2. CASE StartSave
    BY <1>0, <2>2
    DEF StartSave, Moves, JobMoves, history, Gone, TypeOK, Deletions, Threads
  <2>3. CASE MarkFailed
    <3>1. /\ deleted' = deleted /\ seen' = seen /\ job' = "over"
          /\ at'["init"] = at["init"] /\ at'["save"] = at["save"]
          /\ Gone => Gone'
      BY <1>0, <2>3
      DEF MarkFailed, Moves, Announce, Gone, TypeOK
    <3>2. row.status \notin ActiveStatus => row'.status \notin ActiveStatus
      BY <2>3, CommitKeeps DEF MarkFailed
    <3>3. job = "failing"
      BY <1>0, <2>3 DEF MarkFailed, Threads
    <3> QED  BY <3>1, <3>2, <3>3, DeletionsStay
  <2> QED  BY <1>2, <2>1, <2>2, <2>3 DEF JobStep
<1>3. CASE ThreadStep
  <2>1. CASE Insert
    BY <2>1 DEF Insert, Deletions, history
  <2>2. CASE ReadInserted \/ MarkRunning
    <3>1. /\ at["init"] \in {"inserted", "read"}
          /\ at'["init"] \in {"read", "done"}
          /\ Gone => Gone' /\ at'["init"] \in {"read", "done"}
          /\ deleted' = deleted /\ job' = job
      BY <1>0, <2>2
      DEF ReadInserted, MarkRunning, Moves, Reads, history, Gone, TypeOK
    <3> QED  BY <3>1 DEF Deletions
  <2>3. CASE ReadToSave
    <3>1. /\ at["save"] = "begun" /\ at'["init"] = at["init"]
          /\ row' = row /\ job' = job /\ deleted' = deleted
      BY <1>0, <2>3 DEF ReadToSave, Moves, Reads, history, TypeOK
    <3> QED  BY <1>0, <3>1 DEF Deletions, Sequel, Gone
  <2>4. CASE Save
    <3>1. /\ at["save"] = "read" /\ at'["init"] = at["init"]
          /\ job' = job /\ deleted' = deleted /\ seen' = seen
      BY <1>0, <2>4 DEF Save, Moves, history, TypeOK
    <3>2. job # "dead" /\ at["init"] = "done"
      BY <1>0, <3>1 DEF Sequel
    <3>3. deleted => Gone
      BY <3>1, <3>2 DEF Deletions
    <3>4. CASE Gone
      <4>1. \/ row' = row
            \/ /\ seen["save"] = Absent /\ at'["save"] = "done"
               /\ row'.status = "completed"
        BY <1>0, <2>4, <3>4 DEF Save, Moves, TypeOK
      <4> QED  BY <3>1, <3>2, <3>4, <4>1 DEF Deletions, Gone, ActiveStatus
    <3> QED  BY <3>1, <3>3, <3>4 DEF Deletions
  <2>5. CASE ReadToFail
    BY <1>0, <2>5, DeletionsStay
    DEF ReadToFail, Moves, Reads, history, Gone, TypeOK
  <2> QED  BY <1>3, <2>1, <2>2, <2>3, <2>4, <2>5 DEF ThreadStep
<1>4. ASSUME NEW w \in Readers \cup {"recovery"}, CommitStale(w), ~Gone,
             deleted' = deleted, job' = job,
             at'["init"] = at["init"], at'["save"] = at["save"],
             seen'["save"] = seen["save"]
      PROVE Deletions'
  BY <1>4, CommitKeeps, DeletionsStay DEF CommitStale
<1>5. ASSUME NEW r \in Readers, Open(r) \/ LookUp(r) \/ Finalize(r)
      PROVE Deletions'
  <2>1. CASE Open(r) \/ LookUp(r) \/ (Finalize(r) /\ Gone)
    BY <1>0, <1>5, <2>1, DeletionsStay
    DEF Open, LookUp, Finalize, Moves, Reads, history, Gone, TypeOK
  <2>2. CASE Finalize(r) /\ ~Gone
    BY <1>0, <1>4, <1>5, <2>2 DEF Finalize, Moves, TypeOK
  <2> QED  BY <1>5, <2>1, <2>2
<1>6. CASE Delete
  <2>1. job # "idle" /\ at["init"] # "begun"
    BY <1>0, <1>6 DEF IInv, Requests, Delete, Sequel, Gone
  <2> QED  BY <1>6, <2>1 DEF Delete, Deletions, Gone
<1>7. ASSUME Die PROVE Deletions'
  <2>1. /\ at'["init"] = "idle" /\ row' = row /\ deleted' = deleted
        /\ job # "idle" => job' = "dead"
    BY <1>0, <1>7 DEF Die, Dying
  <2> QED  BY <2>1 DEF Deletions, Gone
<1>8. CASE Recover
  <2>1. CASE RecoverRead
    BY <1>0, <2>1, DeletionsStay
    DEF RecoverRead, Moves, Reads, history, Gone, TypeOK
  <2>2. CASE RecoverCommit
    BY <1>0, <1>4, <2>2 DEF RecoverCommit, Moves, TypeOK
  <2>3. CASE RecoverFails
    BY <1>0, <1>7, <2>3, DeletionsStay
    DEF RecoverFails, Moves, history, Gone, TypeOK
  <2> QED  BY <1>8, <2>1, <2>2, <2>3 DEF Recover
<1>9. CASE SchedulerRestarts \/ Expire
  BY <1>0, <1>9, DeletionsStay
  DEF SchedulerRestarts, Expire, Moves, history, Gone, TypeOK
<1>10. CASE Crash
  BY <1>7, <1>10 DEF Crash
<1>11. CASE ApiRestarts
  BY <1>0, <1>11, DeletionsStay DEF ApiRestarts, Gone
<1> QED  BY <1>1, <1>2, <1>3, <1>5, <1>6, <1>8, <1>9, <1>10, <1>11 DEF Next

\* A deleted report comes back only as the finished report of a save that
\* found no row: no other writer revives it or makes it active.
THEOREM DeletedReturns == Spec => []DeletedReturnsFinished
<1>1. Init => DelInv
  BY InvInit, WriterFacts DEF Init, DelInv, Sequel, Deletions
<1>2. DelInv /\ [Next]_vars => DelInv'
  BY InvStep, SequelStep, DeletionsStep DEF DelInv
<1>3. DelInv => DeletedReturnsFinished
  BY DEF DelInv, Deletions, DeletedReturnsFinished
<1> QED  BY <1>1, <1>2, <1>3, PTL DEF Spec
=============================================================================
