--------------------------- MODULE SchedulerProofs ---------------------------
(***************************************************************************)
(* Proofs about Scheduler, for any tasks, calendar, concurrency and bounds. *)
(*                                                                         *)
(* First what each action does to the row and the run it belongs to; then  *)
(* the parts of the inductive invariant, each with the lemma that every    *)
(* step keeps it; then the theorems.  The parts are                        *)
(*   Book         which runs exist, where they are, what a dead process    *)
(*                has in hand;                                             *)
(*   SlotsInv     the slots and their holders;                             *)
(*   Backed       that a success recorded has a report or is misled;       *)
(*   ReportShownIsTrue   what rows show;                                   *)
(*   Calendar     what ties runs, rows and the loop's hands to the day,    *)
(*                where no run lasts into the next day;                    *)
(*   NothingLost  that every stamp is accounted for, where moreover no     *)
(*                user interferes and no recording raises.                 *)
(***************************************************************************)
EXTENDS Scheduler, FiniteSetTheorems, TLAPS

-----------------------------------------------------------------------------
(* Rows and runs.                                                          *)

\* The columns of a row, and the range of a run.
Columns == {"exists", "active", "trigger", "lastDate", "status", "report",
            "failures"}

RunType == [kind : {"none", "scheduled", "manual"}, task : Tasks,
            day : 0..LastDay, created : 0..LastDay,
            at : {"none", "lost", "unrecorded"} \cup InFlight \cup Recorded,
            done : BOOLEAN, misled : BOOLEAN, read : BOOLEAN, seen : RowType]

\* A commit merges column by column.
Merged(old, seen, new) ==
    [c \in DOMAIN NoRow |-> IF new[c] = seen[c] THEN old[c] ELSE new[c]]

\* The columns of a row.
LEMMA RowColumns == DOMAIN NoRow = Columns
BY DEF NoRow, NewRow, Columns

\* The bounds are numbers, and there is a task.
LEMMA Constants ==
    /\ LastDay \in Nat \ {0} /\ Concurrency \in Nat
    /\ MaxRuns \in Nat /\ MaxManual \in Nat /\ MaxCrashes \in Nat
    /\ MaxEdits \in Nat
    /\ (CHOOSE t \in Tasks : TRUE) \in Tasks
<1>1. \E t \in Tasks : TRUE
  BY TasksAssumption
<1> QED
  BY <1>1, DaysAssumption, ConcurrencyAssumption, BoundAssumption

\* The rows and runs the actions start from.
LEMMA FirstRows ==
    /\ \A trigger \in Triggers : NewRow(trigger) \in RowType
    /\ NoRow \in RowType
    /\ NoRun \in RunType
<1>1. ASSUME NEW trigger \in Triggers PROVE NewRow(trigger) \in RowType
  BY Constants DEF NewRow, RowType, NoDay, NoReport, RowStatus
<1>2. "evening" \in Triggers
  BY DEF Triggers
<1>3. NoRow \in RowType
  <2> DEFINE first == NewRow("evening")
  <2>1. first \in RowType
    BY <1>1, <1>2
  <2> HIDE DEF first
  <2>2. [first EXCEPT !.exists = FALSE] \in RowType
    BY <2>1 DEF RowType
  <2> QED  BY <2>2 DEF NoRow, first
<1>4. NoRun \in RunType
  BY <1>3, Constants DEF NoRun, RunType, NoDay
<1> QED
  BY <1>1, <1>3, <1>4

\* What a merge leaves in each column.
LEMMA MergedRow ==
    ASSUME NEW old \in RowType, NEW seen \in RowType, NEW new \in RowType
    PROVE /\ Merged(old, seen, new) \in RowType
          /\ \A c \in Columns : Merged(old, seen, new)[c] =
                 IF new[c] = seen[c] THEN old[c] ELSE new[c]
<1> DEFINE m == Merged(old, seen, new)
<1>1. m = [c \in Columns |-> IF new[c] = seen[c] THEN old[c] ELSE new[c]]
  BY RowColumns DEF Merged
<1>2. m = [exists |-> m.exists, active |-> m.active, trigger |-> m.trigger,
           lastDate |-> m.lastDate, status |-> m.status, report |-> m.report,
           failures |-> m.failures]
  BY <1>1 DEF Columns
<1>3. /\ m.exists \in BOOLEAN /\ m.active \in BOOLEAN
      /\ m.trigger \in Triggers /\ m.lastDate \in 0..LastDay
      /\ m.status \in RowStatus /\ m.report \in 0..MaxRuns
      /\ m.failures \in Nat
  BY <1>1 DEF Columns, RowType
<1> QED
  BY <1>1, <1>2, <1>3 DEF RowType

\* The row a recording transaction read.
LEMMA SeenType ==
    ASSUME TypeOK, NEW r \in RunId
    PROVE Seen(r) \in RowType /\ run[r].task \in Tasks /\ r \in 0..MaxRuns
BY Constants DEF TypeOK, Seen, RunId

\* What recording a success does to the row.
LEMMA SuccessEffect ==
    ASSUME TypeOK, NEW r \in RunId, RecordSuccess(r), Seen(r).exists
    PROVE \E m \in RowType :
            /\ row' = [row EXCEPT ![run[r].task] = m]
            /\ m.exists = row[run[r].task].exists
            /\ row[run[r].task].exists
            /\ m.active = row[run[r].task].active
            /\ m.trigger = row[run[r].task].trigger
            /\ m.lastDate = IF Manual(r) \/ run[r].day = Seen(r).lastDate
                            THEN row[run[r].task].lastDate ELSE run[r].day
            /\ m.status = IF Seen(r).status = "success"
                          THEN row[run[r].task].status ELSE "success"
            /\ m.report = IF Seen(r).report = r
                          THEN row[run[r].task].report ELSE r
            /\ m.failures = IF Seen(r).failures = 0
                            THEN row[run[r].task].failures ELSE 0
<1> DEFINE t == run[r].task
           m == Merged(row[t], Seen(r), SuccessOf(r))
<1>1. /\ row[t] \in RowType /\ Seen(r) \in RowType /\ t \in Tasks
      /\ r \in 0..MaxRuns /\ run[r].day \in 0..LastDay
  BY SeenType DEF TypeOK
<1>2. SuccessOf(r) \in RowType
  BY <1>1 DEF SuccessOf, RowType, RowStatus
<1>3. row' = [row EXCEPT ![t] = m]
  BY <1>1 DEF RecordSuccess, Commit, Merged, TypeOK
<1>4. m \in RowType /\ \A c \in Columns : m[c] =
          IF SuccessOf(r)[c] = Seen(r)[c] THEN row[t][c] ELSE SuccessOf(r)[c]
  BY <1>1, <1>2, MergedRow
<1>5. row[t].exists
  BY DEF RecordSuccess, Vanished
<1> HIDE DEF m
<1>6. /\ SuccessOf(r).exists = Seen(r).exists
      /\ SuccessOf(r).active = Seen(r).active
      /\ SuccessOf(r).trigger = Seen(r).trigger
      /\ SuccessOf(r).lastDate = IF Manual(r) THEN Seen(r).lastDate ELSE run[r].day
      /\ SuccessOf(r).status = "success"
      /\ SuccessOf(r).report = r
      /\ SuccessOf(r).failures = 0
  BY <1>1 DEF SuccessOf, RowType
<1> QED
  BY <1>3, <1>4, <1>5, <1>6 DEF Columns

\* What recording a failure does to the row.
LEMMA FailureEffect ==
    ASSUME TypeOK, NEW r \in RunId, RecordFailure(r), Seen(r).exists
    PROVE \E m \in RowType :
            /\ row' = [row EXCEPT ![run[r].task] = m]
            /\ m.exists = row[run[r].task].exists
            /\ row[run[r].task].exists
            /\ m.trigger = row[run[r].task].trigger
            /\ m.report = row[run[r].task].report
            /\ m.lastDate = IF Manual(r) \/ run[r].day = Seen(r).lastDate
                            THEN row[run[r].task].lastDate ELSE run[r].day
            /\ m.status = IF Seen(r).status = "failed"
                          THEN row[run[r].task].status ELSE "failed"
            /\ m.failures = IF Manual(r) THEN row[run[r].task].failures
                            ELSE Seen(r).failures + 1
            /\ m.active = IF ~Manual(r) /\ Seen(r).active /\ Seen(r).failures >= 2
                          THEN FALSE ELSE row[run[r].task].active
<1> DEFINE t == run[r].task
           m == Merged(row[t], Seen(r), FailureOf(r))
<1>1. /\ row[t] \in RowType /\ Seen(r) \in RowType /\ t \in Tasks
      /\ run[r].day \in 0..LastDay
  BY SeenType DEF TypeOK
<1>2. FailureOf(r) \in RowType
  <2>1. CASE Manual(r)
    BY <1>1, <2>1 DEF FailureOf, FailedRow, RowType, RowStatus
  <2>2. CASE ~Manual(r)
    <3> DEFINE s == Seen(r)
               on == s.active /\ ~(TRUE /\ s.failures >= 2)
    <3>1. s \in RowType /\ s.failures + 1 \in Nat /\ on \in BOOLEAN
          /\ s.report \in 0..MaxRuns
      BY <1>1 DEF RowType
    <3>2. FailureOf(r) = [s EXCEPT !.lastDate = run[r].day,
                            !.status = "failed", !.report = s.report,
                            !.failures = s.failures + 1, !.active = on]
      BY <2>2 DEF FailureOf, FailedRow
    <3> HIDE DEF s, on
    <3>3. FailureOf(r) = [exists |-> s.exists, active |-> on,
                          trigger |-> s.trigger, lastDate |-> run[r].day,
                          status |-> "failed", report |-> s.report,
                          failures |-> s.failures + 1]
      BY <3>1, <3>2 DEF RowType
    <3> QED  BY <1>1, <3>1, <3>3 DEF RowType, RowStatus
  <2> QED  BY <2>1, <2>2
<1>3. row' = [row EXCEPT ![t] = m]
  BY <1>1 DEF RecordFailure, Commit, Merged, TypeOK
<1>4. m \in RowType /\ \A c \in Columns : m[c] =
          IF FailureOf(r)[c] = Seen(r)[c] THEN row[t][c] ELSE FailureOf(r)[c]
  BY <1>1, <1>2, MergedRow
<1>5. row[t].exists
  BY DEF RecordFailure, Vanished
<1> HIDE DEF m
<1>6. /\ FailureOf(r).exists = Seen(r).exists
      /\ FailureOf(r).trigger = Seen(r).trigger
      /\ FailureOf(r).report = Seen(r).report
      /\ FailureOf(r).lastDate = IF Manual(r) THEN Seen(r).lastDate ELSE run[r].day
      /\ FailureOf(r).status = "failed"
      /\ FailureOf(r).failures = IF Manual(r) THEN Seen(r).failures
                                 ELSE Seen(r).failures + 1
      /\ FailureOf(r).active = IF ~Manual(r) /\ Seen(r).failures >= 2
                               THEN FALSE ELSE Seen(r).active
  BY <1>1 DEF FailureOf, FailedRow, RowType
<1>7. Seen(r).failures \in Nat /\ Seen(r).active \in BOOLEAN
  BY <1>1 DEF RowType
<1>8. m.active = IF ~Manual(r) /\ Seen(r).active /\ Seen(r).failures >= 2
                 THEN FALSE ELSE row[t].active
  BY <1>4, <1>6, <1>7 DEF Columns
<1>9. m.failures = IF Manual(r) THEN row[t].failures ELSE Seen(r).failures + 1
  BY <1>4, <1>6, <1>7 DEF Columns
<1>10. /\ m.exists = row[t].exists /\ m.trigger = row[t].trigger
       /\ m.report = row[t].report
       /\ m.lastDate = IF Manual(r) \/ run[r].day = Seen(r).lastDate
                       THEN row[t].lastDate ELSE run[r].day
       /\ m.status = IF Seen(r).status = "failed"
                     THEN row[t].status ELSE "failed"
  BY <1>4, <1>6 DEF Columns
<1> QED
  BY <1>3, <1>4, <1>5, <1>8, <1>9, <1>10
-----------------------------------------------------------------------------
(* What each step does to the run it belongs to, and to the rows.          *)

At == {"none", "lost", "unrecorded"} \cup InFlight \cup Recorded

\* The other runs are left alone, and this one keeps its identity.
OnlyRun(r) ==
    /\ run' \in [RunId -> RunType]
    /\ \A s \in RunId : s # r => run'[s] = run[s]
    /\ run'[r].kind = run[r].kind
    /\ run'[r].task = run[r].task
    /\ run'[r].day = run[r].day

SameReading(r) == run'[r].read = run[r].read /\ run'[r].seen = run[r].seen
SameReport(r) == run'[r].done = run[r].done /\ run'[r].created = run[r].created
SameVerdict(r) == run'[r].misled = run[r].misled

\* Typed runs, and the day a report is created on.
LEMMA RunsTyped ==
    ASSUME TypeOK
    PROVE /\ run \in [RunId -> RunType]
          /\ row \in [Tasks -> RowType]
          /\ UtcDay \in 0..LastDay /\ UtcDay <= day
          /\ day \in 1..LastDay /\ day \in 0..LastDay /\ day \in Nat
          /\ launchDay \in 0..LastDay
<1>1. /\ run \in [RunId -> RunType] /\ row \in [Tasks -> RowType]
      /\ day \in 1..LastDay /\ launchDay \in 0..LastDay
  BY DEF TypeOK, RunType
<1> QED
  BY <1>1, Constants DEF UtcDay


\* Taking a slot starts the analysis, whose report is created now.
LEMMA AcquireEffect ==
    ASSUME TypeOK, NEW r \in RunId, Acquire(r)
    PROVE OnlyRun(r) /\ SameReading(r) /\ run'[r].done = run[r].done
          /\ run'[r].at = "analysing" /\ run'[r].created = UtcDay
<1>1. run \in [RunId -> RunType] /\ run[r] \in RunType /\ UtcDay \in 0..LastDay
  BY RunsTyped
<1>2. run' = [run EXCEPT ![r].at = "analysing", ![r].created = UtcDay]
  BY DEF Acquire
<1>3. [run[r] EXCEPT !.at = "analysing", !.created = UtcDay] \in RunType
  BY <1>1 DEF RunType, InFlight
<1> QED
  BY <1>1, <1>2, <1>3 DEF OnlyRun, SameReading, RunType

\* Saving the report marks it and leaves when it was created.
LEMMA SaveReportEffect ==
    ASSUME TypeOK, NEW r \in RunId, SaveReport(r)
    PROVE OnlyRun(r) /\ SameReading(r) /\ run'[r].created = run[r].created
          /\ run'[r].at = "saved" /\ run'[r].done
<1>1. run \in [RunId -> RunType] /\ run[r] \in RunType
  BY RunsTyped
<1>2. run' = [run EXCEPT ![r].at = "saved", ![r].done = TRUE]
  BY DEF SaveReport
<1>3. [run[r] EXCEPT !.at = "saved", !.done = TRUE] \in RunType
  BY <1>1 DEF RunType, InFlight
<1> QED
  BY <1>1, <1>2, <1>3 DEF OnlyRun, SameReading, RunType

\* The end of the job leaves an outcome to record; a success has its report
\* where the run is not misled.
LEMMA JobEndsEffect ==
    ASSUME TypeOK, NEW r \in RunId, JobEnds(r)
    PROVE /\ OnlyRun(r) /\ SameReading(r)
          /\ run'[r].created = run[r].created
          /\ run'[r].at \in Recording
          /\ run'[r].at = "recordSuccess" =>
                 run'[r].misled \/ (run[r].at = "saved" /\ run'[r].done = run[r].done)
<1>1. run \in [RunId -> RunType] /\ run[r] \in RunType
  BY RunsTyped
<1>2. PICK to \in Recording, misled \in BOOLEAN :
        /\ to = "recordSuccess" => run[r].at = "saved" \/ misled
        /\ run' = [run EXCEPT ![r].at = to, ![r].misled = misled,
                              ![r].done = @ /\ to = "recordSuccess" /\ ~misled]
  BY DEF JobEnds
<1> DEFINE done == run[r].done /\ to = "recordSuccess" /\ ~misled
           x == [run[r] EXCEPT !.at = to, !.misled = misled, !.done = done]
<1>3. done \in BOOLEAN /\ (to = "recordSuccess" /\ ~misled => done = run[r].done)
  BY <1>1 DEF RunType
<1>4. run' = [run EXCEPT ![r] = x]
  BY <1>1, <1>2
<1> HIDE DEF done
<1>5. /\ x \in RunType /\ x.at = to /\ x.misled = misled /\ x.done = done
      /\ x.created = run[r].created /\ x.kind = run[r].kind
      /\ x.task = run[r].task /\ x.day = run[r].day
      /\ x.read = run[r].read /\ x.seen = run[r].seen
  BY <1>1, <1>3 DEF RunType, InFlight
<1> HIDE DEF x
<1>6. run'[r] = x /\ run' \in [RunId -> RunType]
      /\ \A s \in RunId : s # r => run'[s] = run[s]
  BY <1>1, <1>4, <1>5
<1> QED
  BY <1>2, <1>3, <1>5, <1>6 DEF OnlyRun, SameReading

\* It ends where it ran, and touches neither the rows nor the loop.
LEMMA JobEndsLeaves ==
    ASSUME NEW r \in RunId, JobEnds(r)
    PROVE /\ run[r].at \in {"analysing", "saved"}
          /\ UNCHANGED <<clockVars, loopVars, row, started, countVars>>
BY DEF JobEnds

\* A recording transaction reads the row as it is.
LEMMA ReadRowEffect ==
    ASSUME TypeOK, NEW r \in RunId, ReadRow(r)
    PROVE OnlyRun(r) /\ SameReport(r) /\ SameVerdict(r)
          /\ run'[r].at = run[r].at
          /\ run'[r].read = TRUE /\ run'[r].seen = row[run[r].task]
<1>1. run \in [RunId -> RunType] /\ run[r] \in RunType
      /\ row \in [Tasks -> RowType]
  BY RunsTyped
<1>2. run[r].task \in Tasks /\ row[run[r].task] \in RowType
  BY <1>1 DEF RunType
<1>3. run' = [run EXCEPT ![r].read = TRUE, ![r].seen = row[run[r].task]]
  BY DEF ReadRow
<1>4. [run[r] EXCEPT !.read = TRUE, !.seen = row[run[r].task]] \in RunType
  BY <1>1, <1>2 DEF RunType
<1> QED
  BY <1>1, <1>2, <1>3, <1>4 DEF OnlyRun, SameReport, SameVerdict, RunType

\* The four ways a recording transaction ends.
LEMMA EndsEffect ==
    ASSUME TypeOK, NEW r \in RunId, NEW to \in At, Ends(r, to)
    PROVE /\ OnlyRun(r) /\ SameReport(r) /\ run'[r].at = to
          /\ run'[r].read = FALSE
          /\ to = "success" => SameVerdict(r)
<1>1. run \in [RunId -> RunType] /\ run[r] \in RunType /\ NoRow \in RowType
  BY RunsTyped, FirstRows
<1> DEFINE misled == run[r].misled /\ to = "success"
           x == [run[r] EXCEPT !.at = to, !.misled = misled, !.read = FALSE,
                               !.seen = NoRow]
<1>2. run' = [run EXCEPT ![r] = x]
  BY <1>1 DEF Ends
<1>3. misled \in BOOLEAN /\ (to = "success" => misled = run[r].misled)
  BY <1>1 DEF RunType
<1> HIDE DEF misled
<1>4. /\ x \in RunType /\ x.at = to /\ x.misled = misled /\ x.read = FALSE
      /\ x.done = run[r].done /\ x.created = run[r].created
      /\ x.kind = run[r].kind /\ x.task = run[r].task /\ x.day = run[r].day
  BY <1>1, <1>3 DEF RunType, At
<1> HIDE DEF x
<1>5. run'[r] = x /\ run' \in [RunId -> RunType]
      /\ \A s \in RunId : s # r => run'[s] = run[s]
  BY <1>1, <1>2, <1>4
<1> QED
  BY <1>3, <1>4, <1>5 DEF OnlyRun, SameReport, SameVerdict

\* A new run takes the next id.
LEMMA NewRunEffect ==
    ASSUME TypeOK, NEW kind \in {"scheduled", "manual"}, NEW t \in Tasks,
           NEW d \in 0..LastDay, NewRun(kind, t, d)
    PROVE /\ started + 1 \in RunId /\ started' = started + 1
          /\ started' \in 0..MaxRuns
          /\ run' \in [RunId -> RunType]
          /\ \A s \in RunId : s # started + 1 => run'[s] = run[s]
          /\ run'[started + 1].kind = kind
          /\ run'[started + 1].task = t
          /\ run'[started + 1].day = d
          /\ run'[started + 1].read = FALSE
          /\ run'[started + 1].at =
                 IF kind = "manual" THEN "analysing" ELSE "queued"
          /\ run'[started + 1].created =
                 IF kind = "manual" THEN UtcDay ELSE NoDay
<1>1. run \in [RunId -> RunType] /\ UtcDay \in 0..LastDay /\ NoRun \in RunType
  BY RunsTyped, FirstRows
<1>2. started + 1 \in RunId /\ started' = started + 1 /\ started' \in 0..MaxRuns
  BY Constants DEF NewRun, TypeOK, RunId
<1> DEFINE at == IF kind = "manual" THEN "analysing" ELSE "queued"
           created == IF kind = "manual" THEN UtcDay ELSE NoDay
           x == [NoRun EXCEPT !.kind = kind, !.task = t, !.day = d, !.at = at,
                              !.created = created]
<1>3. run' = [run EXCEPT ![started + 1] = x]
  BY DEF NewRun
<1>4. at \in InFlight /\ created \in 0..LastDay
  BY <1>1, Constants DEF InFlight, NoDay
<1> HIDE DEF at, created
<1>5. /\ x \in RunType /\ x.kind = kind /\ x.task = t /\ x.day = d
      /\ x.at = at /\ x.created = created /\ x.read = NoRun.read
  BY <1>1, <1>4 DEF RunType
<1>6. NoRun.read = FALSE
  BY DEF NoRun
<1> HIDE DEF x
<1>7. /\ run' \in [RunId -> RunType] /\ run'[started + 1] = x
      /\ \A s \in RunId : s # started + 1 => run'[s] = run[s]
  BY <1>1, <1>2, <1>3, <1>5
<1> QED
  BY <1>2, <1>5, <1>6, <1>7 DEF at, created

\* A crash takes the runs of the schedule that are in flight.
LEMMA CrashEffect ==
    ASSUME TypeOK, Crash
    PROVE /\ run' \in [RunId -> RunType]
          /\ \A r \in RunId :
                /\ run'[r].kind = run[r].kind /\ run'[r].task = run[r].task
                /\ run'[r].day = run[r].day /\ SameReport(r)
                /\ Scheduled(r) /\ run[r].at \in InFlight =>
                       run'[r].at = "lost" /\ run'[r].read = FALSE
                /\ ~(Scheduled(r) /\ run[r].at \in InFlight) =>
                       run'[r] = run[r]
<1>1. run \in [RunId -> RunType] /\ NoRow \in RowType
  BY RunsTyped, FirstRows
<1>2. \A r \in RunId :
          run'[r] = IF Scheduled(r) /\ run[r].at \in InFlight
                    THEN [run[r] EXCEPT !.at = "lost", !.read = FALSE,
                                        !.seen = NoRow]
                    ELSE run[r]
  BY DEF Crash
<1>4. ASSUME NEW r \in RunId
      PROVE /\ run'[r] \in RunType
            /\ run'[r].kind = run[r].kind /\ run'[r].task = run[r].task
            /\ run'[r].day = run[r].day /\ SameReport(r)
            /\ Scheduled(r) /\ run[r].at \in InFlight =>
                   run'[r].at = "lost" /\ run'[r].read = FALSE
            /\ ~(Scheduled(r) /\ run[r].at \in InFlight) => run'[r] = run[r]
  <2> DEFINE x == run[r]
             y == [x EXCEPT !.at = "lost", !.read = FALSE, !.seen = NoRow]
  <2>1. x \in RunType
    BY <1>1
  <2>2. y \in RunType /\ y.kind = x.kind /\ y.task = x.task /\ y.day = x.day
        /\ y.done = x.done /\ y.created = x.created /\ y.at = "lost"
        /\ y.read = FALSE
    BY <1>1, <2>1 DEF RunType
  <2>3. run'[r] = IF Scheduled(r) /\ run[r].at \in InFlight THEN y ELSE x
    BY <1>2
  <2> HIDE DEF y
  <2>4. CASE Scheduled(r) /\ run[r].at \in InFlight
    BY <2>2, <2>3, <2>4 DEF SameReport
  <2>5. CASE ~(Scheduled(r) /\ run[r].at \in InFlight)
    BY <2>1, <2>3, <2>5 DEF SameReport
  <2> QED  BY <2>4, <2>5
<1>5. run' \in [RunId -> RunType]
  BY <1>4 DEF Crash
<1> QED
  BY <1>4, <1>5

\* The rows a step of the loop or of a user leaves.
LEMMA ClaimEffect ==
    ASSUME TypeOK, Claim
    PROVE /\ row' \in [Tasks -> RowType]
          /\ \A t \in Tasks : t \notin Pending => row'[t] = row[t]
          /\ \A t \in Pending :
                /\ t \in Tasks
                /\ row'[t].lastDate = day /\ row'[t].status = "running"
                /\ \A f \in {"exists", "active", "trigger", "report", "failures"} :
                      row'[t][f] = row[t][f]
<1>1. row \in [Tasks -> RowType] /\ day \in 0..LastDay
  BY RunsTyped
<1>2. \A t \in Tasks :
          row'[t] = IF t \in Pending
                    THEN [row[t] EXCEPT !.lastDate = day, !.status = "running"]
                    ELSE row[t]
  BY DEF Claim
<1>3. \A x \in RowType :
          LET y == [x EXCEPT !.lastDate = day, !.status = "running"]
          IN  /\ y \in RowType /\ y.lastDate = day /\ y.status = "running"
              /\ \A f \in {"exists", "active", "trigger", "report", "failures"} :
                    y[f] = x[f]
  BY <1>1 DEF RowType, RowStatus
<1>4. row' \in [Tasks -> RowType]
  <2>1. \A t \in Tasks : row'[t] \in RowType
    BY <1>1, <1>2, <1>3
  <2> QED  BY <2>1 DEF Claim
<1>5. Pending \subseteq Tasks
  BY DEF Pending
<1>6. ASSUME NEW t \in Pending
      PROVE /\ row'[t].lastDate = day /\ row'[t].status = "running"
            /\ \A f \in {"exists", "active", "trigger", "report", "failures"} :
                  row'[t][f] = row[t][f]
  <2>1. t \in Tasks /\ row[t] \in RowType
    BY <1>1, <1>5
  <2>2. row'[t] = [row[t] EXCEPT !.lastDate = day, !.status = "running"]
    BY <1>2, <2>1
  <2> QED  BY <1>3, <2>1, <2>2
<1> QED
  BY <1>2, <1>4, <1>5, <1>6

\* A restart recovers the rows that were left "running", and no others.
LEMMA StartEffect ==
    ASSUME TypeOK, Start
    PROVE /\ row' \in [Tasks -> RowType]
          /\ \A t \in Tasks :
                /\ ~(row[t].exists /\ row[t].status = "running") =>
                       row'[t] = row[t]
                /\ row[t].exists /\ row[t].status = "running" =>
                       /\ row'[t].status = IF ReportFound(t) THEN "success"
                                           ELSE "stale"
                       /\ row'[t].lastDate = IF ReportFound(t)
                                             THEN row[t].lastDate ELSE NoDay
                /\ \A f \in {"exists", "active", "trigger", "report", "failures"} :
                      row'[t][f] = row[t][f]
<1>1. row \in [Tasks -> RowType] /\ NoDay \in 0..LastDay
  BY RunsTyped, Constants DEF NoDay
<1>2. \A t \in Tasks :
          row'[t] = IF row[t].exists /\ row[t].status = "running"
                    THEN Recovered(t) ELSE row[t]
  BY DEF Start
<1>3. \A t \in Tasks :
          /\ Recovered(t) \in RowType
          /\ Recovered(t).status = IF ReportFound(t) THEN "success" ELSE "stale"
          /\ Recovered(t).lastDate = IF ReportFound(t) THEN row[t].lastDate
                                     ELSE NoDay
          /\ \A f \in {"exists", "active", "trigger", "report", "failures"} :
                Recovered(t)[f] = row[t][f]
  <2> SUFFICES ASSUME NEW t \in Tasks
               PROVE /\ Recovered(t) \in RowType
                     /\ Recovered(t).status =
                            IF ReportFound(t) THEN "success" ELSE "stale"
                     /\ Recovered(t).lastDate =
                            IF ReportFound(t) THEN row[t].lastDate ELSE NoDay
                     /\ \A f \in {"exists", "active", "trigger", "report",
                                   "failures"} : Recovered(t)[f] = row[t][f]
    OBVIOUS
  <2> DEFINE x == row[t]
  <2>1. x \in RowType
    BY <1>1
  <2>2. CASE ReportFound(t)
    BY <2>1, <2>2 DEF Recovered, RowType, RowStatus
  <2>3. CASE ~ReportFound(t)
    BY <1>1, <2>1, <2>3 DEF Recovered, RowType, RowStatus
  <2> QED  BY <2>2, <2>3
<1>4. row' \in [Tasks -> RowType]
  <2>1. \A t \in Tasks : row'[t] \in RowType
    BY <1>1, <1>2, <1>3
  <2> QED  BY <2>1 DEF Start
<1> QED
  BY <1>1, <1>2, <1>3, <1>4

\* A user's edit changes one row, and neither its stamp nor its status.
LEMMA EditEffect ==
    ASSUME TypeOK, NEW t \in Tasks,
           \/ DeleteTask(t)
           \/ \E active \in BOOLEAN : SetActive(t, active)
           \/ \E trigger \in Triggers : SetTrigger(t, trigger)
    PROVE /\ row' \in [Tasks -> RowType]
          /\ edits < MaxEdits /\ edits' = edits + 1
          /\ \A u \in Tasks :
                /\ u # t => row'[u] = row[u]
                /\ \A f \in {"lastDate", "status", "report"} :
                      row'[u][f] = row[u][f]
                /\ row'[u].exists => row[u].exists
                /\ \/ row'[u].failures = row[u].failures
                      /\ row'[u].active = row[u].active
                   \/ row'[u].failures = 0
                   \/ row'[u].failures = row[u].failures /\ ~row'[u].active
<1>1. row \in [Tasks -> RowType] /\ row[t] \in RowType
  BY RunsTyped
<1>2. CASE DeleteTask(t)
  <2>1. row' = [row EXCEPT ![t].exists = FALSE]
    BY <1>2 DEF DeleteTask
  <2>2. [row[t] EXCEPT !.exists = FALSE] \in RowType
    BY <1>1 DEF RowType
  <2> QED  BY <1>1, <1>2, <2>1, <2>2 DEF DeleteTask, Edits, RowType
<1>3. ASSUME NEW active \in BOOLEAN, SetActive(t, active)
      PROVE /\ row' \in [Tasks -> RowType]
            /\ \A u \in Tasks :
                  /\ u # t => row'[u] = row[u]
                  /\ \A f \in {"exists", "lastDate", "status", "report"} :
                        row'[u][f] = row[u][f]
                  /\ \/ row'[u] = row[u]
                     \/ row'[u].failures = 0
                     \/ row'[u].failures = row[u].failures /\ ~row'[u].active
  <2> DEFINE n == IF active THEN 0 ELSE row[t].failures
             x == [row[t] EXCEPT !.active = active, !.failures = n]
  <2>1. n \in Nat
    BY <1>1 DEF RowType
  <2>2. row' = [row EXCEPT ![t] = x]
    BY <1>1, <1>3 DEF SetActive
  <2> HIDE DEF n
  <2>3. x \in RowType /\ x.active = active /\ x.failures = n
        /\ \A f \in {"exists", "lastDate", "status", "report"} : x[f] = row[t][f]
    BY <1>1, <2>1 DEF RowType
  <2> HIDE DEF x
  <2>4. row' \in [Tasks -> RowType] /\ row'[t] = x
        /\ \A u \in Tasks : u # t => row'[u] = row[u]
    BY <1>1, <2>2, <2>3
  <2> QED  BY <2>3, <2>4 DEF n
<1>4. ASSUME NEW trigger \in Triggers, SetTrigger(t, trigger)
      PROVE /\ row' \in [Tasks -> RowType]
            /\ \A u \in Tasks :
                  /\ u # t => row'[u] = row[u]
                  /\ \A f \in {"exists", "lastDate", "status", "report",
                                "failures", "active"} : row'[u][f] = row[u][f]
  <2> DEFINE x == [row[t] EXCEPT !.trigger = trigger]
  <2>1. row' = [row EXCEPT ![t] = x]
    BY <1>4 DEF SetTrigger
  <2>2. x \in RowType
        /\ \A f \in {"exists", "lastDate", "status", "report", "failures",
                      "active"} : x[f] = row[t][f]
    BY <1>1 DEF RowType
  <2> HIDE DEF x
  <2> QED  BY <1>1, <2>1, <2>2
<1>5. edits < MaxEdits /\ edits' = edits + 1
  BY DEF DeleteTask, SetActive, SetTrigger, Edits
<1> QED
  BY <1>2, <1>3, <1>4, <1>5

\* Launch and the manual trigger start one run each.
LEMMA StartsEffect ==
    ASSUME TypeOK, NEW t \in Tasks, Launch(t) \/ ManualTrigger(t)
    PROVE /\ started + 1 \in RunId /\ started' = started + 1
          /\ started \in Nat
          /\ run' \in [RunId -> RunType]
          /\ \A s \in RunId : s # started + 1 => run'[s] = run[s]
          /\ run'[started + 1].task = t
          /\ run'[started + 1].read = FALSE
          /\ Launch(t) => /\ run'[started + 1].kind = "scheduled"
                          /\ run'[started + 1].day = launchDay
                          /\ run'[started + 1].at = "queued"
                          /\ run'[started + 1].created = NoDay
          /\ ManualTrigger(t) => /\ run'[started + 1].kind = "manual"
                                 /\ run'[started + 1].day = day
                                 /\ run'[started + 1].at = "analysing"
                                 /\ run'[started + 1].created = UtcDay
          /\ UNCHANGED <<day, row, up>>
<1>1. day \in 0..LastDay /\ launchDay \in 0..LastDay /\ started \in Nat
  BY RunsTyped, Constants DEF TypeOK
<1>2. ASSUME Launch(t), ManualTrigger(t) PROVE FALSE
  <2>1. NewRun("scheduled", t, launchDay) /\ NewRun("manual", t, day)
    BY <1>2 DEF Launch, ManualTrigger
  <2>2. run'[started + 1].kind = "scheduled"
    BY <1>1, <2>1, NewRunEffect
  <2>3. run'[started + 1].kind = "manual"
    BY <1>1, <2>1, NewRunEffect
  <2> QED  BY <2>2, <2>3
<1>3. CASE Launch(t)
  <2>1. NewRun("scheduled", t, launchDay) /\ UNCHANGED <<day, row, up>>
    BY <1>3 DEF Launch, clockVars
  <2> QED  BY <1>1, <1>2, <1>3, <2>1, NewRunEffect
<1>4. CASE ManualTrigger(t)
  <2>1. NewRun("manual", t, day) /\ UNCHANGED <<day, row, up>>
    BY <1>4 DEF ManualTrigger, clockVars, processVars
  <2> QED  BY <1>1, <1>2, <1>4, <2>1, NewRunEffect
<1> QED
  BY <1>3, <1>4

\* The four steps of a recording transaction, seen from the run.
LEMMA RecordingEffect ==
    ASSUME TypeOK, NEW r \in RunId,
           \/ RecordSuccess(r) \/ RecordSuccessRaises(r)
           \/ RecordFailure(r) \/ RecordFailureRaises(r)
    PROVE /\ OnlyRun(r) /\ SameReport(r) /\ run'[r].read = FALSE
          /\ run[r].at \in Recording /\ HasRead(r)
          /\ run'[r].at \in {"success", "recordFailure", "failed", "unrecorded"}
          /\ RecordSuccess(r) => /\ run'[r].at = "success" /\ SameVerdict(r)
                                 /\ run[r].at = "recordSuccess"
          /\ RecordFailure(r) => run'[r].at = "failed"
          /\ RecordSuccessRaises(r) => run'[r].at = "recordFailure"
          /\ RecordFailureRaises(r) => run'[r].at = "unrecorded"
          /\ RecordSuccessRaises(r) \/ RecordFailureRaises(r) =>
                 row' = row /\ (DbMayFail \/ Vanished(r))
          /\ UNCHANGED <<day, up, free, claimed, toLaunch, launchDay, started>>
<1> DEFINE Effect(to) == /\ OnlyRun(r) /\ SameReport(r)
                         /\ run'[r].at = to /\ run'[r].read = FALSE
                         /\ to = "success" => SameVerdict(r)
<1>1. {"success", "recordFailure", "failed", "unrecorded"} \subseteq At
  BY DEF At, InFlight, Recording, Recorded
<1>2. \A to \in At : Ends(r, to) => Effect(to)
  BY EndsEffect
<1>3. RecordSuccess(r) => Ends(r, "success") /\ run[r].at = "recordSuccess"
  BY DEF RecordSuccess
<1>4. RecordSuccessRaises(r) => /\ Ends(r, "recordFailure") /\ row' = row
                                /\ run[r].at = "recordSuccess"
                                /\ DbMayFail \/ Vanished(r)
  BY DEF RecordSuccessRaises
<1>5. RecordFailure(r) => Ends(r, "failed") /\ run[r].at = "recordFailure"
  BY DEF RecordFailure
<1>6. RecordFailureRaises(r) => /\ Ends(r, "unrecorded") /\ row' = row
                                /\ run[r].at = "recordFailure"
                                /\ DbMayFail \/ Vanished(r)
  BY DEF RecordFailureRaises
<1>7. HasRead(r)
  BY DEF RecordSuccess, RecordSuccessRaises, RecordFailure, RecordFailureRaises
<1>8. UNCHANGED <<day, up, free, claimed, toLaunch, launchDay, started>>
  BY DEF RecordSuccess, RecordSuccessRaises, RecordFailure,
      RecordFailureRaises, clockVars, processVars
<1> HIDE DEF Effect
<1>9. /\ RecordSuccess(r) => Effect("success")
      /\ RecordSuccessRaises(r) => Effect("recordFailure")
      /\ RecordFailure(r) => Effect("failed")
      /\ RecordFailureRaises(r) => Effect("unrecorded")
  BY <1>1, <1>2, <1>3, <1>4, <1>5, <1>6
<1> USE DEF Effect
<1>10. /\ RecordSuccess(r) => run'[r].at = "success" /\ SameVerdict(r)
       /\ RecordFailure(r) => run'[r].at = "failed"
       /\ RecordSuccessRaises(r) => run'[r].at = "recordFailure"
       /\ RecordFailureRaises(r) => run'[r].at = "unrecorded"
  BY <1>9
<1>11. OnlyRun(r) /\ SameReport(r) /\ run'[r].read = FALSE
  BY <1>9
<1>12. run[r].at \in Recording
  BY <1>3, <1>4, <1>5, <1>6 DEF Recording
<1>13. RecordSuccessRaises(r) \/ RecordFailureRaises(r) =>
           row' = row /\ (DbMayFail \/ Vanished(r))
  BY <1>4, <1>6
<1> QED
  BY <1>3, <1>7, <1>8, <1>10, <1>11, <1>12, <1>13

-----------------------------------------------------------------------------
(* Types.                                                                  *)

\* The types of the rows and the runs, and of everything else.
DataType == row \in [Tasks -> RowType] /\ run \in [RunId -> RunType]
RestType ==
    /\ day \in 1..LastDay /\ part \in Parts
    /\ up \in BOOLEAN /\ claimed \subseteq Tasks /\ toLaunch \subseteq Tasks
    /\ launchDay \in 0..LastDay /\ free \in 0..Concurrency
    /\ started \in 0..MaxRuns /\ crashes \in 0..MaxCrashes
    /\ edits \in 0..MaxEdits

\* The two together are TypeOK.
LEMMA TypeSplit == TypeOK <=> DataType /\ RestType
BY DEF TypeOK, DataType, RestType, RunType

\* Every step keeps the rows and the runs in their ranges.
LEMMA DataStep == ASSUME TypeOK, [Next]_vars PROVE DataType'
<1>0. DataType
  BY TypeSplit
<1> USE <1>0 DEF DataType
<1>1. ASSUME Tick PROVE DataType'
  BY <1>1 DEF Tick
<1>2. ASSUME Claim PROVE DataType'
  BY <1>2, ClaimEffect DEF Claim
<1>3. ASSUME ReadClaimed PROVE DataType'
  BY <1>3 DEF ReadClaimed
<1>4. ASSUME ReadClaimedRaises PROVE DataType'
  BY <1>4 DEF ReadClaimedRaises
<1>5. ASSUME Crash PROVE DataType'
  BY <1>5, CrashEffect DEF Crash
<1>6. ASSUME Start PROVE DataType'
  BY <1>6, StartEffect DEF Start
<1>7. ASSUME NEW t \in Tasks, Launch(t) PROVE DataType'
  BY <1>7, NewRunEffect, RunsTyped DEF Launch
<1>8. ASSUME NEW t \in Tasks, ManualTrigger(t) PROVE DataType'
  BY <1>8, NewRunEffect, RunsTyped DEF ManualTrigger
<1>9. ASSUME NEW t \in Tasks, DeleteTask(t) PROVE DataType'
  BY <1>9, EditEffect DEF DeleteTask
<1>10. ASSUME NEW t \in Tasks, NEW active \in BOOLEAN, SetActive(t, active)
      PROVE DataType'
  BY <1>10, EditEffect DEF SetActive
<1>11. ASSUME NEW t \in Tasks, NEW trigger \in Triggers, SetTrigger(t,
      trigger) PROVE DataType'
  BY <1>11, EditEffect DEF SetTrigger
<1>12. ASSUME NEW r \in RunId, Acquire(r) PROVE DataType'
  BY <1>12, AcquireEffect DEF Acquire, OnlyRun
<1>13. ASSUME NEW r \in RunId, SaveReport(r) PROVE DataType'
  BY <1>13, SaveReportEffect DEF SaveReport, OnlyRun
<1>14. ASSUME NEW r \in RunId, JobEnds(r) PROVE DataType'
  BY <1>14, JobEndsEffect, JobEndsLeaves DEF OnlyRun
<1>15. ASSUME NEW r \in RunId, ReadRow(r) PROVE DataType'
  BY <1>15, ReadRowEffect DEF ReadRow, OnlyRun
<1>16. ASSUME NEW r \in RunId, RecordSuccess(r) PROVE DataType'
  <2>1. run' \in [RunId -> RunType]
    BY <1>16, EndsEffect DEF RecordSuccess, OnlyRun, At, Recorded
  <2>2. row' \in [Tasks -> RowType]
    <3>1. CASE Seen(r).exists
      BY <1>16, <3>1, SuccessEffect, SeenType
    <3>2. CASE ~Seen(r).exists
      BY <1>16, <3>2 DEF RecordSuccess
    <3> QED  BY <3>1, <3>2
  <2> QED  BY <2>1, <2>2
<1>17. ASSUME NEW r \in RunId, RecordSuccessRaises(r) PROVE DataType'
  BY <1>17, EndsEffect DEF RecordSuccessRaises, OnlyRun, At, InFlight,
      Recording
<1>18. ASSUME NEW r \in RunId, RecordFailure(r) PROVE DataType'
  <2>1. run' \in [RunId -> RunType]
    BY <1>18, EndsEffect DEF RecordFailure, OnlyRun, At, Recorded
  <2>2. row' \in [Tasks -> RowType]
    <3>1. CASE Seen(r).exists
      BY <1>18, <3>1, FailureEffect, SeenType
    <3>2. CASE ~Seen(r).exists
      BY <1>18, <3>2 DEF RecordFailure
    <3> QED  BY <3>1, <3>2
  <2> QED  BY <2>1, <2>2
<1>19. ASSUME NEW r \in RunId, RecordFailureRaises(r) PROVE DataType'
  BY <1>19, EndsEffect DEF RecordFailureRaises, OnlyRun, At, InFlight,
      Recording
<1>20. ASSUME UNCHANGED vars PROVE DataType'
  BY <1>20 DEF vars, processVars
<1> QED
  BY <1>1, <1>2, <1>3, <1>4, <1>5, <1>6, <1>7, <1>8, <1>9, <1>10, <1>11,
     <1>12, <1>13, <1>14, <1>15, <1>16, <1>17, <1>18, <1>19, <1>20
  DEF Next, UserStep, RunStep


-----------------------------------------------------------------------------
(* Runs, their slots and the process.                                      *)

\* Ids are given in order, and a run that was not started has no state.
Fresh == \A r \in RunId : r > started => run[r].kind = "none"

\* Only a started run is anywhere, and only an overlapping transaction has
\* read its row ahead of its write.
Placed ==
    \A r \in RunId :
        /\ run[r].kind = "none" => run[r].at = "none"
        /\ run[r].read => WritesMayOverlap /\ run[r].at \in Recording

\* A dead process has nothing in hand.
Down ==
    ~up => /\ claimed = {} /\ toLaunch = {}
           /\ \A r \in RunId : Scheduled(r) => run[r].at \notin InFlight

Book == Fresh /\ Placed /\ Down

\* Runs are started in order.
LEMMA FreshStep ==
    ASSUME TypeOK, Fresh, Placed, [Next]_vars
    PROVE Fresh'
<1> USE DEF Fresh
<1>1. ASSUME Tick PROVE Fresh'
  BY <1>1 DEF Tick, processVars, countVars, InFlight, Recording, Scheduled,
      Placed, RunId
<1>2. ASSUME Claim PROVE Fresh'
  BY <1>2 DEF Claim, clockVars, countVars, Recording, Placed, RunId
<1>3. ASSUME ReadClaimed PROVE Fresh'
  BY <1>3 DEF ReadClaimed, clockVars, countVars, Recording, Placed, RunId
<1>4. ASSUME ReadClaimedRaises PROVE Fresh'
  BY <1>4 DEF ReadClaimedRaises, clockVars, countVars, Recording, Placed,
      RunId
<1>5. ASSUME Crash PROVE Fresh'
  BY <1>5, CrashEffect DEF Crash, clockVars, InFlight, Recording, Scheduled,
      Placed, RunId, SameReport
<1>6. ASSUME Start PROVE Fresh'
  BY <1>6 DEF Start, clockVars, countVars, Recording, Placed, RunId
<1>7. ASSUME NEW t \in Tasks, Launch(t) PROVE Fresh'
  <2>1. /\ started' = started + 1 /\ started \in Nat
        /\ \A s \in RunId : s # started + 1 => run'[s] = run[s]
    BY <1>7, StartsEffect
  <2>2. ASSUME NEW s \in RunId, s > started' PROVE run'[s].kind = "none"
    <3>1. s > started /\ s # started + 1
      BY <2>1, <2>2 DEF RunId
    <3> QED  BY <2>1, <3>1
  <2> QED  BY <2>2
<1>8. ASSUME NEW t \in Tasks, ManualTrigger(t) PROVE Fresh'
  <2>1. /\ started' = started + 1 /\ started \in Nat
        /\ \A s \in RunId : s # started + 1 => run'[s] = run[s]
    BY <1>8, StartsEffect
  <2>2. ASSUME NEW s \in RunId, s > started' PROVE run'[s].kind = "none"
    <3>1. s > started /\ s # started + 1
      BY <2>1, <2>2 DEF RunId
    <3> QED  BY <2>1, <3>1
  <2> QED  BY <2>2
<1>9. ASSUME NEW t \in Tasks, DeleteTask(t) PROVE Fresh'
  BY <1>9 DEF DeleteTask, clockVars, processVars, Recording, Placed, RunId
<1>10. ASSUME NEW t \in Tasks, NEW active \in BOOLEAN, SetActive(t, active)
      PROVE Fresh'
  BY <1>10 DEF SetActive, clockVars, processVars, Recording, Placed, RunId
<1>11. ASSUME NEW t \in Tasks, NEW trigger \in Triggers, SetTrigger(t,
      trigger) PROVE Fresh'
  BY <1>11 DEF SetTrigger, clockVars, processVars, Recording, Placed, RunId
<1>12. ASSUME NEW r \in RunId, Acquire(r) PROVE Fresh'
  BY <1>12, AcquireEffect DEF Acquire, clockVars, loopVars, countVars,
      Recording, Scheduled, Placed, RunId, OnlyRun, SameReading
<1>13. ASSUME NEW r \in RunId, SaveReport(r) PROVE Fresh'
  BY <1>13, SaveReportEffect DEF SaveReport, clockVars, processVars,
      countVars, Recording, Placed, RunId, OnlyRun, SameReading
<1>14. ASSUME NEW r \in RunId, JobEnds(r) PROVE Fresh'
  BY <1>14, JobEndsEffect, JobEndsLeaves DEF clockVars, loopVars, countVars,
      Recording, Placed, RunId, OnlyRun, SameReading, SameReport
<1>15. ASSUME NEW r \in RunId, ReadRow(r) PROVE Fresh'
  BY <1>15, ReadRowEffect DEF ReadRow, clockVars, processVars, countVars,
      Recording, Placed, RunId, OnlyRun, SameReport
<1>16. ASSUME NEW r \in RunId, RecordSuccess(r) PROVE Fresh'
  BY <1>16, EndsEffect DEF RecordSuccess, clockVars, processVars, countVars,
      InFlight, Recording, Recorded, Placed, RunId, OnlyRun, SameReport, At
<1>17. ASSUME NEW r \in RunId, RecordSuccessRaises(r) PROVE Fresh'
  BY <1>17, EndsEffect DEF RecordSuccessRaises, clockVars, processVars,
      countVars, InFlight, Recording, Recorded, Placed, RunId, OnlyRun,
      SameReport, At
<1>18. ASSUME NEW r \in RunId, RecordFailure(r) PROVE Fresh'
  BY <1>18, EndsEffect DEF RecordFailure, clockVars, processVars, countVars,
      InFlight, Recording, Recorded, Placed, RunId, OnlyRun, SameReport, At
<1>19. ASSUME NEW r \in RunId, RecordFailureRaises(r) PROVE Fresh'
  BY <1>19, EndsEffect DEF RecordFailureRaises, clockVars, processVars,
      countVars, InFlight, Recording, Recorded, Placed, RunId, OnlyRun,
      SameReport, At
<1>20. ASSUME UNCHANGED vars PROVE Fresh'
  BY <1>20 DEF vars, clockVars, processVars, countVars, Recording, Placed,
      RunId
<1> QED
  BY <1>1, <1>2, <1>3, <1>4, <1>5, <1>6, <1>7, <1>8, <1>9, <1>10, <1>11,
     <1>12, <1>13, <1>14, <1>15, <1>16, <1>17, <1>18, <1>19, <1>20
  DEF Next, UserStep, RunStep

\* Where a run can be, and what it may have read.
LEMMA PlacedStep ==
    ASSUME TypeOK, Fresh, Placed, [Next]_vars
    PROVE Placed'
<1> USE Constants DEF Fresh, Placed, RunId
<1>1. ASSUME Tick PROVE Placed'
  BY <1>1 DEF Tick, processVars, countVars, InFlight, Recording, Scheduled
<1>2. ASSUME Claim PROVE Placed'
  BY <1>2 DEF Claim, clockVars, countVars, Recording
<1>3. ASSUME ReadClaimed PROVE Placed'
  BY <1>3 DEF ReadClaimed, clockVars, countVars, Recording
<1>4. ASSUME ReadClaimedRaises PROVE Placed'
  BY <1>4 DEF ReadClaimedRaises, clockVars, countVars, Recording
<1>5. ASSUME Crash PROVE Placed'
  BY <1>5, CrashEffect DEF Crash, clockVars, InFlight, Recording, Scheduled,
      SameReport
<1>6. ASSUME Start PROVE Placed'
  BY <1>6 DEF Start, clockVars, countVars, Recording
<1>7. ASSUME NEW t \in Tasks, Launch(t) PROVE Placed'
  BY <1>7, StartsEffect, RunsTyped DEF Launch, clockVars, countVars,
      Recording
<1>8. ASSUME NEW t \in Tasks, ManualTrigger(t) PROVE Placed'
  BY <1>8, StartsEffect, RunsTyped DEF ManualTrigger, clockVars, processVars,
      countVars, Recording, Manual
<1>9. ASSUME NEW t \in Tasks, DeleteTask(t) PROVE Placed'
  BY <1>9 DEF DeleteTask, clockVars, processVars, Recording
<1>10. ASSUME NEW t \in Tasks, NEW active \in BOOLEAN, SetActive(t, active)
      PROVE Placed'
  BY <1>10 DEF SetActive, clockVars, processVars, Recording
<1>11. ASSUME NEW t \in Tasks, NEW trigger \in Triggers, SetTrigger(t,
      trigger) PROVE Placed'
  BY <1>11 DEF SetTrigger, clockVars, processVars, Recording
<1>12. ASSUME NEW r \in RunId, Acquire(r) PROVE Placed'
  BY <1>12, AcquireEffect DEF Acquire, clockVars, loopVars, countVars,
      Recording, Scheduled, OnlyRun, SameReading
<1>13. ASSUME NEW r \in RunId, SaveReport(r) PROVE Placed'
  <2>1. OnlyRun(r) /\ SameReading(r) /\ run'[r].at = "saved"
    BY <1>13, SaveReportEffect
  <2>2. run[r].at = "analysing"
    BY <1>13 DEF SaveReport
  <2>3. run[r].kind # "none" /\ ~run[r].read
    BY <2>2 DEF Recording
  <2> QED  BY <2>1, <2>3 DEF OnlyRun, SameReading
<1>14. ASSUME NEW r \in RunId, JobEnds(r) PROVE Placed'
  <2>1. OnlyRun(r) /\ SameReading(r) /\ run'[r].at \in Recording
    BY <1>14, JobEndsEffect
  <2>2. run[r].at \in {"analysing", "saved"}
    BY <1>14, JobEndsLeaves
  <2>3. run[r].kind # "none" /\ ~run[r].read
    BY <2>2 DEF Recording
  <2> QED  BY <2>1, <2>3 DEF OnlyRun, SameReading
<1>15. ASSUME NEW r \in RunId, ReadRow(r) PROVE Placed'
  <2>1. OnlyRun(r) /\ run'[r].at = run[r].at
    BY <1>15, ReadRowEffect
  <2>2. WritesMayOverlap /\ run[r].at \in Recording
    BY <1>15 DEF ReadRow
  <2>3. run'[r].kind # "none"
    BY <2>1, <2>2 DEF OnlyRun, Recording
  <2> QED  BY <2>1, <2>2, <2>3 DEF OnlyRun
<1>16. ASSUME NEW r \in RunId, RecordSuccess(r) PROVE Placed'
  BY <1>16, EndsEffect DEF RecordSuccess, clockVars, processVars, countVars,
      InFlight, Recording, Recorded, OnlyRun, SameReport, At
<1>17. ASSUME NEW r \in RunId, RecordSuccessRaises(r) PROVE Placed'
  BY <1>17, EndsEffect DEF RecordSuccessRaises, clockVars, processVars,
      countVars, InFlight, Recording, Recorded, OnlyRun, SameReport, At
<1>18. ASSUME NEW r \in RunId, RecordFailure(r) PROVE Placed'
  BY <1>18, EndsEffect DEF RecordFailure, clockVars, processVars, countVars,
      InFlight, Recording, Recorded, OnlyRun, SameReport, At
<1>19. ASSUME NEW r \in RunId, RecordFailureRaises(r) PROVE Placed'
  BY <1>19, EndsEffect DEF RecordFailureRaises, clockVars, processVars,
      countVars, InFlight, Recording, Recorded, OnlyRun, SameReport, At
<1>20. ASSUME UNCHANGED vars PROVE Placed'
  BY <1>20 DEF vars, clockVars, processVars, countVars, Recording
<1> QED
  BY <1>1, <1>2, <1>3, <1>4, <1>5, <1>6, <1>7, <1>8, <1>9, <1>10, <1>11,
     <1>12, <1>13, <1>14, <1>15, <1>16, <1>17, <1>18, <1>19, <1>20
  DEF Next, UserStep, RunStep

\* A crash leaves nothing in flight, and nothing starts while the process is down.
LEMMA DownStep ==
    ASSUME TypeOK, Down, [Next]_vars
    PROVE Down'
<1> USE DEF Down
<1>1. ASSUME Tick PROVE Down'
  BY <1>1 DEF Tick, processVars, countVars, InFlight, Recording, Scheduled
<1>2. ASSUME Claim PROVE Down'
  BY <1>2 DEF Claim, clockVars, countVars, InFlight, Recording, Scheduled
<1>3. ASSUME ReadClaimed PROVE Down'
  BY <1>3 DEF ReadClaimed, clockVars, countVars, InFlight, Recording,
      Scheduled
<1>4. ASSUME ReadClaimedRaises PROVE Down'
  BY <1>4 DEF ReadClaimedRaises, clockVars, countVars, InFlight, Recording,
      Scheduled
<1>5. ASSUME Crash PROVE Down'
  BY <1>5, CrashEffect DEF Crash, clockVars, InFlight, Recording, Scheduled,
      SameReport
<1>6. ASSUME Start PROVE Down'
  BY <1>6 DEF Start, clockVars, countVars, InFlight, Recording, Scheduled
<1>7. ASSUME NEW t \in Tasks, Launch(t) PROVE Down'
  BY <1>7, StartsEffect, RunsTyped DEF Launch, clockVars, countVars,
      InFlight, Recording, Scheduled
<1>8. ASSUME NEW t \in Tasks, ManualTrigger(t) PROVE Down'
  BY <1>8, StartsEffect, RunsTyped DEF ManualTrigger, clockVars, processVars,
      countVars, InFlight, Recording, Scheduled, Manual
<1>9. ASSUME NEW t \in Tasks, DeleteTask(t) PROVE Down'
  BY <1>9 DEF DeleteTask, clockVars, processVars, InFlight, Recording,
      Scheduled
<1>10. ASSUME NEW t \in Tasks, NEW active \in BOOLEAN, SetActive(t, active)
      PROVE Down'
  BY <1>10 DEF SetActive, clockVars, processVars, InFlight, Recording,
      Scheduled
<1>11. ASSUME NEW t \in Tasks, NEW trigger \in Triggers, SetTrigger(t,
      trigger) PROVE Down'
  BY <1>11 DEF SetTrigger, clockVars, processVars, InFlight, Recording,
      Scheduled
<1>12. ASSUME NEW r \in RunId, Acquire(r) PROVE Down'
  BY <1>12, AcquireEffect DEF Acquire, clockVars, loopVars, countVars,
      InFlight, Recording, Scheduled, OnlyRun, SameReading
<1>13. ASSUME NEW r \in RunId, SaveReport(r) PROVE Down'
  BY <1>13, SaveReportEffect DEF SaveReport, clockVars, processVars,
      countVars, InFlight, Recording, Scheduled, OnlyRun, SameReading
<1>14. ASSUME NEW r \in RunId, JobEnds(r) PROVE Down'
  BY <1>14, JobEndsEffect, JobEndsLeaves DEF clockVars, loopVars, countVars,
      InFlight, Recording, Scheduled, OnlyRun, SameReading, SameReport
<1>15. ASSUME NEW r \in RunId, ReadRow(r) PROVE Down'
  BY <1>15, ReadRowEffect DEF ReadRow, clockVars, processVars, countVars,
      InFlight, Recording, Scheduled, OnlyRun, SameReport
<1>16. ASSUME NEW r \in RunId, RecordSuccess(r) PROVE Down'
  BY <1>16, EndsEffect DEF RecordSuccess, clockVars, processVars, countVars,
      InFlight, Recording, Recorded, Scheduled, OnlyRun, SameReport, At
<1>17. ASSUME NEW r \in RunId, RecordSuccessRaises(r) PROVE Down'
  BY <1>17, EndsEffect DEF RecordSuccessRaises, clockVars, processVars,
      countVars, InFlight, Recording, Recorded, Scheduled, OnlyRun,
      SameReport, At
<1>18. ASSUME NEW r \in RunId, RecordFailure(r) PROVE Down'
  BY <1>18, EndsEffect DEF RecordFailure, clockVars, processVars, countVars,
      InFlight, Recording, Recorded, Scheduled, OnlyRun, SameReport, At
<1>19. ASSUME NEW r \in RunId, RecordFailureRaises(r) PROVE Down'
  BY <1>19, EndsEffect DEF RecordFailureRaises, clockVars, processVars,
      countVars, InFlight, Recording, Recorded, Scheduled, OnlyRun,
      SameReport, At
<1>20. ASSUME UNCHANGED vars PROVE Down'
  BY <1>20 DEF vars, clockVars, processVars, countVars, InFlight, Recording,
      Scheduled
<1> QED
  BY <1>1, <1>2, <1>3, <1>4, <1>5, <1>6, <1>7, <1>8, <1>9, <1>10, <1>11,
     <1>12, <1>13, <1>14, <1>15, <1>16, <1>17, <1>18, <1>19, <1>20
  DEF Next, UserStep, RunStep


-----------------------------------------------------------------------------
(* The slots.                                                              *)

Holders == {r \in RunId : Holds(r)}

\* The holders can be counted.
LEMMA HoldersFinite ==
    /\ IsFiniteSet(RunId)
    /\ IsFiniteSet(Holders) /\ Cardinality(Holders) \in Nat
<1>1. IsFiniteSet(RunId)
  BY Constants, FS_Interval DEF RunId
<1>2. Holders \subseteq RunId
  BY DEF Holders
<1> QED
  BY <1>1, <1>2, FS_Subset, FS_CardinalityType

\* Without a limit nobody holds a slot.
LEMMA NoLimit == Concurrency = 0 => Holders = {}
BY DEF Holders, Holds

\* A step that lets no run take or leave a slot keeps the holders.
LEMMA SameHolders ==
    ASSUME \A r \in RunId :
              Scheduled(r)' /\ run'[r].at \in {"analysing", "saved"} <=>
              Scheduled(r) /\ run[r].at \in {"analysing", "saved"}
    PROVE Holders' = Holders
BY DEF Holders, Holds, Scheduled

SlotsInv == SlotsConserved /\ free \in 0..Concurrency

\* Every step keeps the slots and their holders in balance.
LEMMA SlotsStep ==
    ASSUME TypeOK, Book, SlotsInv, [Next]_vars PROVE SlotsInv'
<1>1. ASSUME Tick PROVE SlotsInv'
  <2>1. Holders' = Holders
    BY <1>1, SameHolders DEF Tick, Scheduled
  <2>2. UNCHANGED <<free, up>>
    BY <1>1 DEF Tick, processVars, countVars
  <2> QED  BY <2>1, <2>2 DEF SlotsInv, SlotsConserved, Holders
<1>2. ASSUME Claim PROVE SlotsInv'
  <2>1. Holders' = Holders
    BY <1>2, SameHolders DEF Claim, Scheduled
  <2>2. UNCHANGED <<free, up>>
    BY <1>2 DEF Claim, clockVars, countVars
  <2> QED  BY <2>1, <2>2 DEF SlotsInv, SlotsConserved, Holders
<1>3. ASSUME ReadClaimed PROVE SlotsInv'
  <2>1. Holders' = Holders
    BY <1>3, SameHolders DEF ReadClaimed, Scheduled
  <2>2. UNCHANGED <<free, up>>
    BY <1>3 DEF ReadClaimed, clockVars, countVars
  <2> QED  BY <2>1, <2>2 DEF SlotsInv, SlotsConserved, Holders
<1>4. ASSUME ReadClaimedRaises PROVE SlotsInv'
  <2>1. Holders' = Holders
    BY <1>4, SameHolders DEF ReadClaimedRaises, Scheduled
  <2>2. UNCHANGED <<free, up>>
    BY <1>4 DEF ReadClaimedRaises, clockVars, countVars
  <2> QED  BY <2>1, <2>2 DEF SlotsInv, SlotsConserved, Holders
<1>5. ASSUME Crash PROVE SlotsInv'
  <2>1. ~up' /\ free' = free
    BY <1>5 DEF Crash
  <2> QED  BY <2>1 DEF SlotsInv, SlotsConserved
<1>6. ASSUME Start PROVE SlotsInv'
  <2>1. free' = Concurrency /\ run' = run /\ ~up
    BY <1>6 DEF Start
  <2>2. Holders' = {}
    BY <2>1 DEF Book, Down, InFlight, Holders, Holds, Scheduled
  <2>3. Cardinality(Holders') = 0
    BY <2>2, FS_EmptySet
  <2> QED  BY <2>1, <2>3, Constants DEF SlotsInv, SlotsConserved, Holders
<1>7. ASSUME NEW t \in Tasks, Launch(t) PROVE SlotsInv'
  <2>1. Holders' = Holders
    <3>1. /\ \A s \in RunId : s # started + 1 => run'[s] = run[s]
          /\ started + 1 \in RunId /\ started \in Nat
          /\ run'[started + 1].at = "queued"
      BY <1>7, StartsEffect
    <3>2. run[started + 1].kind = "none"
      BY <3>1 DEF Book, Fresh
    <3> QED  BY <3>1, <3>2, SameHolders DEF Scheduled
  <2>2. UNCHANGED <<free, up>>
    BY <1>7 DEF Launch, clockVars, countVars
  <2> QED  BY <2>1, <2>2 DEF SlotsInv, SlotsConserved, Holders
<1>8. ASSUME NEW t \in Tasks, ManualTrigger(t) PROVE SlotsInv'
  <2>1. Holders' = Holders
    <3>1. /\ \A s \in RunId : s # started + 1 => run'[s] = run[s]
          /\ started + 1 \in RunId /\ started \in Nat
          /\ run'[started + 1].kind = "manual"
      BY <1>8, StartsEffect
    <3>2. run[started + 1].kind = "none"
      BY <3>1 DEF Book, Fresh
    <3> QED  BY <3>1, <3>2, SameHolders DEF Scheduled
  <2>2. UNCHANGED <<free, up>>
    BY <1>8 DEF ManualTrigger, clockVars, processVars, countVars
  <2> QED  BY <2>1, <2>2 DEF SlotsInv, SlotsConserved, Holders
<1>9. ASSUME NEW t \in Tasks, DeleteTask(t) PROVE SlotsInv'
  <2>1. Holders' = Holders
    BY <1>9, SameHolders DEF DeleteTask, Scheduled
  <2>2. UNCHANGED <<free, up>>
    BY <1>9 DEF DeleteTask, clockVars, processVars
  <2> QED  BY <2>1, <2>2 DEF SlotsInv, SlotsConserved, Holders
<1>10. ASSUME NEW t \in Tasks, NEW active \in BOOLEAN, SetActive(t, active)
      PROVE SlotsInv'
  <2>1. Holders' = Holders
    BY <1>10, SameHolders DEF SetActive, Scheduled
  <2>2. UNCHANGED <<free, up>>
    BY <1>10 DEF SetActive, clockVars, processVars
  <2> QED  BY <2>1, <2>2 DEF SlotsInv, SlotsConserved, Holders
<1>11. ASSUME NEW t \in Tasks, NEW trigger \in Triggers, SetTrigger(t,
      trigger) PROVE SlotsInv'
  <2>1. Holders' = Holders
    BY <1>11, SameHolders DEF SetTrigger, Scheduled
  <2>2. UNCHANGED <<free, up>>
    BY <1>11 DEF SetTrigger, clockVars, processVars
  <2> QED  BY <2>1, <2>2 DEF SlotsInv, SlotsConserved, Holders
<1>12. ASSUME NEW r \in RunId, Acquire(r) PROVE SlotsInv'
  <2>1. UNCHANGED up /\ Scheduled(r) /\ run[r].at = "queued"
    BY <1>12 DEF Acquire, loopVars
  <2>2. up
    BY <2>1 DEF Book, Down, InFlight
  <2>3. CASE Concurrency = 0
    <3>1. Holders = {} /\ Holders' = {} /\ free' = free
      BY <1>12, <2>3, NoLimit DEF Acquire, Holders, Holds
    <3> QED  BY <2>1, <3>1 DEF SlotsInv, SlotsConserved, Holders
  <2>4. CASE Concurrency > 0
    <3>1. free > 0 /\ free' = free - 1
      BY <1>12, <2>4 DEF Acquire
    <3>2. Holders' = Holders \cup {r}
      BY <1>12, <2>1, <2>4, AcquireEffect DEF OnlyRun, Holders, Holds,
          Scheduled
    <3>3. r \notin Holders
      BY <2>1 DEF Holders, Holds
    <3>4. Cardinality(Holders') = Cardinality(Holders) + 1
      BY <3>2, <3>3, HoldersFinite, FS_AddElement
    <3>5. free + Cardinality(Holders) = Concurrency /\ free \in 0..Concurrency
      BY <2>2 DEF SlotsInv, SlotsConserved, Holders
    <3>6. free' + Cardinality(Holders') = Concurrency /\ free' \in 0..Concurrency
      BY <3>1, <3>4, <3>5, HoldersFinite, Constants
    <3> QED  BY <3>6 DEF SlotsInv, SlotsConserved, Holders
  <2> QED  BY <2>3, <2>4, Constants
<1>13. ASSUME NEW r \in RunId, SaveReport(r) PROVE SlotsInv'
  <2>1. Holders' = Holders
    BY <1>13, SaveReportEffect, SameHolders DEF SaveReport, OnlyRun, Scheduled
  <2>2. UNCHANGED <<free, up>>
    BY <1>13 DEF SaveReport, clockVars, processVars, countVars
  <2> QED  BY <2>1, <2>2 DEF SlotsInv, SlotsConserved, Holders
<1>14. ASSUME NEW r \in RunId, JobEnds(r) PROVE SlotsInv'
  <2>1. UNCHANGED up /\ free' = IF Holds(r) THEN free + 1 ELSE free
    BY <1>14 DEF JobEnds, Release, loopVars
  <2>2. run'[r].at \notin {"analysing", "saved"}
    BY <1>14, JobEndsEffect DEF Recording
  <2>3. CASE ~Holds(r)
    <3>1. Holders' = Holders
      BY <1>14, <2>2, <2>3, JobEndsEffect DEF OnlyRun, Holders, Holds,
          Scheduled
    <3> QED  BY <2>1, <2>3, <3>1 DEF SlotsInv, SlotsConserved, Holders
  <2>4. CASE Holds(r)
    <3>1. up
      BY <2>4 DEF Book, Down, Holds, InFlight
    <3>2. Holders' = Holders \ {r} /\ r \in Holders
      BY <1>14, <2>2, <2>4, JobEndsEffect DEF OnlyRun, Holders, Holds,
          Scheduled
    <3>3. Cardinality(Holders') = Cardinality(Holders) - 1
      BY <3>2, HoldersFinite, FS_RemoveElement
    <3>4. Cardinality(Holders) # 0
      BY <3>2, HoldersFinite, FS_EmptySet
    <3>5. free + Cardinality(Holders) = Concurrency /\ free \in 0..Concurrency
      BY <3>1 DEF SlotsInv, SlotsConserved, Holders
    <3>6. free' + Cardinality(Holders') = Concurrency /\ free' \in 0..Concurrency
      BY <2>1, <2>4, <3>3, <3>4, <3>5, HoldersFinite, Constants
    <3> QED  BY <3>6 DEF SlotsInv, SlotsConserved, Holders
  <2> QED  BY <2>3, <2>4
<1>15. ASSUME NEW r \in RunId, ReadRow(r) PROVE SlotsInv'
  <2>1. Holders' = Holders
    BY <1>15, ReadRowEffect, SameHolders DEF ReadRow, OnlyRun, Scheduled
  <2>2. UNCHANGED <<free, up>>
    BY <1>15 DEF ReadRow, clockVars, processVars, countVars
  <2> QED  BY <2>1, <2>2 DEF SlotsInv, SlotsConserved, Holders
<1>16. ASSUME NEW r \in RunId, RecordSuccess(r) PROVE SlotsInv'
  <2>1. Holders' = Holders
    BY <1>16, RecordingEffect, SameHolders DEF OnlyRun, Scheduled, Recording
  <2>2. UNCHANGED <<free, up>>
    BY <1>16 DEF RecordSuccess, clockVars, processVars, countVars
  <2> QED  BY <2>1, <2>2 DEF SlotsInv, SlotsConserved, Holders
<1>17. ASSUME NEW r \in RunId, RecordSuccessRaises(r) PROVE SlotsInv'
  <2>1. Holders' = Holders
    BY <1>17, RecordingEffect, SameHolders DEF OnlyRun, Scheduled, Recording
  <2>2. UNCHANGED <<free, up>>
    BY <1>17 DEF RecordSuccessRaises, clockVars, processVars, countVars
  <2> QED  BY <2>1, <2>2 DEF SlotsInv, SlotsConserved, Holders
<1>18. ASSUME NEW r \in RunId, RecordFailure(r) PROVE SlotsInv'
  <2>1. Holders' = Holders
    BY <1>18, RecordingEffect, SameHolders DEF OnlyRun, Scheduled, Recording
  <2>2. UNCHANGED <<free, up>>
    BY <1>18 DEF RecordFailure, clockVars, processVars, countVars
  <2> QED  BY <2>1, <2>2 DEF SlotsInv, SlotsConserved, Holders
<1>19. ASSUME NEW r \in RunId, RecordFailureRaises(r) PROVE SlotsInv'
  <2>1. Holders' = Holders
    BY <1>19, RecordingEffect, SameHolders DEF OnlyRun, Scheduled, Recording
  <2>2. UNCHANGED <<free, up>>
    BY <1>19 DEF RecordFailureRaises, clockVars, processVars, countVars
  <2> QED  BY <2>1, <2>2 DEF SlotsInv, SlotsConserved, Holders
<1>20. ASSUME UNCHANGED vars PROVE SlotsInv'
  <2>1. Holders' = Holders
    BY <1>20, SameHolders DEF vars, Scheduled
  <2>2. UNCHANGED <<free, up>>
    BY <1>20 DEF vars, clockVars, processVars, countVars
  <2> QED  BY <2>1, <2>2 DEF SlotsInv, SlotsConserved, Holders
<1> QED
  BY <1>1, <1>2, <1>3, <1>4, <1>5, <1>6, <1>7, <1>8, <1>9, <1>10, <1>11,
     <1>12, <1>13, <1>14, <1>15, <1>16, <1>17, <1>18, <1>19, <1>20
  DEF Next, UserStep, RunStep

\* Every step keeps the other variables in their ranges.
LEMMA RestStep == ASSUME TypeOK, SlotsInv', [Next]_vars PROVE RestType'
<1>0. RestType /\ free' \in 0..Concurrency
  BY TypeSplit DEF SlotsInv
<1> USE <1>0, Constants DEF RestType
<1>1. ASSUME Tick PROVE RestType'
  BY <1>1 DEF Tick, NextPart, processVars, countVars, Parts
<1>2. ASSUME Claim PROVE RestType'
  <2>1. claimed' \subseteq Tasks /\ launchDay' = day
    BY <1>2 DEF Claim, Pending
  <2>2. UNCHANGED <<day, part, up, toLaunch, free, started, crashes, edits>>
    BY <1>2 DEF Claim, clockVars, countVars
  <2> QED
    BY <2>1, <2>2
<1>3. ASSUME ReadClaimed PROVE RestType'
  BY <1>3 DEF ReadClaimed, clockVars, countVars
<1>4. ASSUME ReadClaimedRaises PROVE RestType'
  BY <1>4 DEF ReadClaimedRaises, clockVars, countVars
<1>5. ASSUME Crash PROVE RestType'
  <2>1. crashes < MaxCrashes /\ crashes' = crashes + 1
    BY <1>5 DEF Crash
  <2>2. crashes' \in 0..MaxCrashes
    BY <2>1
  <2> QED
    BY <1>5, <2>2 DEF Crash, clockVars
<1>6. ASSUME Start PROVE RestType'
  BY <1>6 DEF Start, clockVars, countVars
<1>7. ASSUME NEW t \in Tasks, Launch(t) PROVE RestType'
  <2>1. started' = started + 1 /\ started + 1 \in RunId /\ started \in Nat
    BY <1>7, StartsEffect
  <2>2. started' \in 0..MaxRuns
    BY <2>1 DEF RunId
  <2> QED
    BY <1>7, <2>2 DEF Launch, clockVars, countVars
<1>8. ASSUME NEW t \in Tasks, ManualTrigger(t) PROVE RestType'
  <2>1. started' = started + 1 /\ started + 1 \in RunId /\ started \in Nat
    BY <1>8, StartsEffect
  <2>2. started' \in 0..MaxRuns
    BY <2>1 DEF RunId
  <2> QED
    BY <1>8, <2>2 DEF ManualTrigger, clockVars, processVars, countVars
<1>9. ASSUME NEW t \in Tasks, DeleteTask(t) PROVE RestType'
  BY <1>9 DEF DeleteTask, Edits, clockVars, processVars
<1>10. ASSUME NEW t \in Tasks, NEW active \in BOOLEAN, SetActive(t, active)
      PROVE RestType'
  BY <1>10 DEF SetActive, Edits, clockVars, processVars
<1>11. ASSUME NEW t \in Tasks, NEW trigger \in Triggers, SetTrigger(t,
      trigger) PROVE RestType'
  BY <1>11 DEF SetTrigger, Edits, clockVars, processVars
<1>12. ASSUME NEW r \in RunId, Acquire(r) PROVE RestType'
  BY <1>12 DEF Acquire, clockVars, loopVars, countVars
<1>13. ASSUME NEW r \in RunId, SaveReport(r) PROVE RestType'
  BY <1>13 DEF SaveReport, clockVars, processVars, countVars
<1>14. ASSUME NEW r \in RunId, JobEnds(r) PROVE RestType'
  BY <1>14 DEF JobEnds, clockVars, loopVars, countVars
<1>15. ASSUME NEW r \in RunId, ReadRow(r) PROVE RestType'
  BY <1>15 DEF ReadRow, clockVars, processVars, countVars
<1>16. ASSUME NEW r \in RunId, RecordSuccess(r) PROVE RestType'
  BY <1>16 DEF RecordSuccess, clockVars, processVars, countVars
<1>17. ASSUME NEW r \in RunId, RecordSuccessRaises(r) PROVE RestType'
  BY <1>17 DEF RecordSuccessRaises, clockVars, processVars, countVars
<1>18. ASSUME NEW r \in RunId, RecordFailure(r) PROVE RestType'
  BY <1>18 DEF RecordFailure, clockVars, processVars, countVars
<1>19. ASSUME NEW r \in RunId, RecordFailureRaises(r) PROVE RestType'
  BY <1>19 DEF RecordFailureRaises, clockVars, processVars, countVars
<1>20. ASSUME UNCHANGED vars PROVE RestType'
  BY <1>20 DEF vars, clockVars, processVars, countVars
<1> QED
  BY <1>1, <1>2, <1>3, <1>4, <1>5, <1>6, <1>7, <1>8, <1>9, <1>10, <1>11,
     <1>12, <1>13, <1>14, <1>15, <1>16, <1>17, <1>18, <1>19, <1>20
  DEF Next, UserStep, RunStep


-----------------------------------------------------------------------------
(* Outcomes are final.                                                     *)

Final == Recorded \cup {"unrecorded", "lost"}

\* A started run keeps its identity, and its outcome once it has one.
LEMMA RunsGoOn ==
    ASSUME TypeOK, Book, [Next]_vars
    PROVE \A s \in RunId : run[s].kind # "none" =>
              /\ run'[s].kind = run[s].kind /\ run'[s].task = run[s].task
              /\ run'[s].day = run[s].day
              /\ run[s].at \in Final => run'[s] = run[s]
<1> DEFINE Goal == \A s \in RunId : run[s].kind # "none" =>
              /\ run'[s].kind = run[s].kind /\ run'[s].task = run[s].task
              /\ run'[s].day = run[s].day
              /\ run[s].at \in Final => run'[s] = run[s]
<1>1. ASSUME Tick PROVE Goal
  BY <1>1 DEF Tick
<1>2. ASSUME Claim PROVE Goal
  BY <1>2 DEF Claim
<1>3. ASSUME ReadClaimed PROVE Goal
  BY <1>3 DEF ReadClaimed
<1>4. ASSUME ReadClaimedRaises PROVE Goal
  BY <1>4 DEF ReadClaimedRaises
<1>5. ASSUME Crash PROVE Goal
  BY <1>5, CrashEffect DEF Final, Recorded, InFlight, Recording
<1>6. ASSUME Start PROVE Goal
  BY <1>6 DEF Start
<1>7. ASSUME NEW t \in Tasks, Launch(t) PROVE Goal
  <2>1. /\ \A s \in RunId : s # started + 1 => run'[s] = run[s]
        /\ started + 1 \in RunId /\ started \in Nat
    BY <1>7, StartsEffect
  <2>2. run[started + 1].kind = "none"
    BY <2>1 DEF Book, Fresh
  <2> QED  BY <2>1, <2>2
<1>8. ASSUME NEW t \in Tasks, ManualTrigger(t) PROVE Goal
  <2>1. /\ \A s \in RunId : s # started + 1 => run'[s] = run[s]
        /\ started + 1 \in RunId /\ started \in Nat
    BY <1>8, StartsEffect
  <2>2. run[started + 1].kind = "none"
    BY <2>1 DEF Book, Fresh
  <2> QED  BY <2>1, <2>2
<1>9. ASSUME NEW t \in Tasks, DeleteTask(t) PROVE Goal
  BY <1>9 DEF DeleteTask
<1>10. ASSUME NEW t \in Tasks, NEW active \in BOOLEAN, SetActive(t, active)
      PROVE Goal
  BY <1>10 DEF SetActive
<1>11. ASSUME NEW t \in Tasks, NEW trigger \in Triggers, SetTrigger(t,
      trigger) PROVE Goal
  BY <1>11 DEF SetTrigger
<1>12. ASSUME NEW r \in RunId, Acquire(r) PROVE Goal
  <2>1. OnlyRun(r)
    BY <1>12, AcquireEffect
  <2>2. run[r].at \notin Final
    BY <1>12 DEF Acquire, Final, Recorded
  <2> QED  BY <2>1, <2>2 DEF OnlyRun
<1>13. ASSUME NEW r \in RunId, SaveReport(r) PROVE Goal
  <2>1. OnlyRun(r)
    BY <1>13, SaveReportEffect
  <2>2. run[r].at \notin Final
    BY <1>13 DEF SaveReport, Final, Recorded
  <2> QED  BY <2>1, <2>2 DEF OnlyRun
<1>14. ASSUME NEW r \in RunId, JobEnds(r) PROVE Goal
  <2>1. OnlyRun(r)
    BY <1>14, JobEndsEffect
  <2>2. run[r].at \notin Final
    BY <1>14 DEF JobEnds, Final, Recorded
  <2> QED  BY <2>1, <2>2 DEF OnlyRun
<1>15. ASSUME NEW r \in RunId, ReadRow(r) PROVE Goal
  <2>1. OnlyRun(r)
    BY <1>15, ReadRowEffect
  <2>2. run[r].at \notin Final
    BY <1>15 DEF ReadRow, Final, Recorded, Recording
  <2> QED  BY <2>1, <2>2 DEF OnlyRun
<1>16. ASSUME NEW r \in RunId, RecordSuccess(r) PROVE Goal
  <2>1. OnlyRun(r) /\ run[r].at \in Recording
    BY <1>16, RecordingEffect
  <2> QED  BY <2>1 DEF OnlyRun, Final, Recorded, Recording
<1>17. ASSUME NEW r \in RunId, RecordSuccessRaises(r) PROVE Goal
  <2>1. OnlyRun(r) /\ run[r].at \in Recording
    BY <1>17, RecordingEffect
  <2> QED  BY <2>1 DEF OnlyRun, Final, Recorded, Recording
<1>18. ASSUME NEW r \in RunId, RecordFailure(r) PROVE Goal
  <2>1. OnlyRun(r) /\ run[r].at \in Recording
    BY <1>18, RecordingEffect
  <2> QED  BY <2>1 DEF OnlyRun, Final, Recorded, Recording
<1>19. ASSUME NEW r \in RunId, RecordFailureRaises(r) PROVE Goal
  <2>1. OnlyRun(r) /\ run[r].at \in Recording
    BY <1>19, RecordingEffect
  <2> QED  BY <2>1 DEF OnlyRun, Final, Recorded, Recording
<1>20. ASSUME UNCHANGED vars PROVE Goal
  BY <1>20 DEF vars
<1> QED
  BY <1>1, <1>2, <1>3, <1>4, <1>5, <1>6, <1>7, <1>8, <1>9, <1>10, <1>11,
     <1>12, <1>13, <1>14, <1>15, <1>16, <1>17, <1>18, <1>19, <1>20
  DEF Next, UserStep, RunStep

-----------------------------------------------------------------------------
(* The report a row shows.                                                 *)

\* A run that records a success, or did, has a completed report or is misled.
Backed ==
    \A r \in RunId :
       /\ run[r].at = "saved" => HasReport(r)
       /\ run[r].at \in {"recordSuccess", "success"} =>
              HasReport(r) \/ run[r].misled

\* Every step leaves it so.
LEMMA BackedStep ==
    ASSUME TypeOK, Book, Backed, [Next]_vars
    PROVE Backed'
<1> USE DEF Backed, HasReport
<1>1. ASSUME run' = run PROVE Backed'
  BY <1>1
<1>2. ASSUME NEW r \in RunId, \A s \in RunId : s # r => run'[s] = run[s],
             /\ run'[r].at = "saved" => run'[r].done
             /\ run'[r].at \in {"recordSuccess", "success"} =>
                    run'[r].done \/ run'[r].misled
      PROVE Backed'
  BY <1>2
<1>3. ASSUME Crash PROVE Backed'
  <2>1. \A r \in RunId : run'[r] = run[r] \/ run'[r].at = "lost"
    BY <1>3, CrashEffect
  <2> QED  BY <2>1
<1>4. ASSUME NEW t \in Tasks, Launch(t) \/ ManualTrigger(t) PROVE Backed'
  <2>1. PICK r \in RunId : /\ \A s \in RunId : s # r => run'[s] = run[s]
                           /\ run'[r].at \in {"queued", "analysing"}
    BY <1>4, StartsEffect
  <2> QED  BY <1>2, <2>1
<1>5. ASSUME NEW r \in RunId, Acquire(r) PROVE Backed'
  BY <1>2, <1>5, AcquireEffect DEF OnlyRun
<1>6. ASSUME NEW r \in RunId, SaveReport(r) PROVE Backed'
  BY <1>2, <1>6, SaveReportEffect DEF OnlyRun
<1>7. ASSUME NEW r \in RunId, JobEnds(r) PROVE Backed'
  <2>1. run'[r].at = "recordSuccess" => run'[r].done \/ run'[r].misled
    BY <1>7, JobEndsEffect
  <2>2. run'[r].at \in Recording
    BY <1>7, JobEndsEffect
  <2> QED  BY <1>2, <1>7, <2>1, <2>2, JobEndsEffect DEF OnlyRun, Recording
<1>8. ASSUME NEW r \in RunId, ReadRow(r) PROVE Backed'
  BY <1>2, <1>8, ReadRowEffect DEF OnlyRun, SameReport, SameVerdict
<1>9. ASSUME NEW r \in RunId, RecordSuccess(r) PROVE Backed'
  BY <1>2, <1>9, RecordingEffect DEF OnlyRun, SameReport, SameVerdict
<1>10. ASSUME NEW r \in RunId,
              \/ RecordSuccessRaises(r) \/ RecordFailure(r)
              \/ RecordFailureRaises(r)
       PROVE Backed'
  <2>1. OnlyRun(r) /\ run'[r].at \in {"recordFailure", "failed", "unrecorded"}
    BY <1>10, RecordingEffect
  <2> QED  BY <1>2, <2>1 DEF OnlyRun
<1>11. ASSUME \/ Tick \/ Claim \/ ReadClaimed \/ ReadClaimedRaises \/ Start
              \/ UNCHANGED vars
       PROVE run' = run
  BY <1>11 DEF Tick, Claim, ReadClaimed, ReadClaimedRaises, Start, vars
<1>12. ASSUME NEW t \in Tasks,
              \/ DeleteTask(t)
              \/ \E active \in BOOLEAN : SetActive(t, active)
              \/ \E trigger \in Triggers : SetTrigger(t, trigger)
       PROVE run' = run
  BY <1>12 DEF DeleteTask, SetActive, SetTrigger
<1> QED
  BY <1>1, <1>3, <1>4, <1>5, <1>6, <1>7, <1>8, <1>9, <1>10, <1>11, <1>12
  DEF Next, UserStep, RunStep

\* A step that shows no other report shows a true one.
LEMMA ShownStays ==
    ASSUME TypeOK, Book, ReportShownIsTrue, [Next]_vars,
           \A t \in Tasks : row'[t].report = row[t].report
    PROVE ReportShownIsTrue'
<1> SUFFICES ASSUME NEW t \in Tasks, row'[t].report # NoReport
             PROVE /\ run'[row'[t].report].task = t
                   /\ run'[row'[t].report].at = "success"
                   /\ \/ run'[row'[t].report].done
                      \/ run'[row'[t].report].misled
  BY DEF ReportShownIsTrue, HasReport
<1>1. row'[t].report = row[t].report
  OBVIOUS
<1> DEFINE R == row[t].report
<1>2. /\ R \in RunId /\ run[R].task = t /\ run[R].at = "success"
      /\ run[R].done \/ run[R].misled
  <2>1. R \in 0..MaxRuns /\ R # NoReport
    BY <1>1, RunsTyped DEF RowType
  <2>2. R \in RunId
    BY <2>1, Constants DEF RunId, NoReport
  <2> QED  BY <2>1, <2>2 DEF ReportShownIsTrue, HasReport
<1>3. run[R].kind # "none"
  <2>1. \A r \in RunId : run[r].kind = "none" => run[r].at = "none"
    BY DEF Book, Placed
  <2> QED  BY <1>2, <2>1
<1>4. run'[R] = run[R]
  BY <1>2, <1>3, RunsGoOn DEF Final, Recorded
<1> QED
  BY <1>1, <1>2, <1>4

\* So a report that may be shown stays one that may be shown.
LEMMA ShownStep ==
    ASSUME TypeOK, Book, Backed, ReportShownIsTrue, [Next]_vars
    PROVE ReportShownIsTrue'
<1> DEFINE Same == \A t \in Tasks : row'[t].report = row[t].report
<1>1. ASSUME Tick PROVE Same
  BY <1>1 DEF Tick
<1>2. ASSUME Claim PROVE Same
  <2>1. \A t \in Tasks : row'[t]["report"] = row[t]["report"]
    BY <1>2, ClaimEffect
  <2> QED  BY <2>1
<1>3. ASSUME ReadClaimed PROVE Same
  BY <1>3 DEF ReadClaimed
<1>4. ASSUME ReadClaimedRaises PROVE Same
  BY <1>4 DEF ReadClaimedRaises
<1>5. ASSUME Crash PROVE Same
  BY <1>5 DEF Crash
<1>6. ASSUME Start PROVE Same
  <2>1. \A t \in Tasks : row'[t]["report"] = row[t]["report"]
    BY <1>6, StartEffect
  <2> QED  BY <2>1
<1>7. ASSUME NEW t \in Tasks, Launch(t) PROVE Same
  BY <1>7 DEF Launch
<1>8. ASSUME NEW t \in Tasks, ManualTrigger(t) PROVE Same
  BY <1>8 DEF ManualTrigger
<1>9. ASSUME NEW t \in Tasks, DeleteTask(t) PROVE Same
  <2>1. \A u \in Tasks : row'[u]["report"] = row[u]["report"]
    BY <1>9, EditEffect
  <2> QED  BY <2>1
<1>10. ASSUME NEW t \in Tasks, NEW active \in BOOLEAN, SetActive(t, active)
      PROVE Same
  <2>1. \A u \in Tasks : row'[u]["report"] = row[u]["report"]
    BY <1>10, EditEffect
  <2> QED  BY <2>1
<1>11. ASSUME NEW t \in Tasks, NEW trigger \in Triggers, SetTrigger(t,
      trigger) PROVE Same
  <2>1. \A u \in Tasks : row'[u]["report"] = row[u]["report"]
    BY <1>11, EditEffect
  <2> QED  BY <2>1
<1>12. ASSUME NEW r \in RunId, Acquire(r) PROVE Same
  BY <1>12 DEF Acquire
<1>13. ASSUME NEW r \in RunId, SaveReport(r) PROVE Same
  BY <1>13 DEF SaveReport
<1>14. ASSUME NEW r \in RunId, JobEnds(r) PROVE Same
  BY <1>14 DEF JobEnds
<1>15. ASSUME NEW r \in RunId, ReadRow(r) PROVE Same
  BY <1>15 DEF ReadRow
<1>16. ASSUME NEW r \in RunId, RecordSuccess(r) PROVE ReportShownIsTrue'
  <2> DEFINE task == run[r].task
  <2>1. CASE ~Seen(r).exists
    BY <1>16, <2>1, ShownStays DEF RecordSuccess
  <2>2. CASE Seen(r).exists
    <3>1. PICK m \in RowType : /\ row' = [row EXCEPT ![task] = m]
                               /\ m.report \in {row[task].report, r}
      BY <1>16, <2>2, SuccessEffect
    <3>2. /\ task \in Tasks /\ row'[task] = m
          /\ \A t \in Tasks : t # task => row'[t] = row[t]
      BY <3>1, RunsTyped, SeenType
    <3>3. CASE m.report = row[task].report
      BY <3>2, <3>3, ShownStays
    <3>4. CASE m.report = r
      <4>1. /\ run'[r].at = "success" /\ run'[r].task = task
            /\ run'[r].done \/ run'[r].misled
        BY <1>16, RecordingEffect
        DEF OnlyRun, Backed, HasReport, SameReport, SameVerdict
      <4>2. ASSUME NEW t \in Tasks, t # task, row'[t].report # NoReport
            PROVE /\ run'[row'[t].report].task = t
                  /\ run'[row'[t].report].at = "success"
                  /\ \/ run'[row'[t].report].done
                     \/ run'[row'[t].report].misled
        <5>1. row'[t].report = row[t].report /\ row[t].report \in RunId
          BY <3>2, <4>2, RunsTyped, Constants DEF RowType, RunId, NoReport
        <5>2. /\ run[row[t].report].task = t
              /\ run[row[t].report].at = "success"
              /\ run[row[t].report].done \/ run[row[t].report].misled
          BY <4>2, <5>1 DEF ReportShownIsTrue, HasReport
        <5>3. run'[row[t].report] = run[row[t].report]
          <6>1. \A s \in RunId : run[s].kind = "none" => run[s].at = "none"
            BY DEF Book, Placed
          <6>2. run[row[t].report].kind # "none"
            BY <5>1, <5>2, <6>1
          <6> QED  BY <5>1, <5>2, <6>2, RunsGoOn DEF Final, Recorded
        <5> QED  BY <5>1, <5>2, <5>3
      <4> QED  BY <3>2, <3>4, <4>1, <4>2 DEF ReportShownIsTrue, HasReport
    <3> QED  BY <3>1, <3>3, <3>4
  <2> QED  BY <2>1, <2>2
<1>17. ASSUME NEW r \in RunId, RecordSuccessRaises(r) PROVE Same
  BY <1>17 DEF RecordSuccessRaises
<1>18. ASSUME NEW r \in RunId, RecordFailure(r) PROVE Same
  <2>1. CASE Seen(r).exists
    BY <1>18, <2>1, FailureEffect, SeenType, RunsTyped
  <2>2. CASE ~Seen(r).exists
    BY <1>18, <2>2 DEF RecordFailure
  <2> QED  BY <2>1, <2>2
<1>19. ASSUME NEW r \in RunId, RecordFailureRaises(r) PROVE Same
  BY <1>19 DEF RecordFailureRaises
<1>20. ASSUME UNCHANGED vars PROVE Same
  BY <1>20 DEF vars
<1> QED
  BY ShownStays, <1>1, <1>2, <1>3, <1>4, <1>5, <1>6, <1>7, <1>8, <1>9, <1>10,
      <1>11,
     <1>12, <1>13, <1>14, <1>15, <1>16, <1>17, <1>18, <1>19, <1>20
  DEF Next, UserStep, RunStep


-----------------------------------------------------------------------------
(* Three strikes.                                                          *)

\* A row with three failures is inactive.  Where a commit may come between
\* reading and writing a row, a transaction that read an inactive row must not
\* find it active when it commits.
StrikesInv ==
    /\ StrikesDeactivate
    /\ WritesMayOverlap =>
           \A r \in RunId : run[r].read /\ ~run[r].seen.active =>
               ~row[run[r].task].active

\* The step activates no row that a transaction under way has read as inactive.
NoStaleActivation ==
    WritesMayOverlap =>
        \A r \in RunId : run[r].read /\ ~run[r].seen.active =>
            (row'[run[r].task].active => row[run[r].task].active)

\* The step adds no failure and activates no row ...
NoNewStrike ==
    \A t \in Tasks :
        /\ row'[t].active => row[t].active
        /\ row[t].active => row'[t].active
        /\ row'[t].failures \in {row[t].failures, 0}
\* ... and reads none.
NoNewReading ==
    \A s \in RunId : run'[s].read =>
        run[s].read /\ run'[s].seen = run[s].seen /\ run'[s].task = run[s].task

\* Such a step keeps StrikesInv.
LEMMA StrikesStay ==
    ASSUME TypeOK, StrikesInv, NoNewStrike, NoNewReading PROVE StrikesInv'
<1>1. StrikesDeactivate'
  <2> SUFFICES ASSUME NEW t \in Tasks, row'[t].failures >= 3
               PROVE ~row'[t].active
    BY DEF StrikesDeactivate
  <2>1. row[t].failures >= 3
    BY DEF NoNewStrike
  <2>2. ~row[t].active
    BY <2>1 DEF StrikesInv, StrikesDeactivate
  <2> QED  BY <2>2 DEF NoNewStrike
<1>2. ASSUME WritesMayOverlap, NEW r \in RunId,
             run'[r].read, ~run'[r].seen.active
      PROVE ~row'[run'[r].task].active
  <2>1. /\ run[r].read /\ run'[r].seen = run[r].seen
        /\ run'[r].task = run[r].task
    BY <1>2 DEF NoNewReading
  <2>2. ~row[run[r].task].active
    BY <1>2, <2>1 DEF StrikesInv
  <2> QED  BY <2>1, <2>2, SeenType DEF NoNewStrike
<1> QED
  BY <1>1, <1>2 DEF StrikesInv

\* Every step but a stale activation keeps StrikesInv; only recording a failure
\* adds one, and it deactivates the row in the same commit.
LEMMA StrikesStep ==
    ASSUME TypeOK, StrikesInv, NoStaleActivation, [Next]_vars
    PROVE  StrikesInv'
<1>1. ASSUME Tick PROVE StrikesInv'
  <2>1. NoNewStrike
    BY <1>1, RunsTyped DEF Tick, NoNewStrike
  <2>2. NoNewReading
    BY <1>1 DEF Tick, NoNewReading
  <2> QED  BY <2>1, <2>2, StrikesStay
<1>2. ASSUME Claim PROVE StrikesInv'
  <2>1. NoNewStrike
    <3>1. \A t \in Tasks : /\ row'[t]["active"] = row[t]["active"]
                          /\ row'[t]["failures"] = row[t]["failures"]
      BY <1>2, ClaimEffect
    <3> QED  BY <3>1 DEF NoNewStrike
  <2>2. NoNewReading
    BY <1>2 DEF Claim, NoNewReading
  <2> QED  BY <2>1, <2>2, StrikesStay
<1>3. ASSUME ReadClaimed PROVE StrikesInv'
  <2>1. NoNewStrike
    BY <1>3, RunsTyped DEF ReadClaimed, NoNewStrike
  <2>2. NoNewReading
    BY <1>3 DEF ReadClaimed, NoNewReading
  <2> QED  BY <2>1, <2>2, StrikesStay
<1>4. ASSUME ReadClaimedRaises PROVE StrikesInv'
  <2>1. NoNewStrike
    BY <1>4, RunsTyped DEF ReadClaimedRaises, NoNewStrike
  <2>2. NoNewReading
    BY <1>4 DEF ReadClaimedRaises, NoNewReading
  <2> QED  BY <2>1, <2>2, StrikesStay
<1>5. ASSUME Crash PROVE StrikesInv'
  <2>1. NoNewStrike
    BY <1>5, RunsTyped DEF Crash, NoNewStrike
  <2>2. NoNewReading
    BY <1>5, CrashEffect DEF NoNewReading
  <2> QED  BY <2>1, <2>2, StrikesStay
<1>6. ASSUME Start PROVE StrikesInv'
  <2>1. NoNewStrike
    <3>1. \A t \in Tasks : /\ row'[t]["active"] = row[t]["active"]
                          /\ row'[t]["failures"] = row[t]["failures"]
      BY <1>6, StartEffect
    <3> QED  BY <3>1 DEF NoNewStrike
  <2>2. NoNewReading
    BY <1>6 DEF Start, NoNewReading
  <2> QED  BY <2>1, <2>2, StrikesStay
<1>7. ASSUME NEW t \in Tasks, Launch(t) PROVE StrikesInv'
  <2>1. NoNewStrike
    BY <1>7, StartsEffect DEF NoNewStrike
  <2>2. NoNewReading
    BY <1>7, StartsEffect DEF NoNewReading
  <2> QED  BY <2>1, <2>2, StrikesStay
<1>8. ASSUME NEW t \in Tasks, ManualTrigger(t) PROVE StrikesInv'
  <2>1. NoNewStrike
    BY <1>8, StartsEffect DEF NoNewStrike
  <2>2. NoNewReading
    BY <1>8, StartsEffect DEF NoNewReading
  <2> QED  BY <2>1, <2>2, StrikesStay
<1>9. ASSUME NEW t \in Tasks,
             \/ DeleteTask(t)
             \/ \E active \in BOOLEAN : SetActive(t, active)
             \/ \E trigger \in Triggers : SetTrigger(t, trigger)
      PROVE StrikesInv'
  <2>1. \A u \in Tasks :
            \/ row'[u].failures = row[u].failures /\ row'[u].active = row[u].active
            \/ row'[u].failures = 0
            \/ row'[u].failures = row[u].failures /\ ~row'[u].active
    BY <1>9, EditEffect
  <2>2. StrikesDeactivate'
    BY <2>1 DEF StrikesInv, StrikesDeactivate
  <2>3. run' = run
    BY <1>9 DEF DeleteTask, SetActive, SetTrigger
  <2>4. ASSUME WritesMayOverlap, NEW r \in RunId, run[r].read, ~run[r].seen.active
        PROVE ~row'[run[r].task].active
    BY <2>4 DEF NoStaleActivation, StrikesInv
  <2> QED  BY <2>2, <2>3, <2>4 DEF StrikesInv
<1>12. ASSUME NEW r \in RunId, Acquire(r) PROVE StrikesInv'
  <2>1. NoNewStrike
    BY <1>12, RunsTyped DEF Acquire, NoNewStrike
  <2>2. NoNewReading
    BY <1>12, AcquireEffect DEF OnlyRun, SameReading, NoNewReading
  <2> QED  BY <2>1, <2>2, StrikesStay
<1>13. ASSUME NEW r \in RunId, SaveReport(r) PROVE StrikesInv'
  <2>1. NoNewStrike
    BY <1>13, RunsTyped DEF SaveReport, NoNewStrike
  <2>2. NoNewReading
    BY <1>13, SaveReportEffect DEF OnlyRun, SameReading, NoNewReading
  <2> QED  BY <2>1, <2>2, StrikesStay
<1>14. ASSUME NEW r \in RunId, JobEnds(r) PROVE StrikesInv'
  <2>1. NoNewStrike
    BY <1>14, RunsTyped DEF JobEnds, NoNewStrike
  <2>2. NoNewReading
    BY <1>14, JobEndsEffect DEF OnlyRun, SameReading, NoNewReading
  <2> QED  BY <2>1, <2>2, StrikesStay
<1>15. ASSUME NEW r \in RunId, ReadRow(r) PROVE StrikesInv'
  <2>1. row' = row /\ WritesMayOverlap
    BY <1>15 DEF ReadRow
  <2>2. /\ \A s \in RunId : s # r => run'[s] = run[s]
        /\ run'[r].task = run[r].task /\ run'[r].seen = row[run[r].task]
    BY <1>15, ReadRowEffect DEF OnlyRun
  <2> QED  BY <2>1, <2>2 DEF StrikesInv, StrikesDeactivate
<1>16. ASSUME NEW r \in RunId, RecordSuccess(r) PROVE StrikesInv'
  <2>1. NoNewStrike
    <3>1. CASE ~Seen(r).exists
      BY <1>16, <3>1, RunsTyped DEF RecordSuccess, NoNewStrike
    <3>2. CASE Seen(r).exists
      <4>1. PICK m \in RowType :
                /\ row' = [row EXCEPT ![run[r].task] = m]
                /\ m.active = row[run[r].task].active
                /\ m.failures \in {row[run[r].task].failures, 0}
        BY <1>16, <3>2, SuccessEffect
      <4> QED  BY <4>1, RunsTyped, SeenType DEF NoNewStrike
    <3> QED  BY <3>1, <3>2
  <2>2. NoNewReading
    BY <1>16, RecordingEffect DEF OnlyRun, NoNewReading
  <2> QED  BY <2>1, <2>2, StrikesStay
<1>17. ASSUME NEW r \in RunId, RecordSuccessRaises(r) PROVE StrikesInv'
  <2>1. NoNewStrike
    BY <1>17, RecordingEffect DEF NoNewStrike
  <2>2. NoNewReading
    BY <1>17, RecordingEffect DEF OnlyRun, NoNewReading
  <2> QED  BY <2>1, <2>2, StrikesStay
<1>18. ASSUME NEW r \in RunId, RecordFailure(r) PROVE StrikesInv'
  <2>1. NoNewReading
    BY <1>18, RecordingEffect DEF OnlyRun, NoNewReading
  <2>2. CASE ~Seen(r).exists
    <3>1. NoNewStrike
      BY <1>18, <2>2, RunsTyped DEF RecordFailure, NoNewStrike
    <3> QED  BY <2>1, <3>1, StrikesStay
  <2>3. CASE Seen(r).exists
    <3> DEFINE task == run[r].task
    <3>1. PICK m \in RowType :
              /\ row' = [row EXCEPT ![task] = m]
              /\ m.failures = IF Manual(r) THEN row[task].failures
                              ELSE Seen(r).failures + 1
              /\ m.active = IF ~Manual(r) /\ Seen(r).active
                               /\ Seen(r).failures >= 2
                            THEN FALSE ELSE row[task].active
      BY <1>18, <2>3, FailureEffect
    <3>2. /\ row'[task] = m /\ task \in Tasks
          /\ \A t \in Tasks : t # task => row'[t] = row[t]
      BY <3>1, RunsTyped, SeenType
    <3>3. m.active => row[task].active
      BY <3>1
    <3>4. \A t \in Tasks : row'[t].active => row[t].active
      BY <3>2, <3>3
    <3>5. ASSUME ~Seen(r).active PROVE ~row[task].active
      <4>1. CASE ~WritesMayOverlap
        BY <3>5, <4>1 DEF Seen
      <4>2. CASE WritesMayOverlap
        <5>1. run[r].read /\ Seen(r) = run[r].seen
          BY <1>18, <4>2, RecordingEffect DEF HasRead, Seen
        <5> QED  BY <3>5, <4>2, <5>1 DEF StrikesInv
      <4> QED  BY <4>1, <4>2
    <3>6. m.failures >= 3 => ~m.active
      <4>1. row[task].failures >= 3 => ~row[task].active
        BY <3>2 DEF StrikesInv, StrikesDeactivate
      <4>2. Seen(r).failures \in Nat
        BY SeenType DEF RowType
      <4> QED  BY <3>1, <3>5, <4>1, <4>2
    <3>7. StrikesDeactivate'
      BY <3>2, <3>6 DEF StrikesInv, StrikesDeactivate
    <3>8. ASSUME WritesMayOverlap, NEW s \in RunId, run'[s].read,
                 ~run'[s].seen.active
          PROVE ~row'[run'[s].task].active
      <4>1. /\ run[s].read /\ run'[s].seen = run[s].seen
            /\ run'[s].task = run[s].task
        BY <2>1, <3>8 DEF NoNewReading
      <4>2. ~row[run[s].task].active
        BY <3>8, <4>1 DEF StrikesInv
      <4> QED  BY <3>4, <4>1, <4>2, SeenType
    <3> QED  BY <3>7, <3>8 DEF StrikesInv
  <2> QED  BY <2>2, <2>3
<1>19. ASSUME NEW r \in RunId, RecordFailureRaises(r) PROVE StrikesInv'
  <2>1. NoNewStrike
    BY <1>19, RecordingEffect DEF NoNewStrike
  <2>2. NoNewReading
    BY <1>19, RecordingEffect DEF OnlyRun, NoNewReading
  <2> QED  BY <2>1, <2>2, StrikesStay
<1>20. ASSUME UNCHANGED vars PROVE StrikesInv'
  <2>1. NoNewStrike
    BY <1>20, RunsTyped DEF vars, NoNewStrike
  <2>2. NoNewReading
    BY <1>20 DEF vars, NoNewReading
  <2> QED  BY <2>1, <2>2, StrikesStay
<1> QED
  BY <1>1, <1>2, <1>3, <1>4, <1>5, <1>6, <1>7, <1>8, <1>9, <1>12, <1>13,
     <1>14, <1>15, <1>16, <1>17, <1>18, <1>19, <1>20
  DEF Next, UserStep, RunStep


-----------------------------------------------------------------------------
(* The calendar.  From here on the cases of a step are grouped: a step of a *)
(* run either works on the analysis, or reads the row, or records an        *)
(* outcome, or fails to.                                                    *)

UserEdit(t) ==
    \/ DeleteTask(t)
    \/ \E active \in BOOLEAN : SetActive(t, active)
    \/ \E trigger \in Triggers : SetTrigger(t, trigger)
Works(r) == Acquire(r) \/ SaveReport(r) \/ JobEnds(r)
Records(r) == RecordSuccess(r) \/ RecordFailure(r)
Raises(r) == RecordSuccessRaises(r) \/ RecordFailureRaises(r)

\* The grouped cases are all there are.
LEMMA Cases ==
    ASSUME [Next]_vars
    PROVE \/ Tick \/ Claim \/ ReadClaimed \/ ReadClaimedRaises
          \/ Crash \/ Start
          \/ \E t \in Tasks : Launch(t) \/ ManualTrigger(t) \/ UserEdit(t)
          \/ \E r \in RunId : \/ Works(r) \/ ReadRow(r)
                              \/ Records(r) \/ Raises(r)
          \/ UNCHANGED vars
BY DEF Next, UserStep, RunStep, UserEdit, Works, Records, Raises

\* An edit touches neither the runs nor the loop.
LEMMA UserEditEffect ==
    ASSUME TypeOK, NEW t \in Tasks, UserEdit(t)
    PROVE /\ UNCHANGED <<day, up, claimed, toLaunch, launchDay, run, started>>
          /\ MaxEdits # 0
          /\ \A u \in Tasks : /\ row'[u].lastDate = row[u].lastDate
                              /\ row'[u].status = row[u].status
                              /\ row'[u].report = row[u].report
                              /\ row'[u].exists => row[u].exists
<1>1. UNCHANGED <<day, up, claimed, toLaunch, launchDay, run, started>>
  BY DEF UserEdit, DeleteTask, SetActive, SetTrigger, clockVars, processVars
<1>2. MaxEdits # 0
  BY EditEffect, Constants DEF UserEdit, TypeOK
<1>3. \A u \in Tasks : \A f \in {"lastDate", "status", "report"} :
          row'[u][f] = row[u][f]
  BY EditEffect DEF UserEdit
<1>4. \A u \in Tasks : row'[u].exists => row[u].exists
  BY EditEffect DEF UserEdit
<1> QED
  BY <1>1, <1>2, <1>3, <1>4

\* A run that works stays in flight, and touches neither rows nor loop.
LEMMA WorksEffect ==
    ASSUME TypeOK, NEW r \in RunId, Works(r)
    PROVE /\ OnlyRun(r) /\ SameReading(r)
          /\ run[r].at \in InFlight /\ run'[r].at \in InFlight
          /\ run'[r].created \in {run[r].created, UtcDay}
          /\ UNCHANGED <<day, up, claimed, toLaunch, launchDay, row, started>>
<1>1. UNCHANGED <<day, up, claimed, toLaunch, launchDay, row, started>>
  BY DEF Works, Acquire, SaveReport, JobEnds, clockVars, loopVars, processVars
<1>2. run[r].at \in InFlight
  BY DEF Works, Acquire, SaveReport, JobEnds, InFlight
<1>3. CASE Acquire(r)
  BY <1>1, <1>2, <1>3, AcquireEffect DEF InFlight
<1>4. CASE SaveReport(r)
  BY <1>1, <1>2, <1>4, SaveReportEffect DEF InFlight
<1>5. CASE JobEnds(r)
  BY <1>1, <1>2, <1>5, JobEndsEffect DEF InFlight, SameReport
<1> QED
  BY <1>3, <1>4, <1>5 DEF Works

\* A recorded outcome stamps the row it finds with the day of its run or
\* leaves the stamp, and leaves it "running" only if it became so after the
\* run had read it.
LEMMA RecordsEffect ==
    ASSUME TypeOK, NEW r \in RunId, Records(r)
    PROVE /\ OnlyRun(r) /\ run'[r].read = FALSE
          /\ run[r].at \in Recording /\ run'[r].at \in Recorded
          /\ UNCHANGED <<day, up, claimed, toLaunch, launchDay, started>>
          /\ HasRead(r) /\ run[r].task \in Tasks
          /\ \A u \in Tasks : /\ u # run[r].task => row'[u] = row[u]
                              /\ row'[u].exists = row[u].exists
          /\ \/ row'[run[r].task].lastDate = row[run[r].task].lastDate
             \/ ~Manual(r) /\ row'[run[r].task].lastDate = run[r].day
          /\ \/ row'[run[r].task].status \in Recorded
             \/ /\ row'[run[r].task].status = row[run[r].task].status
                /\ Seen(r).exists => Seen(r).status # "running"
<1>1. /\ OnlyRun(r) /\ run'[r].read = FALSE
      /\ run[r].at \in Recording /\ run'[r].at \in Recorded
      /\ UNCHANGED <<day, up, claimed, toLaunch, launchDay, started>>
      /\ HasRead(r) /\ run[r].task \in Tasks
  BY RecordingEffect, SeenType DEF Records, Recorded
<1> DEFINE task == run[r].task
<1>2. CASE ~Seen(r).exists
  BY <1>1, <1>2 DEF Records, RecordSuccess, RecordFailure
<1>3. CASE Seen(r).exists
  <2>1. PICK m \in RowType, outcome \in Recorded :
            /\ row' = [row EXCEPT ![task] = m]
            /\ m.exists = row[task].exists
            /\ m.lastDate = IF Manual(r) \/ run[r].day = Seen(r).lastDate
                            THEN row[task].lastDate ELSE run[r].day
            /\ m.status = IF Seen(r).status = outcome
                          THEN row[task].status ELSE outcome
    <3>1. CASE RecordSuccess(r)
      BY <1>3, <3>1, SuccessEffect DEF Recorded
    <3>2. CASE RecordFailure(r)
      BY <1>3, <3>2, FailureEffect DEF Recorded
    <3> QED  BY <3>1, <3>2 DEF Records
  <2>2. /\ row'[task] = m /\ "running" \notin Recorded
        /\ \A u \in Tasks : u # task => row'[u] = row[u]
    BY <1>1, <2>1, RunsTyped DEF Recorded
  <2> QED  BY <1>1, <2>1, <2>2
<1> QED
  BY <1>2, <1>3

\* An outcome that cannot be recorded leaves the row alone.
LEMMA RaisesEffect ==
    ASSUME TypeOK, NEW r \in RunId, Raises(r)
    PROVE /\ OnlyRun(r) /\ run'[r].read = FALSE
          /\ run[r].at \in Recording
          /\ run'[r].at \in {"recordFailure", "unrecorded"}
          /\ UNCHANGED <<day, up, claimed, toLaunch, launchDay, row, started>>
          /\ run[r].task \in Tasks
          /\ DbMayFail \/ ~row[run[r].task].exists
BY RecordingEffect, SeenType DEF Raises, Vanished

-----------------------------------------------------------------------------
(* Where no run outlasts its day.                                          *)

\* A run that is anywhere, and not started by hand, is of the schedule.
LEMMA StartedBySchedule ==
    ASSUME TypeOK, Book, NEW r \in RunId, ~Manual(r), run[r].at # "none"
    PROVE Scheduled(r)
BY RunsTyped DEF RunType, Book, Placed, Scheduled, Manual

\* What is claimed, what is in flight and what rows are stamped with is of
\* today or before.
QueueToday == claimed \cup toLaunch # {} => launchDay = day
RunsToday ==
    \A r \in RunId : Scheduled(r) =>
        /\ run[r].at \in InFlight => run[r].day = day
        /\ run[r].created <= run[r].day /\ run[r].day <= day
RowsToday == \A t \in Tasks : row[t].lastDate <= day
Today == QueueToday /\ RunsToday /\ RowsToday

\* Today's run keeps its row stamped with today; when it has ended the row is
\* not "running".
Owned ==
    \A r \in RunId :
        /\ Scheduled(r) /\ run[r].day = day /\ ~Excused(r)
        /\ row[run[r].task].exists
        => /\ row[run[r].task].lastDate = day
           /\ run[r].at \in InFlight \/ row[run[r].task].status # "running"

\* What a transaction read of the row, a later commit changed only so far: no
\* row comes to exist, and none becomes "running" under a run of the schedule.
SeenTrue ==
    \A r \in RunId : run[r].read =>
        /\ ~run[r].seen.exists => ~row[run[r].task].exists
        /\ /\ Scheduled(r) /\ run[r].seen.status # "running"
           /\ row[run[r].task].exists
           => row[run[r].task].status # "running"

\* A row that is claimed and not yet launched is stamped with today, and any
\* run it had today has come to nothing.
Queue ==
    /\ claimed = {} \/ toLaunch = {}
    /\ \A t \in claimed \cup toLaunch :
          /\ row[t].exists => row[t].lastDate = day
          /\ \A r \in RunId :
                Scheduled(r) /\ run[r].task = t /\ run[r].day = day => Excused(r)

Calendar == Today /\ Owned /\ SeenTrue /\ Queue /\ OncePerDay

\* What the loop has claimed, it has claimed today.
LEMMA QueueTodayStep ==
    ASSUME TypeOK, ~RunsOverMidnight, QueueToday, [Next]_vars
    PROVE QueueToday'
<1> USE DEF QueueToday
<1>1. ASSUME Tick PROVE QueueToday'
  BY <1>1, RunsTyped DEF Tick, processVars
<1>2. ASSUME Claim PROVE QueueToday'
  BY <1>2, ClaimEffect, RunsTyped DEF Claim, clockVars
<1>3. ASSUME ReadClaimed PROVE QueueToday'
  BY <1>3, RunsTyped DEF ReadClaimed, clockVars
<1>4. ASSUME ReadClaimedRaises PROVE QueueToday'
  BY <1>4, RunsTyped DEF ReadClaimedRaises, clockVars
<1>5. ASSUME Crash PROVE QueueToday'
  BY <1>5, CrashEffect, RunsTyped DEF Crash, clockVars
<1>6. ASSUME Start PROVE QueueToday'
  BY <1>6, StartEffect, RunsTyped DEF Start, clockVars
<1>7. ASSUME NEW t \in Tasks, Launch(t) PROVE QueueToday'
  BY <1>7, StartsEffect, RunsTyped DEF Launch, clockVars
<1>8. ASSUME NEW t \in Tasks, ManualTrigger(t) PROVE QueueToday'
  BY <1>8, StartsEffect, RunsTyped DEF ManualTrigger, clockVars, processVars
<1>9. ASSUME NEW t \in Tasks, UserEdit(t) PROVE QueueToday'
  BY <1>9, UserEditEffect, RunsTyped
<1>10. ASSUME NEW r \in RunId, Works(r) PROVE QueueToday'
  BY <1>10, WorksEffect, RunsTyped DEF OnlyRun
<1>11. ASSUME NEW r \in RunId, ReadRow(r) PROVE QueueToday'
  BY <1>11, ReadRowEffect, RunsTyped DEF ReadRow, clockVars, OnlyRun,
      processVars
<1>12. ASSUME NEW r \in RunId, Records(r) PROVE QueueToday'
  BY <1>12, RecordsEffect, RunsTyped DEF OnlyRun
<1>13. ASSUME NEW r \in RunId, Raises(r) PROVE QueueToday'
  BY <1>13, RaisesEffect, RunsTyped DEF OnlyRun
<1>14. ASSUME UNCHANGED vars PROVE QueueToday'
  BY <1>14, RunsTyped DEF vars, clockVars, processVars, countVars
<1> QED
  BY <1>1, <1>2, <1>3, <1>4, <1>5, <1>6, <1>7, <1>8, <1>9, <1>10, <1>11,
     <1>12, <1>13, <1>14, Cases

\* A run stays on the day it was claimed for.
LEMMA RunsTodayStep ==
    ASSUME TypeOK, Book, ~RunsOverMidnight, QueueToday, RunsToday, [Next]_vars
    PROVE RunsToday'
<1>1. ASSUME Tick PROVE RunsToday'
  <2>1. CASE part = "evening"
    <3>1. /\ day' = day + 1 /\ run' = run /\ day \in Nat
          /\ \A s \in RunId : Scheduled(s) => run[s].at \notin InFlight
      BY <1>1, <2>1, RunsTyped DEF Tick
    <3>2. \A s \in RunId : run[s].day \in 0..LastDay
      BY RunsTyped DEF RunType
    <3> QED  BY <3>1, <3>2 DEF RunsToday, Scheduled
  <2>2. CASE part # "evening"
    BY <1>1, <2>2 DEF Tick, RunsToday, Scheduled
  <2> QED  BY <2>1, <2>2
<1>2. ASSUME Claim PROVE RunsToday'
  BY <1>2, ClaimEffect DEF Claim, clockVars, RunsToday, Scheduled
<1>3. ASSUME ReadClaimed PROVE RunsToday'
  BY <1>3 DEF ReadClaimed, clockVars, RunsToday, Scheduled
<1>4. ASSUME ReadClaimedRaises PROVE RunsToday'
  BY <1>4 DEF ReadClaimedRaises, clockVars, RunsToday, Scheduled
<1>5. ASSUME Crash PROVE RunsToday'
  <2>1. /\ \A s \in RunId :
              /\ run'[s].kind = run[s].kind /\ run'[s].day = run[s].day
              /\ run'[s].created = run[s].created
              /\ run'[s].at = run[s].at \/ run'[s].at = "lost"
        /\ day' = day
    BY <1>5, CrashEffect DEF SameReport, Crash, clockVars
  <2> QED  BY <2>1 DEF RunsToday, Scheduled, InFlight, Recording
<1>6. ASSUME Start PROVE RunsToday'
  BY <1>6, StartEffect DEF Start, clockVars, RunsToday, Scheduled
<1>7. ASSUME NEW t \in Tasks, Launch(t) PROVE RunsToday'
  <2>1. /\ \A s \in RunId : s # started + 1 => run'[s] = run[s]
        /\ run'[started + 1].day = launchDay
        /\ run'[started + 1].created = 0 /\ day' = day
    BY <1>7, StartsEffect DEF NoDay
  <2>2. launchDay = day /\ day \in Nat
    BY <1>7, RunsTyped DEF Launch, QueueToday
  <2> QED  BY <2>1, <2>2 DEF RunsToday, Scheduled
<1>8. ASSUME NEW t \in Tasks, ManualTrigger(t) PROVE RunsToday'
  <2>1. /\ \A s \in RunId : s # started + 1 => run'[s] = run[s]
        /\ run'[started + 1].kind = "manual" /\ day' = day
    BY <1>8, StartsEffect
  <2> QED  BY <2>1 DEF RunsToday, Scheduled
<1>9. ASSUME NEW t \in Tasks, UserEdit(t) PROVE RunsToday'
  BY <1>9, UserEditEffect DEF RunsToday, Scheduled
<1>10. ASSUME NEW r \in RunId, Works(r) PROVE RunsToday'
  <2>1. /\ OnlyRun(r) /\ run[r].at \in InFlight /\ day' = day
        /\ run'[r].created = run[r].created \/ run'[r].created <= day
    BY <1>10, WorksEffect, RunsTyped
  <2> QED  BY <2>1 DEF RunsToday, Scheduled, OnlyRun
<1>11. ASSUME NEW r \in RunId, ReadRow(r) PROVE RunsToday'
  <2>1. /\ OnlyRun(r) /\ SameReport(r) /\ run'[r].at = run[r].at
        /\ day' = day
    BY <1>11, ReadRowEffect DEF ReadRow, clockVars
  <2> QED  BY <2>1 DEF RunsToday, Scheduled, OnlyRun, SameReport
<1>12. ASSUME NEW r \in RunId, Records(r) PROVE RunsToday'
  <2>1. /\ OnlyRun(r) /\ SameReport(r) /\ run[r].at \in InFlight
        /\ day' = day
    BY <1>12, RecordingEffect DEF Records, InFlight
  <2> QED  BY <2>1 DEF RunsToday, Scheduled, OnlyRun, SameReport
<1>13. ASSUME NEW r \in RunId, Raises(r) PROVE RunsToday'
  <2>1. /\ OnlyRun(r) /\ SameReport(r) /\ run[r].at \in InFlight
        /\ day' = day
    BY <1>13, RecordingEffect DEF Raises, InFlight
  <2> QED  BY <2>1 DEF RunsToday, Scheduled, OnlyRun, SameReport
<1>14. ASSUME UNCHANGED vars PROVE RunsToday'
  BY <1>14 DEF vars, clockVars, processVars, countVars, RunsToday, Scheduled
<1> QED
  BY <1>1, <1>2, <1>3, <1>4, <1>5, <1>6, <1>7, <1>8, <1>9, <1>10, <1>11,
     <1>12, <1>13, <1>14, Cases

\* No row is stamped with a day to come.
LEMMA RowsTodayStep ==
    ASSUME TypeOK, Book, ~RunsOverMidnight, RunsToday,
           RowsToday, [Next]_vars
    PROVE RowsToday'
<1>1. ASSUME Tick PROVE RowsToday'
  <2>1. row' = row /\ (day' = day \/ day' = day + 1) /\ day \in Nat
        /\ \A t \in Tasks : row[t].lastDate \in 0..LastDay
    BY <1>1, RunsTyped DEF Tick, RowType
  <2> QED  BY <2>1 DEF RowsToday
<1>2. ASSUME Claim PROVE RowsToday'
  <2>1. \A t \in Tasks : row'[t].lastDate = row[t].lastDate
                          \/ row'[t].lastDate = day
    BY <1>2, ClaimEffect
  <2>2. day' = day /\ day \in Nat
    BY <1>2, RunsTyped DEF Claim, clockVars
  <2> QED  BY <2>1, <2>2 DEF RowsToday
<1>3. ASSUME ReadClaimed PROVE RowsToday'
  BY <1>3, RunsTyped DEF ReadClaimed, clockVars, RowsToday
<1>4. ASSUME ReadClaimedRaises PROVE RowsToday'
  BY <1>4, RunsTyped DEF ReadClaimedRaises, clockVars, RowsToday
<1>5. ASSUME Crash PROVE RowsToday'
  BY <1>5, CrashEffect, RunsTyped DEF Crash, clockVars, RowsToday
<1>6. ASSUME Start PROVE RowsToday'
  <2>1. \A t \in Tasks : row'[t].lastDate = row[t].lastDate
                          \/ row'[t].lastDate = 0
    BY <1>6, StartEffect DEF NoDay
  <2>2. day' = day /\ 0 <= day
    BY <1>6, RunsTyped DEF Start, clockVars
  <2> QED  BY <2>1, <2>2 DEF RowsToday
<1>7. ASSUME NEW t \in Tasks, Launch(t) PROVE RowsToday'
  BY <1>7, StartsEffect, RunsTyped DEF Launch, clockVars, RowsToday
<1>8. ASSUME NEW t \in Tasks, ManualTrigger(t) PROVE RowsToday'
  BY <1>8, StartsEffect, RunsTyped DEF ManualTrigger, clockVars,
      processVars, RowsToday
<1>9. ASSUME NEW t \in Tasks, UserEdit(t) PROVE RowsToday'
  BY <1>9, UserEditEffect, RunsTyped DEF RowsToday
<1>10. ASSUME NEW r \in RunId, Works(r) PROVE RowsToday'
  BY <1>10, WorksEffect, RunsTyped DEF OnlyRun, RowsToday
<1>11. ASSUME NEW r \in RunId, ReadRow(r) PROVE RowsToday'
  BY <1>11, ReadRowEffect, RunsTyped DEF ReadRow, clockVars, OnlyRun,
      processVars, RowsToday
<1>12. ASSUME NEW r \in RunId, Records(r) PROVE RowsToday'
  <2>1. ASSUME ~Manual(r) PROVE run[r].day <= day
    <3>1. run[r].kind \in {"none", "scheduled", "manual"}
      BY RunsTyped DEF RunType
    <3>2. Scheduled(r)
      BY <1>12, <2>1, <3>1, RecordsEffect
      DEF Book, Placed, Recording, Scheduled, Manual
    <3> QED  BY <3>2 DEF RunsToday
  <2>2. day' = day /\ \A t \in Tasks :
            row'[t].lastDate = row[t].lastDate
            \/ row'[t].lastDate <= day
    BY <1>12, <2>1, RecordsEffect DEF RowsToday
  <2> QED  BY <2>2 DEF RowsToday
<1>13. ASSUME NEW r \in RunId, Raises(r) PROVE RowsToday'
  BY <1>13, RaisesEffect, RunsTyped DEF OnlyRun, RowsToday
<1>14. ASSUME UNCHANGED vars PROVE RowsToday'
  BY <1>14, RunsTyped DEF vars, clockVars, processVars, countVars, RowsToday
<1> QED
  BY <1>1, <1>2, <1>3, <1>4, <1>5, <1>6, <1>7, <1>8, <1>9, <1>10, <1>11,
     <1>12, <1>13, <1>14, Cases

\* Today's runs keep their rows.
LEMMA OwnedStep ==
    ASSUME TypeOK, Book, ~RunsOverMidnight, Today, Owned, SeenTrue,
           Queue, [Next]_vars
    PROVE Owned'
<1>1. ASSUME Tick PROVE Owned'
  <2>1. CASE day' = day
    BY <1>1, <2>1 DEF Tick, Owned, Scheduled, Excused
  <2>2. CASE day' # day
    <3>1. run' = run /\ day' = day + 1 /\ day \in Nat
          /\ \A s \in RunId : run[s].day \in 0..LastDay
      BY <1>1, <2>2, RunsTyped DEF Tick, RunType
    <3>2. \A s \in RunId : Scheduled(s) => run'[s].day # day'
      BY <3>1 DEF Today, RunsToday
    <3> QED  BY <3>1, <3>2 DEF Owned, Scheduled
  <2> QED  BY <2>1, <2>2
<1>2. ASSUME Claim PROVE Owned'
  <2>1. run' = run /\ day' = day
    BY <1>2 DEF Claim, clockVars
  <2>2. ASSUME NEW s \in RunId, Scheduled(s), run[s].day = day, ~Excused(s),
               row'[run[s].task].exists
        PROVE run[s].task \notin Pending
    <3>1. ASSUME run[s].task \in Pending PROVE FALSE
      <4>1. row[run[s].task].exists /\ row[run[s].task].lastDate # day
        BY <3>1 DEF Pending
      <4> QED  BY <2>2, <4>1 DEF Owned
    <3> QED  BY <3>1
  <2>3. \A s \in RunId : run[s].task \in Tasks
    BY SeenType
  <2> QED  BY <1>2, <2>1, <2>2, <2>3, ClaimEffect DEF Owned, Scheduled, Excused
<1>3. ASSUME ReadClaimed PROVE Owned'
  BY <1>3 DEF ReadClaimed, clockVars, Owned, Scheduled, Excused
<1>4. ASSUME ReadClaimedRaises PROVE Owned'
  BY <1>4 DEF ReadClaimedRaises, clockVars, Owned, Scheduled, Excused
<1>5. ASSUME Crash PROVE Owned'
  <2>1. /\ row' = row /\ day' = day
        /\ \A s \in RunId :
              /\ run'[s].kind = run[s].kind /\ run'[s].task = run[s].task
              /\ run'[s].day = run[s].day
              /\ run'[s].at = run[s].at \/ run'[s].at = "lost"
    BY <1>5, CrashEffect DEF Crash, clockVars
  <2> QED  BY <2>1 DEF Owned, Scheduled, Excused
<1>6. ASSUME Start PROVE Owned'
  <2>1. /\ run' = run /\ day' = day
        /\ \A s \in RunId : Scheduled(s) => run[s].at \notin InFlight
    BY <1>6 DEF Start, clockVars, Book, Down
  <2>2. \A s \in RunId : run[s].task \in Tasks
    BY SeenType
  <2>3. ASSUME NEW s \in RunId, Scheduled(s), run[s].day = day, ~Excused(s),
               row'[run[s].task].exists
        PROVE row'[run[s].task] = row[run[s].task]
              /\ row[run[s].task].exists
    <3>1. row[run[s].task].exists
      <4>1. \A t \in Tasks : row'[t]["exists"] = row[t]["exists"]
        BY <1>6, StartEffect
      <4> QED  BY <2>2, <2>3, <4>1
    <3>2. row[run[s].task].status # "running"
      BY <2>1, <2>3, <3>1 DEF Owned
    <3> QED  BY <1>6, <2>2, <3>1, <3>2, StartEffect
  <2> QED  BY <2>1, <2>3 DEF Owned, Scheduled, Excused
<1>7. ASSUME NEW t \in Tasks, Launch(t) PROVE Owned'
  <2>1. /\ \A s \in RunId : s # started + 1 => run'[s] = run[s]
        /\ run'[started + 1].task = t /\ run'[started + 1].at = "queued"
        /\ row' = row /\ day' = day
    BY <1>7, StartsEffect
  <2>2. row[t].exists => row[t].lastDate = day
    BY <1>7 DEF Launch, Queue
  <2> QED  BY <2>1, <2>2 DEF Owned, Scheduled, Excused, InFlight
<1>8. ASSUME NEW t \in Tasks, ManualTrigger(t) PROVE Owned'
  <2>1. /\ \A s \in RunId : s # started + 1 => run'[s] = run[s]
        /\ run'[started + 1].kind = "manual"
        /\ row' = row /\ day' = day
    BY <1>8, StartsEffect
  <2> QED  BY <2>1 DEF Owned, Scheduled, Excused
<1>9. ASSUME NEW t \in Tasks, UserEdit(t) PROVE Owned'
  <2>1. \A s \in RunId : run[s].task \in Tasks
    BY SeenType
  <2> QED  BY <1>9, <2>1, UserEditEffect DEF Owned, Scheduled, Excused
<1>10. ASSUME NEW r \in RunId, Works(r) PROVE Owned'
  BY <1>10, WorksEffect DEF OnlyRun, Owned, Scheduled, Excused, InFlight,
      Recording
<1>11. ASSUME NEW r \in RunId, ReadRow(r) PROVE Owned'
  <2>1. /\ OnlyRun(r) /\ run'[r].at = run[r].at
        /\ row' = row /\ day' = day
    BY <1>11, ReadRowEffect DEF ReadRow, clockVars
  <2> QED  BY <2>1 DEF OnlyRun, Owned, Scheduled, Excused
<1>12. ASSUME NEW r \in RunId, Records(r) PROVE Owned'
  <2> DEFINE task == run[r].task
  <2>1. /\ OnlyRun(r) /\ run[r].at \in InFlight /\ ~Excused(r)
        /\ run'[r].at \in Recorded /\ day' = day /\ task \in Tasks
        /\ \A u \in Tasks : u # task => row'[u] = row[u]
        /\ row'[task].exists = row[task].exists
    BY <1>12, RecordsEffect DEF InFlight, Recording, Excused
  <2>2. Scheduled(r) => run[r].day = day
    BY <2>1 DEF Today, RunsToday
  <2>3. ~Manual(r) => Scheduled(r)
    BY <1>12, RecordsEffect, RunsTyped
    DEF RunType, Book, Placed, Recording, Scheduled, Manual
  <2>4. row[task].lastDate = day => row'[task].lastDate = day
    BY <1>12, <2>2, <2>3, RecordsEffect
  <2>5. row'[task].status # row[task].status => row'[task].status # "running"
    BY <1>12, RecordsEffect DEF Recorded
  <2>6. Scheduled(r) /\ row[task].exists => row'[task].status # "running"
    <3> SUFFICES ASSUME Scheduled(r), row[task].exists,
                        row'[task].status = row[task].status
                 PROVE row'[task].status \in Recorded
                       \/ row[task].status # "running"
      BY <2>5 DEF Recorded
    <3>1. HasRead(r) /\ (row'[task].status \in Recorded
                         \/ (Seen(r).exists => Seen(r).status # "running"))
      BY <1>12, RecordsEffect
    <3>2. CASE WritesMayOverlap
      BY <3>1, <3>2 DEF HasRead, Seen, SeenTrue
    <3>3. CASE ~WritesMayOverlap
      BY <3>1, <3>3 DEF Seen
    <3> QED  BY <3>2, <3>3
  <2>7. ASSUME NEW s \in RunId, Scheduled(s), run[s].day = day,
               ~Excused(s), row[run[s].task].exists
        PROVE /\ row'[run[s].task].lastDate = day
              /\ \/ s # r /\ run[s].at \in InFlight
                 \/ row'[run[s].task].status # "running"
    <3>1. /\ row[run[s].task].lastDate = day
          /\ run[s].at \in InFlight \/ row[run[s].task].status # "running"
      BY <2>7 DEF Owned
    <3>2. run[s].task \in Tasks
      BY SeenType
    <3>3. CASE run[s].task # task
      BY <2>1, <3>1, <3>2, <3>3
    <3>4. CASE run[s].task = task
      BY <2>4, <2>5, <2>6, <2>7, <3>1, <3>4
    <3> QED  BY <3>3, <3>4
  <2>8. \A s \in RunId : /\ run'[s].kind = run[s].kind
                         /\ run'[s].task = run[s].task
                         /\ run'[s].day = run[s].day
                         /\ s # r => run'[s] = run[s]
                         /\ run[s].task \in Tasks
                         /\ row'[run[s].task].exists = row[run[s].task].exists
    BY <2>1, SeenType DEF OnlyRun
  <2> QED  BY <2>1, <2>7, <2>8 DEF Owned, Scheduled, Excused
<1>13. ASSUME NEW r \in RunId, Raises(r) PROVE Owned'
  <2>1. /\ OnlyRun(r) /\ run[r].at \in InFlight /\ ~Excused(r)
        /\ day' = day /\ row' = row
        /\ run'[r].at \in {"recordFailure", "unrecorded"}
        /\ DbMayFail \/ ~row[run[r].task].exists
    BY <1>13, RaisesEffect DEF InFlight, Recording, Excused
  <2> QED  BY <2>1 DEF OnlyRun, Owned, Scheduled, Excused, InFlight,
                       Recording
<1>14. ASSUME UNCHANGED vars PROVE Owned'
  BY <1>14 DEF vars, clockVars, Owned, Scheduled, Excused
<1> QED
  BY <1>1, <1>2, <1>3, <1>4, <1>5, <1>6, <1>7, <1>8, <1>9, <1>10, <1>11,
     <1>12, <1>13, <1>14, Cases

\* What was read of a row stays true of it.
LEMMA SeenTrueStep ==
    ASSUME TypeOK, Book, ~RunsOverMidnight, Today, Owned, SeenTrue, [Next]_vars
    PROVE SeenTrue'
<1>1. ASSUME Tick PROVE SeenTrue'
  BY <1>1 DEF Tick, SeenTrue, Scheduled
<1>2. ASSUME Claim PROVE SeenTrue'
  <2>1. run' = run
    BY <1>2 DEF Claim
  <2>2. ASSUME NEW s \in RunId, run[s].read
        PROVE /\ run[s].task \in Tasks
              /\ row'[run[s].task].exists = row[run[s].task].exists
              /\ Scheduled(s) /\ row[run[s].task].exists =>
                     row'[run[s].task] = row[run[s].task]
    <3>1. run[s].task \in Tasks /\ run[s].at \in Recording
      BY <2>2, SeenType DEF Book, Placed
    <3>2. \A t \in Tasks : row'[t]["exists"] = row[t]["exists"]
      BY <1>2, ClaimEffect
    <3>3. ASSUME Scheduled(s), row[run[s].task].exists
          PROVE run[s].task \notin Pending
      <4>1. run[s].at \in InFlight /\ ~Excused(s)
        BY <3>1 DEF InFlight, Excused, Recording
      <4>2. row[run[s].task].lastDate = day
        BY <3>3, <4>1 DEF Today, RunsToday, Owned
      <4> QED  BY <4>2 DEF Pending
    <3> QED  BY <1>2, <3>1, <3>2, <3>3, ClaimEffect
  <2> QED  BY <2>1, <2>2 DEF SeenTrue, Scheduled
<1>3. ASSUME ReadClaimed PROVE SeenTrue'
  BY <1>3 DEF ReadClaimed, SeenTrue, Scheduled
<1>4. ASSUME ReadClaimedRaises PROVE SeenTrue'
  BY <1>4 DEF ReadClaimedRaises, SeenTrue, Scheduled
<1>5. ASSUME Crash PROVE SeenTrue'
  <2>1. row' = row
    BY <1>5 DEF Crash
  <2>2. \A s \in RunId : run'[s] = run[s] \/ run'[s].read = FALSE
    BY <1>5, CrashEffect
  <2> QED  BY <2>1, <2>2 DEF SeenTrue, Scheduled
<1>6. ASSUME Start PROVE SeenTrue'
  <2>1. run' = run
    BY <1>6 DEF Start
  <2>2. \A t \in Tasks : /\ row'[t]["exists"] = row[t]["exists"]
                         /\ row'[t].status \in {row[t].status, "success", "stale"}
    BY <1>6, StartEffect
  <2>3. \A s \in RunId : run[s].task \in Tasks
    BY SeenType
  <2> QED  BY <2>1, <2>2, <2>3 DEF SeenTrue, Scheduled
<1>7. ASSUME NEW t \in Tasks, Launch(t) PROVE SeenTrue'
  BY <1>7, StartsEffect DEF SeenTrue, Scheduled
<1>8. ASSUME NEW t \in Tasks, ManualTrigger(t) PROVE SeenTrue'
  BY <1>8, StartsEffect DEF SeenTrue, Scheduled
<1>9. ASSUME NEW t \in Tasks, UserEdit(t) PROVE SeenTrue'
  <2>1. \A s \in RunId : run[s].task \in Tasks
    BY SeenType
  <2> QED  BY <1>9, <2>1, UserEditEffect DEF SeenTrue, Scheduled
<1>10. ASSUME NEW r \in RunId, Works(r) PROVE SeenTrue'
  BY <1>10, WorksEffect DEF OnlyRun, SameReading, SeenTrue, Scheduled
<1>11. ASSUME NEW r \in RunId, ReadRow(r) PROVE SeenTrue'
  <2>1. /\ row' = row /\ \A s \in RunId : s # r => run'[s] = run[s]
        /\ run'[r].task = run[r].task /\ run'[r].seen = row[run[r].task]
    BY <1>11, ReadRowEffect DEF OnlyRun, ReadRow
  <2> QED  BY <2>1 DEF SeenTrue, Scheduled
<1>12. ASSUME NEW r \in RunId, Records(r) PROVE SeenTrue'
  <2>1. /\ \A s \in RunId : s # r => run'[s] = run[s]
        /\ run'[r].read = FALSE
        /\ \A u \in Tasks : /\ row'[u].exists = row[u].exists
                            /\ row'[u].status # row[u].status =>
                                   row'[u].status # "running"
    BY <1>12, RecordsEffect DEF OnlyRun, Recorded
  <2>2. \A s \in RunId : run[s].task \in Tasks
    BY SeenType
  <2> QED  BY <2>1, <2>2 DEF SeenTrue, Scheduled
<1>13. ASSUME NEW r \in RunId, Raises(r) PROVE SeenTrue'
  BY <1>13, RaisesEffect DEF OnlyRun, SeenTrue, Scheduled
<1>14. ASSUME UNCHANGED vars PROVE SeenTrue'
  BY <1>14 DEF vars, SeenTrue, Scheduled
<1> QED
  BY <1>1, <1>2, <1>3, <1>4, <1>5, <1>6, <1>7, <1>8, <1>9, <1>10, <1>11,
     <1>12, <1>13, <1>14, Cases

\* What is claimed and not launched is stamped with today, and not running.
LEMMA QueueStep ==
    ASSUME TypeOK, Book, ~RunsOverMidnight, Today, Owned, Queue, [Next]_vars
    PROVE Queue'
<1>1. ASSUME Tick PROVE Queue'
  <2>1. run' = run /\ row' = row /\ claimed' = claimed /\ toLaunch' = toLaunch
    BY <1>1 DEF Tick, processVars
  <2>2. day' = day \/ claimed \cup toLaunch = {}
    BY <1>1 DEF Tick
  <2> QED  BY <2>1, <2>2 DEF Queue, Scheduled, Excused
<1>2. ASSUME Claim PROVE Queue'
  <2>1. /\ run' = run /\ day' = day
        /\ claimed' = Pending /\ toLaunch' = toLaunch /\ toLaunch = {}
    BY <1>2 DEF Claim, clockVars
  <2>2. \A t \in Pending : row'[t].lastDate = day
    BY <1>2, ClaimEffect
  <2>3. ASSUME NEW s \in RunId, Scheduled(s), run[s].day = day,
               run[s].task \in Pending, ~Excused(s)
        PROVE FALSE
    <3>1. row[run[s].task].exists /\ row[run[s].task].lastDate # day
      BY <2>3 DEF Pending
    <3> QED  BY <2>3, <3>1 DEF Owned
  <2> QED  BY <2>1, <2>2, <2>3 DEF Queue, Scheduled, Excused
<1>3. ASSUME ReadClaimed PROVE Queue'
  <2>1. /\ run' = run /\ row' = row /\ day' = day
        /\ claimed' = {} /\ toLaunch' = claimed
    BY <1>3 DEF ReadClaimed, clockVars
  <2> QED  BY <2>1 DEF Queue, Scheduled, Excused
<1>4. ASSUME ReadClaimedRaises PROVE Queue'
  <2>1. /\ run' = run /\ row' = row /\ day' = day
        /\ claimed' = {} /\ toLaunch' = toLaunch
    BY <1>4 DEF ReadClaimedRaises, clockVars
  <2> QED  BY <2>1 DEF Queue, Scheduled, Excused
<1>5. ASSUME Crash PROVE Queue'
  <2>1. claimed' = {} /\ toLaunch' = {}
    BY <1>5 DEF Crash
  <2> QED  BY <2>1 DEF Queue
<1>6. ASSUME Start PROVE Queue'
  <2>1. claimed' = {} /\ toLaunch' = {}
    BY <1>6 DEF Start, Book, Down
  <2> QED  BY <2>1 DEF Queue
<1>7. ASSUME NEW t \in Tasks, Launch(t) PROVE Queue'
  <2>1. /\ \A s \in RunId : s # started + 1 => run'[s] = run[s]
        /\ run'[started + 1].task = t
        /\ row' = row /\ day' = day
    BY <1>7, StartsEffect
  <2>2. /\ claimed' = {} /\ toLaunch' = toLaunch \ {t}
    BY <1>7 DEF Launch, Queue
  <2> QED  BY <2>1, <2>2 DEF Queue, Scheduled, Excused
<1>8. ASSUME NEW t \in Tasks, ManualTrigger(t) PROVE Queue'
  <2>1. /\ \A s \in RunId : s # started + 1 => run'[s] = run[s]
        /\ run'[started + 1].kind = "manual"
        /\ row' = row /\ day' = day
    BY <1>8, StartsEffect
  <2>2. claimed' = claimed /\ toLaunch' = toLaunch
    BY <1>8 DEF ManualTrigger, processVars
  <2> QED  BY <2>1, <2>2 DEF Queue, Scheduled, Excused
<1>9. ASSUME NEW t \in Tasks, UserEdit(t) PROVE Queue'
  <2>1. claimed \cup toLaunch \subseteq Tasks
    BY DEF TypeOK
  <2> QED  BY <1>9, <2>1, UserEditEffect DEF Queue, Scheduled, Excused
<1>10. ASSUME NEW r \in RunId, Works(r) PROVE Queue'
  <2>1. /\ OnlyRun(r) /\ run[r].at \in InFlight
        /\ UNCHANGED <<day, claimed, toLaunch, row>>
    BY <1>10, WorksEffect
  <2>2. ~Excused(r)
    BY <2>1 DEF Excused, InFlight, Recording
  <2> QED  BY <2>1, <2>2 DEF OnlyRun, Queue, Scheduled, Excused
<1>11. ASSUME NEW r \in RunId, ReadRow(r) PROVE Queue'
  <2>1. /\ OnlyRun(r) /\ run'[r].at = run[r].at
        /\ UNCHANGED <<day, claimed, toLaunch, row>>
    BY <1>11, ReadRowEffect DEF ReadRow, clockVars, processVars
  <2> QED  BY <2>1 DEF OnlyRun, Queue, Scheduled, Excused
<1>12. ASSUME NEW r \in RunId, Records(r) PROVE Queue'
  <2>1. /\ OnlyRun(r) /\ run[r].at \in InFlight /\ ~Excused(r)
        /\ UNCHANGED <<day, claimed, toLaunch>>
        /\ \A u \in Tasks : row'[u].exists = row[u].exists
        /\ \A u \in Tasks : u # run[r].task => row'[u] = row[u]
    BY <1>12, RecordsEffect DEF InFlight, Recording, Excused
  <2>2. /\ Scheduled(r) => run[r].day = day
        /\ ~Manual(r) => Scheduled(r)
    <3>1. ~Manual(r) => Scheduled(r)
      BY <1>12, RecordsEffect, RunsTyped
      DEF RunType, Book, Placed, Recording, Scheduled, Manual
    <3> QED  BY <2>1, <3>1 DEF Today, RunsToday
  <2>3. row[run[r].task].lastDate = day => row'[run[r].task].lastDate = day
    BY <1>12, <2>2, RecordsEffect
  <2>4. claimed \cup toLaunch \subseteq Tasks
    BY DEF TypeOK
  <2> QED  BY <2>1, <2>3, <2>4 DEF OnlyRun, Queue, Scheduled, Excused
<1>13. ASSUME NEW r \in RunId, Raises(r) PROVE Queue'
  <2>1. /\ OnlyRun(r) /\ run[r].at \in InFlight /\ ~Excused(r)
        /\ UNCHANGED <<day, claimed, toLaunch, row>>
    BY <1>13, RaisesEffect DEF InFlight, Recording, Excused
  <2> QED  BY <2>1 DEF OnlyRun, Queue, Scheduled, Excused
<1>14. ASSUME UNCHANGED vars PROVE Queue'
  BY <1>14 DEF vars, clockVars, processVars, Queue, Scheduled, Excused
<1> QED
  BY <1>1, <1>2, <1>3, <1>4, <1>5, <1>6, <1>7, <1>8, <1>9, <1>10, <1>11,
     <1>12, <1>13, <1>14, Cases

\* A row is launched again only after a run that came to nothing.
LEMMA OnceStep ==
    ASSUME TypeOK, Book, ~RunsOverMidnight, Today, Queue, OncePerDay,
        [Next]_vars
    PROVE OncePerDay'
<1>1. ASSUME Tick PROVE OncePerDay'
  BY <1>1 DEF Tick, OncePerDay, Scheduled, Excused
<1>2. ASSUME Claim PROVE OncePerDay'
  BY <1>2 DEF Claim, OncePerDay, Scheduled, Excused
<1>3. ASSUME ReadClaimed PROVE OncePerDay'
  BY <1>3 DEF ReadClaimed, OncePerDay, Scheduled, Excused
<1>4. ASSUME ReadClaimedRaises PROVE OncePerDay'
  BY <1>4 DEF ReadClaimedRaises, OncePerDay, Scheduled, Excused
<1>5. ASSUME Crash PROVE OncePerDay'
  <2>1. \A s \in RunId :
            /\ run'[s].kind = run[s].kind /\ run'[s].task = run[s].task
            /\ run'[s].day = run[s].day
            /\ run'[s].at = run[s].at \/ run'[s].at = "lost"
    BY <1>5, CrashEffect
  <2> QED  BY <2>1 DEF OncePerDay, Scheduled, Excused
<1>6. ASSUME Start PROVE OncePerDay'
  BY <1>6 DEF Start, OncePerDay, Scheduled, Excused
<1>7. ASSUME NEW t \in Tasks, Launch(t) PROVE OncePerDay'
  <2>1. /\ \A s \in RunId : s # started + 1 => run'[s] = run[s]
        /\ run'[started + 1].task = t /\ run'[started + 1].day = launchDay
    BY <1>7, StartsEffect
  <2>2. launchDay = day
    BY <1>7 DEF Launch, Today, QueueToday
  <2>3. \A s \in RunId : Scheduled(s) /\ run[s].task = t /\ run[s].day = day =>
                            Excused(s)
    BY <1>7 DEF Launch, Queue
  <2> QED  BY <2>1, <2>2, <2>3 DEF OncePerDay, Scheduled, Excused
<1>8. ASSUME NEW t \in Tasks, ManualTrigger(t) PROVE OncePerDay'
  <2>1. /\ \A s \in RunId : s # started + 1 => run'[s] = run[s]
        /\ run'[started + 1].kind = "manual"
    BY <1>8, StartsEffect
  <2> QED  BY <2>1 DEF OncePerDay, Scheduled, Excused
<1>9. ASSUME NEW t \in Tasks, UserEdit(t) PROVE OncePerDay'
  BY <1>9, UserEditEffect DEF OncePerDay, Scheduled, Excused
<1>10. ASSUME NEW r \in RunId, Works(r) PROVE OncePerDay'
  <2>1. OnlyRun(r) /\ ~Excused(r)
    BY <1>10, WorksEffect DEF InFlight, Recording, Excused
  <2> QED  BY <2>1 DEF OnlyRun, OncePerDay, Scheduled, Excused
<1>11. ASSUME NEW r \in RunId, ReadRow(r) PROVE OncePerDay'
  <2>1. OnlyRun(r) /\ run'[r].at = run[r].at
    BY <1>11, ReadRowEffect
  <2> QED  BY <2>1 DEF OnlyRun, OncePerDay, Scheduled, Excused
<1>12. ASSUME NEW r \in RunId, Records(r) PROVE OncePerDay'
  <2>1. OnlyRun(r) /\ ~Excused(r)
    BY <1>12, RecordsEffect DEF Recording, Excused
  <2> QED  BY <2>1 DEF OnlyRun, OncePerDay, Scheduled, Excused
<1>13. ASSUME NEW r \in RunId, Raises(r) PROVE OncePerDay'
  <2>1. OnlyRun(r) /\ ~Excused(r)
    BY <1>13, RaisesEffect DEF Recording, Excused
  <2> QED  BY <2>1 DEF OnlyRun, OncePerDay, Scheduled, Excused
<1>14. ASSUME UNCHANGED vars PROVE OncePerDay'
  BY <1>14 DEF vars, OncePerDay, Scheduled, Excused
<1> QED
  BY <1>1, <1>2, <1>3, <1>4, <1>5, <1>6, <1>7, <1>8, <1>9, <1>10, <1>11,
     <1>12, <1>13, <1>14, Cases

\* So the calendar is kept by every step.
LEMMA CalendarStep ==
    ASSUME TypeOK, Book, ~RunsOverMidnight, Calendar, [Next]_vars
    PROVE Calendar'
BY QueueTodayStep, RunsTodayStep, RowsTodayStep, OwnedStep, SeenTrueStep,
   QueueStep, OnceStep DEF Calendar, Today


-----------------------------------------------------------------------------
(* Where, further, nobody interferes and every outcome can be recorded.    *)

Quiet ==
    MaxEdits = 0 /\ MaxManual = 0 /\ ~DbMayFail /\ ~RunsOverMidnight

\* The rows are all there, the runs are all of the schedule, and none ended
\* unrecorded.
Undisturbed ==
    /\ \A t \in Tasks : row[t].exists
    /\ \A r \in RunId : ~Manual(r) /\ run[r].at # "unrecorded"

\* The outcome of the run for the stamped day was recorded.
Kept(t) ==
    row[t].lastDate # NoDay =>
        \E r \in RunId : /\ Scheduled(r) /\ run[r].task = t
                         /\ run[r].day = row[t].lastDate
                         /\ run[r].at \in Recorded

\* A "running" row has a run pending or was left by a dead process; any other
\* has none, and the outcome its stamp stands for.
Settled(t) ==
    IF row[t].status = "running"
    THEN RunPending(t) \/ ~up
    ELSE ~RunPending(t) /\ Kept(t)

\* A success is not of a later day than the row is stamped with.
InOrder ==
    \A r \in RunId :
        /\ run[r].at = "success" /\ row[run[r].task].lastDate # NoDay
        => run[r].day <= row[run[r].task].lastDate

NothingLost == Undisturbed /\ InOrder /\ \A t \in Tasks : Settled(t)

\* In quiet no step is a user's, and no read or write raises.
LEMMA QuietSteps ==
    ASSUME TypeOK, Quiet, Undisturbed
    PROVE /\ ~ReadClaimedRaises
          /\ \A t \in Tasks : ~ManualTrigger(t) /\ ~UserEdit(t)
          /\ \A r \in RunId : ~Raises(r)
<1>1. ~ReadClaimedRaises
  BY DEF ReadClaimedRaises, TypeOK, Quiet, Undisturbed
<1>2. ASSUME NEW t \in Tasks, ManualTrigger(t) PROVE FALSE
  <2> DEFINE manual == {r \in RunId : Manual(r)}
  <2>1. IsFiniteSet(manual)
    BY HoldersFinite, FS_Subset
  <2>2. Cardinality(manual) \in Nat
    BY <2>1, FS_CardinalityType
  <2>3. Cardinality(manual) < 0
    BY <1>2 DEF ManualTrigger, Quiet
  <2> QED  BY <2>2, <2>3
<1>3. ASSUME NEW t \in Tasks, UserEdit(t) PROVE FALSE
  BY <1>3, UserEditEffect DEF Quiet
<1>4. ASSUME NEW r \in RunId, Raises(r) PROVE FALSE
  BY <1>4, RaisesEffect DEF Quiet, Undisturbed
<1> QED
  BY <1>1, <1>2, <1>3, <1>4

\* Quiet lasts.
LEMMA UndisturbedStep ==
    ASSUME TypeOK, Book, Quiet, Undisturbed, [Next]_vars
    PROVE Undisturbed'
<1>1. ASSUME Tick PROVE Undisturbed'
  BY <1>1 DEF Tick, Undisturbed, Manual
<1>2. ASSUME Claim PROVE Undisturbed'
  <2>1. run' = run /\ \A t \in Tasks : row'[t]["exists"] = row[t]["exists"]
    BY <1>2, ClaimEffect DEF Claim
  <2> QED  BY <2>1 DEF Undisturbed, Manual
<1>3. ASSUME ReadClaimed PROVE Undisturbed'
  BY <1>3 DEF ReadClaimed, Undisturbed, Manual
<1>4. ASSUME ReadClaimedRaises PROVE Undisturbed'
  BY <1>4, QuietSteps
<1>5. ASSUME Crash PROVE Undisturbed'
  <2>1. /\ row' = row
        /\ \A s \in RunId : /\ run'[s].kind = run[s].kind
                            /\ run'[s].at \in {run[s].at, "lost"}
    BY <1>5, CrashEffect DEF Crash
  <2> QED  BY <2>1 DEF Undisturbed, Manual
<1>6. ASSUME Start PROVE Undisturbed'
  <2>1. run' = run /\ \A t \in Tasks : row'[t]["exists"] = row[t]["exists"]
    BY <1>6, StartEffect DEF Start
  <2> QED  BY <2>1 DEF Undisturbed, Manual
<1>7. ASSUME NEW t \in Tasks, Launch(t) PROVE Undisturbed'
  BY <1>7, StartsEffect DEF Undisturbed, Manual
<1>8. ASSUME NEW t \in Tasks, ManualTrigger(t) PROVE Undisturbed'
  BY <1>8, QuietSteps
<1>9. ASSUME NEW t \in Tasks, UserEdit(t) PROVE Undisturbed'
  BY <1>9, QuietSteps
<1>10. ASSUME NEW r \in RunId, Works(r) PROVE Undisturbed'
  <2>1. OnlyRun(r) /\ run'[r].at # "unrecorded" /\ row' = row
    BY <1>10, WorksEffect DEF InFlight, Recording
  <2> QED  BY <2>1 DEF OnlyRun, Undisturbed, Manual
<1>11. ASSUME NEW r \in RunId, ReadRow(r) PROVE Undisturbed'
  <2>1. OnlyRun(r) /\ run'[r].at = run[r].at /\ row' = row
    BY <1>11, ReadRowEffect DEF ReadRow
  <2> QED  BY <2>1 DEF OnlyRun, Undisturbed, Manual
<1>12. ASSUME NEW r \in RunId, Records(r) PROVE Undisturbed'
  <2>1. /\ OnlyRun(r) /\ run'[r].at # "unrecorded"
        /\ \A t \in Tasks : row'[t].exists = row[t].exists
    BY <1>12, RecordsEffect DEF Recorded
  <2> QED  BY <2>1 DEF OnlyRun, Undisturbed, Manual
<1>13. ASSUME NEW r \in RunId, Raises(r) PROVE Undisturbed'
  BY <1>13, QuietSteps
<1>14. ASSUME UNCHANGED vars PROVE Undisturbed'
  BY <1>14 DEF vars, Undisturbed, Manual
<1> QED
  BY <1>1, <1>2, <1>3, <1>4, <1>5, <1>6, <1>7, <1>8, <1>9, <1>10, <1>11,
     <1>12, <1>13, <1>14, Cases

\* Rows are stamped in the order of the days.
LEMMA InOrderStep ==
    ASSUME TypeOK, Book, Quiet, Calendar, Calendar', Undisturbed,
           InOrder, [Next]_vars
    PROVE InOrder'
<1>1. ASSUME Tick PROVE InOrder'
  BY <1>1 DEF Tick, InOrder
<1>2. ASSUME Claim PROVE InOrder'
  <2>1. run' = run /\ \A t \in Tasks : row'[t].lastDate \in {row[t].lastDate, day}
    BY <1>2, ClaimEffect DEF Claim
  <2>2. ASSUME NEW r \in RunId, run[r].at = "success"
        PROVE run[r].day <= day /\ run[r].task \in Tasks
    <3>1. Scheduled(r)
      BY <2>2, StartedBySchedule DEF Undisturbed
    <3> QED  BY <3>1, SeenType DEF Calendar, Today, RunsToday
  <2> QED  BY <2>1, <2>2 DEF InOrder
<1>3. ASSUME ReadClaimed PROVE InOrder'
  BY <1>3 DEF ReadClaimed, InOrder
<1>4. ASSUME ReadClaimedRaises PROVE InOrder'
  BY <1>4, QuietSteps
<1>5. ASSUME Crash PROVE InOrder'
  <2>1. /\ row' = row
        /\ \A s \in RunId : run'[s] = run[s]
               \/ run'[s].at = "lost"
    BY <1>5, CrashEffect DEF Crash
  <2> QED  BY <2>1 DEF InOrder
<1>6. ASSUME Start PROVE InOrder'
  <2>1. run' = run /\ \A t \in Tasks : row'[t].lastDate \in {row[t].lastDate, NoDay}
    BY <1>6, StartEffect DEF Start
  <2> QED  BY <2>1, SeenType DEF InOrder
<1>7. ASSUME NEW t \in Tasks, Launch(t) PROVE InOrder'
  BY <1>7, StartsEffect DEF InOrder
<1>8. ASSUME NEW t \in Tasks, ManualTrigger(t) PROVE InOrder'
  BY <1>8, QuietSteps
<1>9. ASSUME NEW t \in Tasks, UserEdit(t) PROVE InOrder'
  BY <1>9, QuietSteps
<1>10. ASSUME NEW r \in RunId, Works(r) PROVE InOrder'
  <2>1. OnlyRun(r) /\ run'[r].at # "success" /\ row' = row
    BY <1>10, WorksEffect DEF InFlight, Recording
  <2> QED  BY <2>1 DEF OnlyRun, InOrder
<1>11. ASSUME NEW r \in RunId, ReadRow(r) PROVE InOrder'
  <2>1. OnlyRun(r) /\ run'[r].at = run[r].at /\ row' = row
    BY <1>11, ReadRowEffect DEF ReadRow
  <2> QED  BY <2>1 DEF OnlyRun, InOrder
<1>12. ASSUME NEW r \in RunId, Records(r) PROVE InOrder'
  <2>1. /\ OnlyRun(r) /\ day' = day /\ run[r].task \in Tasks
        /\ run'[r].at \in Recorded
        /\ \A t \in Tasks : t # run[r].task => row'[t] = row[t]
    BY <1>12, RecordsEffect
  <2>2. Scheduled(r) /\ run[r].at \in InFlight /\ run[r].day = day
    <3>1. run[r].at \in Recording
      BY <1>12, RecordsEffect
    <3>2. Scheduled(r) /\ run[r].at \in InFlight
      BY <3>1, StartedBySchedule DEF Undisturbed, Recording, InFlight
    <3> QED  BY <3>2 DEF Calendar, Today, RunsToday
  <2>3. row'[run[r].task].lastDate = day
    <3>1. /\ Scheduled(r)' /\ run'[r].day = day' /\ ~Excused(r)'
          /\ row'[run'[r].task].exists
      <4>1. row[run[r].task].exists /\ row'[run[r].task].exists
        BY <1>12, <2>1, RecordsEffect DEF Undisturbed
      <4> QED  BY <2>1, <2>2, <4>1 DEF OnlyRun, Scheduled, Excused, Recorded
    <3> QED  BY <2>1, <3>1 DEF Calendar, Owned, OnlyRun
  <2>4. ASSUME NEW s \in RunId, run'[s].at = "success",
               run'[s].task = run[r].task
        PROVE run'[s].day <= day
    <3>1. CASE s = r
      BY <2>1, <2>2, <3>1, RunsTyped DEF OnlyRun
    <3>2. CASE s # r
      <4>1. Scheduled(s)
        BY <2>1, <2>4, <3>2, StartedBySchedule DEF OnlyRun, Undisturbed
      <4> QED  BY <2>1, <3>2, <4>1 DEF OnlyRun, Calendar, Today, RunsToday
    <3> QED  BY <3>1, <3>2
  <2> QED  BY <2>1, <2>3, <2>4, SeenType DEF OnlyRun, InOrder
<1>13. ASSUME NEW r \in RunId, Raises(r) PROVE InOrder'
  BY <1>13, QuietSteps
<1>14. ASSUME UNCHANGED vars PROVE InOrder'
  BY <1>14 DEF vars, InOrder
<1> QED
  BY <1>1, <1>2, <1>3, <1>4, <1>5, <1>6, <1>7, <1>8, <1>9, <1>10, <1>11,
     <1>12, <1>13, <1>14, Cases

\* A step that leaves a row, the process and whether a run of the row is
\* pending, leaves it settled.
LEMMA StaysSettled ==
    ASSUME TypeOK, Book, [Next]_vars, NEW t \in Tasks, Settled(t),
           row'[t] = row[t], up' => up, RunPending(t)' <=> RunPending(t)
    PROVE Settled(t)'
<1>1. ASSUME Kept(t) PROVE Kept(t)'
  <2> SUFFICES ASSUME row[t].lastDate # NoDay
               PROVE \E r \in RunId : /\ run'[r].kind = "scheduled"
                                      /\ run'[r].task = t
                                      /\ run'[r].day = row[t].lastDate
                                      /\ run'[r].at \in Recorded
    BY DEF Kept, Scheduled
  <2>1. PICK r \in RunId : /\ Scheduled(r) /\ run[r].task = t
                           /\ run[r].day = row[t].lastDate
                           /\ run[r].at \in Recorded
    BY <1>1 DEF Kept
  <2>2. run'[r] = run[r]
    BY <2>1, RunsGoOn DEF Scheduled, Final
  <2> QED  BY <2>1, <2>2 DEF Scheduled
<1> QED
  BY <1>1 DEF Settled

\* Every stamp is accounted for.
LEMMA SettledStep ==
    ASSUME TypeOK, Book, Quiet, Calendar, Calendar', ReportShownIsTrue,
           NothingLost, [Next]_vars
    PROVE (\A t \in Tasks : Settled(t))'
<1>1. ASSUME Tick PROVE (\A t \in Tasks : Settled(t))'
  <2> TAKE t \in Tasks
  <2>1. row' = row /\ (up' => up)
    BY <1>1 DEF Tick, processVars
  <2>2. RunPending(t)' <=> RunPending(t)
    BY <1>1 DEF Tick, processVars, RunPending, Scheduled
  <2> QED  BY <2>1, <2>2, StaysSettled DEF NothingLost
<1>2. ASSUME Claim PROVE (\A t \in Tasks : Settled(t))'
  <2> TAKE t \in Tasks
  <2>1. /\ run' = run /\ up' = up /\ claimed' = Pending
        /\ toLaunch' = toLaunch /\ claimed = {} /\ toLaunch = {}
    BY <1>2 DEF Claim
  <2>2. CASE t \in Pending
    <3>1. row'[t].status = "running"
      BY <1>2, <2>2, ClaimEffect
    <3> QED  BY <2>1, <2>2, <3>1 DEF Settled, RunPending
  <2>3. CASE t \notin Pending
    <3>1. row'[t] = row[t]
      BY <1>2, <2>3, ClaimEffect
    <3>2. RunPending(t)' <=> RunPending(t)
      BY <2>1, <2>3 DEF RunPending, Scheduled
    <3> QED  BY <2>1, <3>1, <3>2, StaysSettled DEF NothingLost
  <2> QED  BY <2>2, <2>3
<1>3. ASSUME ReadClaimed PROVE (\A t \in Tasks : Settled(t))'
  <2> TAKE t \in Tasks
  <2>1. row' = row /\ (up' => up)
    BY <1>3 DEF ReadClaimed
  <2>2. RunPending(t)' <=> RunPending(t)
    BY <1>3 DEF ReadClaimed, RunPending, Scheduled, Calendar, Queue
  <2> QED  BY <2>1, <2>2, StaysSettled DEF NothingLost
<1>4. ASSUME ReadClaimedRaises PROVE (\A t \in Tasks : Settled(t))'
  BY <1>4, QuietSteps DEF NothingLost
<1>5. ASSUME Crash PROVE (\A t \in Tasks : Settled(t))'
  <2> TAKE t \in Tasks
  <2>1. row' = row /\ ~up' /\ claimed' = {} /\ toLaunch' = {}
    BY <1>5 DEF Crash
  <2>2. \A s \in RunId : /\ run'[s].kind = run[s].kind
                         /\ run'[s].task = run[s].task
                         /\ Scheduled(s) => run'[s].at \notin InFlight
    BY <1>5, CrashEffect DEF InFlight, Recording
  <2>3. ~RunPending(t)'
    BY <2>1, <2>2 DEF RunPending, Scheduled
  <2>4. CASE row[t].status = "running"
    BY <2>1, <2>4 DEF Settled
  <2>5. CASE row[t].status # "running"
    <3>1. ~RunPending(t)
      BY <2>5 DEF NothingLost, Settled
    <3> QED  BY <2>1, <2>3, <3>1, StaysSettled DEF NothingLost
  <2> QED  BY <2>4, <2>5
<1>6. ASSUME Start PROVE (\A t \in Tasks : Settled(t))'
  <2> TAKE t \in Tasks
  <2>1. /\ run' = run /\ ~up /\ claimed' = {} /\ toLaunch' = {}
        /\ claimed = {} /\ toLaunch = {}
        /\ \A s \in RunId : Scheduled(s) => run[s].at \notin InFlight
    BY <1>6 DEF Start, Book, Down
  <2>2. ~RunPending(t) /\ ~RunPending(t)'
    BY <2>1 DEF RunPending, Scheduled
  <2>3. CASE row[t].status # "running"
    <3>1. row'[t] = row[t]
      BY <1>6, <2>3, StartEffect
    <3>2. Kept(t) /\ row'[t].status # "running"
      BY <2>3, <3>1 DEF NothingLost, Settled
    <3> QED  BY <2>1, <2>2, <3>1, <3>2 DEF Settled, Kept, Scheduled
  <2>4. CASE row[t].status = "running"
    <3>1. /\ row[t].exists
          /\ row'[t].status \in {"success", "stale"}
          /\ row'[t].lastDate = IF ReportFound(t) THEN row[t].lastDate ELSE NoDay
      BY <1>6, <2>4, StartEffect DEF NothingLost, Undisturbed
    <3>2. CASE ~ReportFound(t)
      BY <2>2, <3>1, <3>2 DEF Settled, Kept
    <3>3. CASE ReportFound(t)
      <4> DEFINE r == row[t].report
      <4>1. /\ r # NoReport /\ row[t].lastDate # NoDay
            /\ run[r].created >= row[t].lastDate
        BY <3>3 DEF ReportFound
      <4>2. r \in RunId /\ row[t].lastDate \in 0..LastDay
        BY <4>1, RunsTyped, Constants DEF RowType, RunId, NoReport
      <4>3. run[r].task = t /\ run[r].at = "success"
        BY <4>1 DEF ReportShownIsTrue
      <4>4. Scheduled(r)
        BY <4>2, <4>3, StartedBySchedule DEF NothingLost, Undisturbed
      <4>5. run[r].created <= run[r].day
        BY <4>2, <4>4 DEF Calendar, Today, RunsToday
      <4>6. run[r].day <= row[t].lastDate
        BY <4>1, <4>2, <4>3 DEF NothingLost, InOrder
      <4>7. run[r].day \in 0..LastDay /\ run[r].created \in 0..LastDay
        BY <4>2, RunsTyped DEF RunType
      <4>8. run[r].day = row[t].lastDate
        BY <4>1, <4>2, <4>5, <4>6, <4>7
      <4>9. Kept(t)'
        BY <2>1, <3>1, <3>3, <4>2, <4>3, <4>4, <4>8
        DEF Kept, Scheduled, Recorded
      <4> QED  BY <2>2, <3>1, <4>9 DEF Settled
    <3> QED  BY <3>2, <3>3
  <2> QED  BY <2>3, <2>4
<1>7. ASSUME NEW u \in Tasks, Launch(u) PROVE (\A t \in Tasks : Settled(t))'
  <2> TAKE t \in Tasks
  <2>1. row' = row /\ (up' => up)
    BY <1>7, StartsEffect DEF Launch
  <2>2. RunPending(t)' <=> RunPending(t)
    <3>1. /\ \A s \in RunId : s # started + 1 => run'[s] = run[s]
          /\ started + 1 \in RunId /\ run'[started + 1].task = u
          /\ run'[started + 1].kind = "scheduled"
          /\ run'[started + 1].at \in InFlight
          /\ run[started + 1].kind = "none"
      <4>1. run[started + 1].kind = "none"
        <5>1. started + 1 \in RunId /\ started \in Nat
          BY <1>7, StartsEffect
        <5> QED  BY <5>1 DEF Book, Fresh
      <4> QED  BY <1>7, <4>1, StartsEffect DEF InFlight
    <3>2. claimed' = claimed /\ toLaunch' = toLaunch \ {u} /\ u \in toLaunch
      BY <1>7 DEF Launch
    <3>3. CASE t = u
      BY <3>1, <3>2, <3>3 DEF RunPending, Scheduled
    <3>4. CASE t # u
      BY <3>1, <3>2, <3>4 DEF RunPending, Scheduled
    <3> QED  BY <3>3, <3>4
  <2> QED  BY <2>1, <2>2, StaysSettled DEF NothingLost
<1>8. ASSUME NEW t \in Tasks, ManualTrigger(t) PROVE (\A u \in Tasks : Settled(u))'
  BY <1>8, QuietSteps DEF NothingLost
<1>9. ASSUME NEW t \in Tasks, UserEdit(t) PROVE (\A u \in Tasks : Settled(u))'
  BY <1>9, QuietSteps DEF NothingLost
<1>10. ASSUME NEW r \in RunId, Works(r) PROVE (\A t \in Tasks : Settled(t))'
  <2> TAKE t \in Tasks
  <2>1. row' = row /\ (up' => up)
    BY <1>10, WorksEffect
  <2>2. RunPending(t)' <=> RunPending(t)
    BY <1>10, WorksEffect DEF OnlyRun, RunPending, Scheduled
  <2> QED  BY <2>1, <2>2, StaysSettled DEF NothingLost
<1>11. ASSUME NEW r \in RunId, ReadRow(r) PROVE (\A t \in Tasks : Settled(t))'
  <2> TAKE t \in Tasks
  <2>1. row' = row /\ (up' => up)
    BY <1>11 DEF ReadRow, processVars
  <2>2. RunPending(t)' <=> RunPending(t)
    <3>1. OnlyRun(r) /\ run'[r].at = run[r].at
      BY <1>11, ReadRowEffect
    <3>2. claimed' = claimed /\ toLaunch' = toLaunch
      BY <1>11 DEF ReadRow, processVars
    <3> QED  BY <3>1, <3>2 DEF OnlyRun, RunPending, Scheduled
  <2> QED  BY <2>1, <2>2, StaysSettled DEF NothingLost
<1>12. ASSUME NEW r \in RunId, Records(r) PROVE (\A t \in Tasks : Settled(t))'
  <2> TAKE t \in Tasks
  <2> DEFINE task == run[r].task
  <2>1. /\ OnlyRun(r) /\ UNCHANGED <<day, up, claimed, toLaunch>>
        /\ task \in Tasks /\ row[task].exists
        /\ run[r].at \in InFlight /\ run'[r].at \in Recorded
        /\ \A u \in Tasks : /\ u # task => row'[u] = row[u]
                            /\ row'[u].exists = row[u].exists
    BY <1>12, RecordsEffect DEF InFlight, NothingLost, Undisturbed
  <2>2. Scheduled(r) /\ run[r].day = day
    <3>1. Scheduled(r)
      BY <2>1, StartedBySchedule
      DEF NothingLost, Undisturbed, InFlight, Recording
    <3> QED  BY <2>1, <3>1 DEF Calendar, Today, RunsToday
  <2>3. /\ \A s \in RunId : s # r => run'[s] = run[s]
        /\ run'[r].kind = "scheduled" /\ run'[r].task = task
        /\ run'[r].day = day /\ run'[r].at \notin InFlight
        /\ ~Excused(r) /\ ~Excused(r)'
    BY <2>1, <2>2
    DEF OnlyRun, Scheduled, Excused, InFlight, Recording, Recorded
  <2>4. CASE t # task
    <3>1. RunPending(t)' <=> RunPending(t)
      BY <2>1, <2>2, <2>3, <2>4 DEF RunPending, Scheduled
    <3> QED  BY <2>1, <2>4, <3>1, StaysSettled DEF NothingLost
  <2>5. CASE t = task
    <3>1. row'[t].lastDate = day /\ row'[t].status # "running"
      <4>1. Scheduled(r)' /\ row'[run'[r].task].exists /\ run'[r].day = day'
        BY <2>1, <2>2, <2>3 DEF Scheduled
      <4> QED  BY <2>1, <2>3, <2>5, <4>1 DEF Calendar, Owned
    <3>2. t \notin claimed \cup toLaunch
      BY <2>2, <2>3, <2>5 DEF Calendar, Queue
    <3>3. ASSUME NEW s \in RunId, s # r, Scheduled(s), run[s].task = t
          PROVE run[s].at \notin InFlight
      <4> SUFFICES ASSUME run[s].at \in InFlight PROVE FALSE
        OBVIOUS
      <4>1. run[s].day = day /\ ~Excused(s)
        BY <3>3 DEF Calendar, Today, RunsToday, Excused, InFlight, Recording
      <4> QED  BY <2>2, <2>3, <2>5, <3>3, <4>1 DEF Calendar, OncePerDay
    <3>4. ~RunPending(t)'
      BY <2>1, <2>3, <3>2, <3>3 DEF RunPending, Scheduled
    <3>5. Kept(t)'
      BY <2>1, <2>3, <2>5, <3>1 DEF Kept, Scheduled
    <3> QED  BY <3>1, <3>4, <3>5 DEF Settled
  <2> QED  BY <2>4, <2>5
<1>13. ASSUME NEW r \in RunId, Raises(r) PROVE (\A t \in Tasks : Settled(t))'
  BY <1>13, QuietSteps DEF NothingLost
<1>14. ASSUME UNCHANGED vars PROVE (\A t \in Tasks : Settled(t))'
  <2> TAKE t \in Tasks
  <2>1. row' = row /\ (up' => up)
    BY <1>14 DEF vars, processVars
  <2>2. RunPending(t)' <=> RunPending(t)
    BY <1>14 DEF vars, processVars, RunPending, Scheduled
  <2> QED  BY <2>1, <2>2, StaysSettled DEF NothingLost
<1> QED
  BY <1>1, <1>2, <1>3, <1>4, <1>5, <1>6, <1>7, <1>8, <1>9, <1>10, <1>11,
     <1>12, <1>13, <1>14, Cases

\* So nothing is lost by any step.
LEMMA NothingLostStep ==
    ASSUME TypeOK, Book, Quiet, Calendar, Calendar', ReportShownIsTrue,
           NothingLost, [Next]_vars
    PROVE NothingLost'
BY UndisturbedStep, InOrderStep, SettledStep DEF NothingLost


-----------------------------------------------------------------------------
(* The inductive invariant and what follows from it.                       *)

IInv ==
    /\ TypeOK
    /\ Book
    /\ SlotsInv
    /\ Backed
    /\ ReportShownIsTrue
    /\ ~RunsOverMidnight => Calendar
    /\ Quiet => NothingLost

\* It holds at first.
LEMMA Initially == Init => IInv
<1> SUFFICES ASSUME Init PROVE IInv
  OBVIOUS
<1>1. PICK trigger \in [Tasks -> Triggers] :
          row = [t \in Tasks |-> NewRow(trigger[t])]
  BY DEF Init
<1>2. \A t \in Tasks : /\ row[t] \in RowType /\ row[t] = NewRow(trigger[t])
                       /\ row[t].exists /\ row[t].active
                       /\ row[t].lastDate = NoDay /\ row[t].status = "none"
                       /\ row[t].report = NoReport /\ row[t].failures = 0
  BY <1>1, FirstRows DEF NewRow
<1>3. \A r \in RunId : /\ run[r] = NoRun /\ run[r].kind = "none"
                       /\ run[r].at = "none" /\ run[r].read = FALSE
  BY DEF Init, NoRun
<1>4. /\ day = 1 /\ part = "daytime" /\ up = FALSE /\ claimed = {}
      /\ toLaunch = {} /\ launchDay = NoDay /\ free = Concurrency
      /\ started = 0 /\ crashes = 0 /\ edits = 0
      /\ run = [r \in RunId |-> NoRun]
  BY DEF Init
<1>5. TypeOK
  <2>1. DataType
    <3>1. run \in [RunId -> RunType]
      BY <1>4, FirstRows
    <3>2. row \in [Tasks -> RowType]
      BY <1>1, <1>2
    <3> QED  BY <3>1, <3>2 DEF DataType
  <2>2. RestType
    <3>1. /\ free \in 0..Concurrency /\ day \in 1..LastDay
          /\ started \in 0..MaxRuns
      BY <1>4, Constants
    <3>2. crashes \in 0..MaxCrashes /\ edits \in 0..MaxEdits
      BY <1>4, Constants
    <3>3. launchDay \in 0..LastDay
      BY <1>4, Constants DEF NoDay
    <3>4. /\ up \in BOOLEAN /\ claimed \subseteq Tasks
          /\ toLaunch \subseteq Tasks /\ part \in Parts
      BY <1>4 DEF Parts
    <3> QED  BY <3>1, <3>2, <3>3, <3>4 DEF RestType
  <2> QED  BY <2>1, <2>2, TypeSplit
<1>6. Book
  BY <1>3, <1>4 DEF Book, Fresh, Placed, Down, Scheduled
<1>7. SlotsInv
  BY <1>4, Constants DEF SlotsInv, SlotsConserved
<1>8. Backed /\ ReportShownIsTrue
  BY <1>2, <1>3 DEF Backed, ReportShownIsTrue
<1>9. Calendar
  <2>1. Today
    BY <1>2, <1>3, <1>4
    DEF Today, QueueToday, RunsToday, RowsToday, Scheduled, NoDay
  <2>2. Owned /\ SeenTrue /\ Queue /\ OncePerDay
    BY <1>3, <1>4 DEF Owned, SeenTrue, Queue, OncePerDay, Scheduled
  <2> QED  BY <2>1, <2>2 DEF Calendar
<1>10. NothingLost
  <2>1. Undisturbed
    BY <1>2, <1>3 DEF Undisturbed, Manual
  <2>2. InOrder
    BY <1>3 DEF InOrder
  <2>3. \A t \in Tasks : Settled(t)
    BY <1>2, <1>3, <1>4 DEF Settled, RunPending, Kept, Scheduled
  <2> QED  BY <2>1, <2>2, <2>3 DEF NothingLost
<1> QED
  BY <1>5, <1>6, <1>7, <1>8, <1>9, <1>10 DEF IInv

\* Every step keeps it.
LEMMA Inductive == IInv /\ [Next]_vars => IInv'
<1> SUFFICES ASSUME IInv, [Next]_vars PROVE IInv'
  OBVIOUS
<1> USE DEF IInv
<1>1. Book'
  BY FreshStep, PlacedStep, DownStep DEF Book
<1>2. SlotsInv'
  BY SlotsStep
<1>3. TypeOK'
  <2>1. DataType' /\ RestType'
    BY <1>2, DataStep, RestStep
  <2> QED  BY <2>1 DEF TypeOK, DataType, RestType, RunType
<1>4. Backed' /\ ReportShownIsTrue'
  BY BackedStep, ShownStep
<1>5. ~RunsOverMidnight => Calendar'
  BY CalendarStep
<1>6. Quiet => NothingLost'
  BY <1>5, NothingLostStep DEF Quiet
<1> QED
  BY <1>1, <1>2, <1>3, <1>4, <1>5, <1>6

\* So it always holds.
THEOREM Invariance == Spec => []IInv
<1> QED
  BY Initially, Inductive, PTL DEF Spec

\* The variables keep to their types, for any tasks, calendar and bounds:
\* the semaphore never goes below zero nor above its size.
THEOREM TypeCorrect == Spec => []TypeOK
<1>1. IInv => TypeOK
  BY DEF IInv
<1> QED
  BY <1>1, Invariance, PTL

\* Whatever fails, the free slots and the runs that hold one add up to
\* SCHEDULER_CONCURRENCY while the process is up (_concurrency_slot).
THEOREM SlotsAddUp == Spec => []SlotsConserved
<1>1. IInv => SlotsConserved
  BY DEF IInv, SlotsInv
<1> QED
  BY <1>1, Invariance, PTL

\* The report a row shows is the completed report of a run of that row, or of a
\* misled one, under edits, manual runs, crashes and commits that overlap
\* (mark_run_success, mark_run_failed, record_manual_test_result, and the read
\* of the entry in _run_scheduled_analysis_once and _run_manual_trigger).
THEOREM ShownReportsAreTrue == Spec => []ReportShownIsTrue
<1>1. IInv => ReportShownIsTrue
  BY DEF IInv
<1> QED
  BY <1>1, Invariance, PTL

\* Rows as they are created have no failures, and no transaction is under way.
LEMMA NoStrikesYet == ASSUME Init PROVE StrikesInv
<1>1. PICK trigger \in [Tasks -> Triggers] :
          row = [t \in Tasks |-> NewRow(trigger[t])]
  BY DEF Init
<1>2. \A t \in Tasks : row[t].failures = 0
  BY <1>1 DEF NewRow
<1>3. \A r \in RunId : run[r].read = FALSE
  BY DEF Init, NoRun
<1> QED  BY <1>2, <1>3 DEF StrikesInv, StrikesDeactivate

\* A row that becomes active is activated by a user: neither a recording nor a
\* recovery does it.
LEMMA OnlyUsersActivate ==
    ASSUME TypeOK, [Next]_vars, NEW t \in Tasks, ~row[t].active, row'[t].active
    PROVE  edits < MaxEdits
<1>1. CASE Tick \/ ReadClaimed \/ ReadClaimedRaises \/ Crash \/ UNCHANGED vars
  BY <1>1 DEF Tick, ReadClaimed, ReadClaimedRaises, Crash, vars
<1>2. CASE Claim \/ Start
  <2>1. row'[t]["active"] = row[t]["active"]
    BY <1>2, ClaimEffect, StartEffect
  <2> QED  BY <2>1
<1>3. ASSUME NEW u \in Tasks, Launch(u) \/ ManualTrigger(u) PROVE FALSE
  BY <1>3, StartsEffect
<1>4. ASSUME NEW u \in Tasks, UserEdit(u) PROVE edits < MaxEdits
  BY <1>4, EditEffect DEF UserEdit
<1>5. ASSUME NEW r \in RunId, Works(r) \/ ReadRow(r) PROVE FALSE
  BY <1>5 DEF Works, Acquire, SaveReport, JobEnds, ReadRow
<1>6. ASSUME NEW r \in RunId, Records(r) PROVE FALSE
  <2>1. CASE Seen(r).exists
    <3>1. CASE RecordSuccess(r)
      <4>1. PICK m \in RowType :
                /\ row' = [row EXCEPT ![run[r].task] = m]
                /\ m.active = row[run[r].task].active
        BY <2>1, <3>1, SuccessEffect
      <4> QED  BY <4>1, RunsTyped, SeenType
    <3>2. CASE RecordFailure(r)
      <4>1. PICK m \in RowType :
                /\ row' = [row EXCEPT ![run[r].task] = m]
                /\ m.active = IF ~Manual(r) /\ Seen(r).active
                                 /\ Seen(r).failures >= 2
                              THEN FALSE ELSE row[run[r].task].active
        BY <2>1, <3>2, FailureEffect
      <4>2. row' = [row EXCEPT ![run[r].task] = m]
            /\ (m.active => row[run[r].task].active)
        BY <4>1
      <4> QED  BY <4>2, RunsTyped, SeenType
    <3> QED  BY <1>6, <3>1, <3>2 DEF Records
  <2>2. CASE ~Seen(r).exists
    BY <1>6, <2>2 DEF Records, RecordSuccess, RecordFailure
  <2> QED  BY <2>1, <2>2
<1>7. ASSUME NEW r \in RunId, Raises(r) PROVE FALSE
  BY <1>7, RecordingEffect DEF Raises
<1> QED  BY <1>1, <1>2, <1>3, <1>4, <1>5, <1>6, <1>7, Cases

\* The third failure in a row deactivates the task (mark_run_failed), whatever
\* its user, late runs and manual runs did meanwhile, if no row is activated
\* that a transaction under way has read as inactive.
THEOREM ThreeStrikes ==
    Spec /\ [][NoStaleActivation]_vars => []StrikesDeactivate
<1>1. Init => StrikesInv
  BY NoStrikesYet
<1>2. IInv /\ StrikesInv /\ [Next]_vars /\ [NoStaleActivation]_vars => StrikesInv'
  <2>1. ASSUME UNCHANGED vars PROVE NoStaleActivation
    BY <2>1 DEF vars, NoStaleActivation
  <2> QED  BY <2>1, StrikesStep DEF IInv
<1>3. StrikesInv => StrikesDeactivate
  BY DEF StrikesInv
<1> QED
  BY <1>1, <1>2, <1>3, Invariance, PTL DEF Spec

\* There is no such activation where reading and writing a row is one step, or
\* no user edits the rows.
THEOREM ThreeStrikesUndisturbed ==
    ASSUME ~WritesMayOverlap \/ MaxEdits = 0
    PROVE  Spec => []StrikesDeactivate
<1>1. IInv /\ [Next]_vars => [NoStaleActivation]_vars
  <2> SUFFICES ASSUME IInv, [Next]_vars PROVE NoStaleActivation
    OBVIOUS
  <2>1. CASE ~WritesMayOverlap
    BY <2>1 DEF NoStaleActivation
  <2>2. CASE MaxEdits = 0
    <3>1. edits \in 0..MaxEdits /\ TypeOK
      BY DEF IInv, TypeOK
    <3>2. ASSUME NEW r \in RunId, row'[run[r].task].active
          PROVE row[run[r].task].active
      BY <2>2, <3>1, <3>2, OnlyUsersActivate, SeenType
    <3> QED  BY <3>2 DEF NoStaleActivation
  <2> QED  BY <2>1, <2>2
<1> QED
  BY <1>1, Invariance, ThreeStrikes, PTL DEF Spec

\* A task runs once a day unless the earlier run left no outcome, as long as
\* no run lasts into the next day (get_pending_tasks, claim, _startup).
THEOREM OnceADay ==
    ASSUME ~RunsOverMidnight
    PROVE  Spec => []OncePerDay
<1>1. IInv => OncePerDay
  BY DEF IInv, Calendar
<1> QED
  BY <1>1, Invariance, PTL

\* A stamp stands for a recorded outcome and a "running" row for a pending run,
\* whenever the process dies (_recover_stale_tasks), as long as no user
\* interferes, no recording raises and no run lasts into the next day.
THEOREM NoDayIsLost ==
    ASSUME Quiet
    PROVE  Spec => []NoDayLost
<1>1. IInv => NoDayLost
  BY DEF IInv, NothingLost, Settled, Kept, NoDayLost
<1> QED
  BY <1>1, Invariance, PTL

=============================================================================
