------------------------------- MODULE Backtest -------------------------------
(***************************************************************************)
(* One backtest (backtest_service.py): its entry in the in-memory store    *)
(* and the daemon thread that analyses the sampled days and writes its     *)
(* progress there, while the user may delete the entry at any moment.      *)
(*                                                                         *)
(* A record keeps the sign of the stored return, which for a SELL is that  *)
(* of the negated price change: positive is a gain for both actions.       *)
(***************************************************************************)
EXTENDS Integers, Sequences, FiniteSets

CONSTANT
    MaxDays   \* bound: days in the sampled range

ASSUME MaxDaysAssumption == MaxDays \in Nat

VARIABLES
    range,      \* what the submitted dates and interval amount to
    backtest,   \* the entry in _backtest_jobs
    thread,     \* where _run_backtest is
    records,    \* its local list
    deleted     \* has the user deleted the entry?

backtestVars == <<range, backtest, thread, records, deleted>>

\* sample_interval is not validated: with 0 the days are never all collected;
\* a date that does not parse raises.
SampleRange == [kind : {"days"}, days : 0..MaxDays] \cup [kind : {"endless", "invalid"}, days : {0}]

\* ret: the sign of return_pct, 2 for None.
NoReturn == 2
Record == [action : {"BUY", "SELL", "HOLD"}, ret : {-1, 0, 1, NoReturn}]
NoStats == [signals |-> 0, wins |-> 0]
NoEntry == [status |-> "absent", whole |-> FALSE, total |-> 0, completed |-> 0,
            records |-> <<>>, stats |-> NoStats]

\* Mutant: an entry that is gone comes back with the fields it had.
SetWhole(fields) == backtest' = [fields EXCEPT !.whole = TRUE]

\* _set: an entry that is gone comes back with these fields only; `whole' says
\* that it has the fields submit gave it, its job_id among them.
Set(fields) == backtest' = fields

Submit ==
    /\ thread = "new"
    /\ Set([NoEntry EXCEPT !.status = "pending", !.whole = TRUE])
    /\ thread' = "start"
    /\ UNCHANGED <<range, records, deleted>>

SetRunning ==
    /\ thread = "start"
    /\ Set([backtest EXCEPT !.status = "running"])
    /\ thread' = "plan"
    /\ UNCHANGED <<range, records, deleted>>

\* A range that raises ends the thread: the entry says "running" for ever.
PlanRaises ==
    /\ thread = "plan" /\ range.kind = "invalid"
    /\ thread' = "dead"
    /\ UNCHANGED <<range, backtest, records, deleted>>

\* status is there already, or missing when the entry was deleted in between.
Plan ==
    /\ thread = "plan" /\ range.kind = "days"
    /\ Set([backtest EXCEPT !.total = range.days, !.completed = 0, !.records = <<>>,
               !.status = IF @ = "absent" THEN "none" ELSE @])
    /\ thread' = "days"
    /\ UNCHANGED <<range, records, deleted>>

\* One day: an analysis that raises counts as a HOLD, a price that is missing
\* leaves the return empty.
Analyse ==
    /\ thread = "days" /\ Len(records) < range.days
    /\ \E r \in Record :
          /\ r.action = "HOLD" => r.ret = NoReturn
          /\ records' = Append(records, r)
    /\ Set([backtest EXCEPT !.completed = Len(records'), !.records = records',
               !.status = IF @ = "absent" THEN "none" ELSE @])
    /\ UNCHANGED <<range, thread, deleted>>

Trades(rs) == {i \in DOMAIN rs : rs[i].action # "HOLD" /\ rs[i].ret # NoReturn}

\* Mutant: a BUY that lost counts as won.
WonAny(r) == r.ret # 0

\* A SELL is counted as won when its stored return is negative.
Won(r) ==
    \/ r.action = "BUY" /\ r.ret = 1
    \/ r.action = "SELL" /\ r.ret = -1

Stats(rs) ==
    [signals |-> Cardinality(Trades(rs)),
     wins |-> Cardinality({i \in Trades(rs) : Won(rs[i])})]

Complete ==
    /\ thread = "days" /\ Len(records) = range.days
    /\ Set([backtest EXCEPT !.status = "completed", !.records = records,
               !.stats = Stats(records)])
    /\ thread' = "done"
    /\ UNCHANGED <<range, records, deleted>>

\* The thread goes on: there is no way to stop it.
DeleteBacktest ==
    /\ backtest # NoEntry
    /\ backtest' = NoEntry
    /\ deleted' = TRUE
    /\ UNCHANGED <<range, thread, records>>

BacktestInit ==
    /\ range \in SampleRange
    /\ backtest = NoEntry /\ thread = "new" /\ records = <<>> /\ deleted = FALSE

BacktestNext ==
    \/ Submit \/ SetRunning \/ PlanRaises \/ Plan \/ Analyse \/ Complete
    \/ DeleteBacktest

-----------------------------------------------------------------------------
(* Properties.                                                             *)

BacktestTypeOK ==
    /\ range \in SampleRange
    /\ backtest \in
         [status : {"absent", "none", "pending", "running", "completed"},
          whole : BOOLEAN, total : 0..MaxDays, completed : 0..MaxDays,
          records : Seq(Record), stats : [signals : Nat, wins : Nat]]
    /\ thread \in {"new", "start", "plan", "days", "done", "dead"}
    /\ records \in Seq(Record) /\ deleted \in BOOLEAN

\* What a client sees of a backtest: an entry lacks its submitted fields only
\* if it was deleted while its thread ran, and then it never has them again;
\* a completed one has all its days, a statistic over just the trades with a
\* price, and its BUYs are counted as won exactly when they gained.  (Of a SELL
\* the code counts the losses; see the README.)
BacktestTruth ==
    /\ backtest # NoEntry => (backtest.whole <=> ~deleted)
    /\ backtest.completed <= Len(records)
    /\ backtest.status = "completed" =>
          LET rs == backtest.records
              t == Trades(rs) IN
          /\ Len(rs) = range.days
          /\ backtest.stats.signals = Cardinality(t)
          /\ (\A i \in t : rs[i].action = "BUY") =>
                backtest.stats.wins = Cardinality({i \in t : rs[i].ret = 1})
=============================================================================
