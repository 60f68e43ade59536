----------------------------- MODULE JobPromise -----------------------------
(***************************************************************************)
(* What a job promises whoever submitted it: at most one outcome, never    *)
(* revised; "completed" only with the report stored; and, unless the       *)
(* process stops, an outcome before the job is over.                       *)
(***************************************************************************)
VARIABLES
    outcome,    \* "undecided", "completed" or "failed"
    persisted,  \* is the finished report stored, or none due (a dry run)?
    ended       \* "open", "answered" or "stopped"

vars == <<outcome, persisted, ended>>

Init ==
    /\ outcome = "undecided"
    /\ persisted = FALSE
    /\ ended = "open"

\* The report is stored, possibly by a thread nobody waits for any more.
Persist ==
    /\ persisted' = TRUE
    /\ UNCHANGED <<outcome, ended>>

\* The outcome is announced, and the job may be over in the same step; where
\* no report is due, that is settled then too.
Announce(result) ==
    /\ ended = "open"
    /\ outcome = "undecided"
    /\ persisted' \in {persisted, TRUE}
    /\ result = "completed" => persisted'
    /\ outcome' = result
    /\ ended' \in {"open", "answered"}

Answer ==
    /\ ended = "open"
    /\ outcome # "undecided"
    /\ ended' = "answered"
    /\ UNCHANGED <<outcome, persisted>>

Stop ==
    /\ ended = "open"
    /\ ended' = "stopped"
    /\ UNCHANGED <<outcome, persisted>>

Next ==
    \/ Persist
    \/ \E result \in {"completed", "failed"} : Announce(result)
    \/ Answer
    \/ Stop

Spec == Init /\ [][Next]_vars
====
