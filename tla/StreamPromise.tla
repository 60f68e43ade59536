---------------------------- MODULE StreamPromise ----------------------------
(***************************************************************************)
(* What the streams of a job promise together: every event is given to at *)
(* most one stream, once and in its emitter's order; a stream ends with    *)
(* the verdict, and one that ends without it ends after the verdict was    *)
(* announced and taken by a stream that was told it or was left.  Only     *)
(* between a failure and its announcement may a stream be cut short, and   *)
(* those that share the job with it may then miss the verdict.             *)
(*                                                                         *)
(* There are no queues here, no entry and no timer: only the events that   *)
(* were announced and not given yet, of which an announcement or a late    *)
(* put may push one out.                                                   *)
(***************************************************************************)
EXTENDS Integers, Sequences

CONSTANTS
    Clients,      \* the streams
    TtlOvertakes  \* may the job be forgotten before its failure is announced?

VARIABLES
    emitted,   \* how many events were announced
    decision,  \* open; failing, which is not announced yet; or announced
    pending,   \* the events announced, not given and not pushed out
    stream,    \* where each stream is
    received   \* what it was given

vars == <<emitted, decision, pending, stream, received>>

Init ==
    /\ emitted = 0 /\ decision = "open" /\ pending = {}
    /\ stream = [c \in Clients |-> "before"]
    /\ received = [c \in Clients |-> <<>>]

\* Event e is announced, by the loop or by a worker thread; what the loop
\* announces may push out another event, never itself.  Nothing is announced
\* after the verdict.
Announce(e) ==
    /\ decision # "announced"
    /\ e.terminal => e.by = "loop"
    /\ emitted' = e.no
    /\ decision' = IF e.terminal THEN "announced" ELSE decision
    /\ \/ pending' = pending \cup {e}
       \/ e.by = "loop" /\ \E d \in pending : pending' = (pending \ {d}) \cup {e}
    /\ UNCHANGED <<stream, received>>

\* The events that may be announced next.
NextEvents == {[no |-> emitted + 1, terminal |-> t, by |-> b] :
                  t \in BOOLEAN, b \in {"loop", "worker"}}

\* The job has failed, which is still to be announced.
Fail ==
    /\ decision = "open"
    /\ decision' = "failing"
    /\ UNCHANGED <<emitted, pending, stream, received>>

\* A worker's event takes its place late, and pushes out another one.
PushOut ==
    /\ \E d, e \in pending : /\ e.by = "worker" /\ d # e
                             /\ pending' = pending \ {d}
    /\ UNCHANGED <<emitted, decision, stream, received>>

Begin(c) ==
    /\ stream[c] = "before"
    /\ stream' = [stream EXCEPT ![c] = "open"]
    /\ UNCHANGED <<emitted, decision, pending, received>>

\* An open stream is given an event, later than all of that emitter it has; the
\* verdict ends it.
Give(c) ==
    /\ stream[c] = "open"
    /\ \E e \in pending :
         /\ \A i \in 1..Len(received[c]) :
               received[c][i].by = e.by => received[c][i].no < e.no
         /\ pending' = pending \ {e}
         /\ received' = [received EXCEPT ![c] = Append(@, e)]
         /\ stream' = [stream EXCEPT ![c] = IF e.terminal THEN "told" ELSE "open"]
    /\ UNCHANGED <<emitted, decision>>

Leave(c) ==
    /\ stream[c] \in {"before", "open"}
    /\ stream' = [stream EXCEPT ![c] = "left"]
    /\ UNCHANGED <<emitted, decision, pending, received>>

\* The stream was last given the event of a worker thread.
LateEvent(c) ==
    received[c] # <<>> /\ received[c][Len(received[c])].by = "worker"

\* A stream is cut short: the job has failed, and that is not announced yet.
CutShort(c) ==
    /\ stream[c] = "open" /\ decision = "failing"
    /\ stream' = [stream EXCEPT ![c] = "cut"]
    /\ UNCHANGED <<emitted, decision, pending, received>>

\* A stream ends without the verdict: it was announced, and another stream was
\* told it, was left or was cut short, unless a worker's late event pushed it
\* out or the job was forgotten.
EndUntold(c) ==
    /\ stream[c] = "open" /\ decision = "announced"
    /\ TtlOvertakes \/ \E d \in Clients :
                          stream[d] \in {"told", "left", "cut"} \/ LateEvent(d)
    /\ stream' = [stream EXCEPT ![c] = "polled"]
    /\ UNCHANGED <<emitted, decision, pending, received>>

Next ==
    \/ \E e \in NextEvents : Announce(e)
    \/ Fail \/ PushOut
    \/ \E c \in Clients :
          Begin(c) \/ Give(c) \/ Leave(c) \/ CutShort(c) \/ EndUntold(c)

Spec == Init /\ [][Next]_vars
=============================================================================
