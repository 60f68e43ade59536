---------------------------- MODULE DataCollector ----------------------------
(***************************************************************************)
(* The market data shared by the jobs of one process                       *)
(* (tradingagents/graph/data_collector.py, used by _run_job_inner).        *)
(*                                                                         *)
(* A job takes a reference on the data of its symbol, has a worker thread  *)
(* collect the data of the ticker its query is about, reads it while it    *)
(* analyses, and evicts on its way out.  A thread fetches under a lock of  *)
(* the key; the reference counts have a lock of their own, so an eviction  *)
(* may come between any two steps of a thread.  A job that is cut off      *)
(* leaves its thread behind.  A key is a symbol on one trade date.         *)
(***************************************************************************)
EXTENDS Integers, FiniteSets

CONSTANTS
    Jobs,   \* the analyses run by this process
    Keys    \* the symbol and date pairs they ask for

ASSUME JobsAssumption == IsFiniteSet(Jobs)

VARIABLES
    plan,   \* what each job was asked for: its mode, symbol and ticker
    phase,  \* where its coroutine is
    thread, \* where the thread is that collects for it
    cache,  \* the keys of _cache
    refs,   \* _refcounts, 0 for a key that is not in it
    locked  \* is the lock of the key held?

vars == <<plan, phase, thread, cache, refs, locked>>

Mode == {"dry", "stream", "intent"}
Plan == {p \in [mode : Mode, symbol : Keys, ticker : Keys] :
           p.mode = "intent" \/ p.ticker = p.symbol}
Symbol(j) == plan[j].symbol
Ticker(j) == plan[j].ticker

\* Between the acquisition and the release of the key's lock.
Critical == {"checking", "fetching", "reading"}
Active == {"queued", "waiting"} \cup Critical
ThreadStates == {"none", "done", "raised"} \cup Active

-----------------------------------------------------------------------------
(* The coroutine of a job.                                                 *)

\* Mutant: the reference is not counted.
RefForgets(k) == UNCHANGED refs

\* ref: one more job uses the key.
Ref(k) == refs' = [refs EXCEPT ![k] = @ + 1]

\* Mutant: the eviction deletes the lock of the key too.
EvictDropsLock(k) ==
    IF refs[k] > 1
    THEN refs' = [refs EXCEPT ![k] = @ - 1] /\ UNCHANGED <<cache, locked>>
    ELSE /\ refs' = [refs EXCEPT ![k] = 0]
         /\ cache' = cache \ {k}
         /\ locked' = [locked EXCEPT ![k] = FALSE]

\* Mutant: the data stays until the count is below zero.
EvictOffByOne(k) ==
    /\ IF refs[k] > 0
       THEN refs' = [refs EXCEPT ![k] = @ - 1] /\ UNCHANGED cache
       ELSE cache' = cache \ {k} /\ UNCHANGED refs
    /\ UNCHANGED locked

\* evict: a key without a count counts as 1; the last one drops the data.
Evict(k) ==
    /\ IF refs[k] > 1
       THEN refs' = [refs EXCEPT ![k] = @ - 1] /\ UNCHANGED cache
       ELSE refs' = [refs EXCEPT ![k] = 0] /\ cache' = cache \ {k}
    /\ UNCHANGED locked

\* The try block begins: a dry run answers and evicts what it never took.
DryRun(j) ==
    /\ phase[j] = "idle" /\ plan[j].mode = "dry"
    /\ phase' = [phase EXCEPT ![j] = "over"]
    /\ Evict(Symbol(j))
    /\ UNCHANGED <<plan, thread>>

\* Any other takes its reference.  Without a query it analyses at once and
\* its agents fetch for themselves; with one the query is parsed first.
Begin(j) ==
    /\ phase[j] = "idle" /\ plan[j].mode # "dry"
    /\ phase' = [phase EXCEPT ![j] =
                   IF plan[j].mode = "stream" THEN "analysing" ELSE "parsing"]
    /\ Ref(Symbol(j))
    /\ UNCHANGED <<plan, thread, cache, locked>>

\* await to_thread(collect).
StartCollect(j) ==
    /\ phase[j] = "parsing"
    /\ phase' = [phase EXCEPT ![j] = "collecting"]
    /\ thread' = [thread EXCEPT ![j] = "queued"]
    /\ UNCHANGED <<plan, cache, refs, locked>>

Collected(j) ==
    /\ phase[j] = "collecting" /\ thread[j] = "done"
    /\ phase' = [phase EXCEPT ![j] = "analysing"]
    /\ thread' = [thread EXCEPT ![j] = "none"]
    /\ UNCHANGED <<plan, cache, refs, locked>>

\* The collection raised, or the parsing before it, or the analysis ended or
\* raised: the finally clause evicts.
Finish(j) ==
    /\ \/ phase[j] \in {"parsing", "analysing"}
       \/ phase[j] = "collecting" /\ thread[j] = "raised"
    /\ phase' = [phase EXCEPT ![j] = "over"]
    /\ Evict(Symbol(j))
    /\ UNCHANGED <<plan, thread>>

\* The hard limit or a shutdown cancels the await on the thread: one that has
\* not begun never will, one that has begun goes on.
CutOff(j) ==
    /\ phase[j] = "collecting"
    /\ phase' = [phase EXCEPT ![j] = "over"]
    /\ thread' = [thread EXCEPT ![j] = IF @ = "queued" THEN "none" ELSE @]
    /\ Evict(Symbol(j))
    /\ UNCHANGED plan

-----------------------------------------------------------------------------
(* collect, in the thread.                                                 *)

ThreadMoves(j, from, to) ==
    /\ thread[j] = from
    /\ thread' = [thread EXCEPT ![j] = to]

Release(k) == locked' = [locked EXCEPT ![k] = FALSE]

ThreadBegins(j) ==
    /\ ThreadMoves(j, "queued", "waiting")
    /\ UNCHANGED <<plan, phase, cache, refs, locked>>

Acquire(j) ==
    /\ ThreadMoves(j, "waiting", "checking")
    /\ ~locked[Ticker(j)]
    /\ locked' = [locked EXCEPT ![Ticker(j)] = TRUE]
    /\ UNCHANGED <<plan, phase, cache, refs>>

\* Mutant: acquire() without a timeout.
WaitsOn(j) ==
    /\ thread[j] = "waiting"
    /\ locked[Ticker(j)]
    /\ UNCHANGED vars

\* acquire(timeout=FETCH_ALL_TIMEOUT + 60) gave up.
LockTimesOut(j) ==
    /\ ThreadMoves(j, "waiting", "raised")
    /\ locked[Ticker(j)]
    /\ UNCHANGED <<plan, phase, cache, refs, locked>>

\* Is the key cached?
Check(j) ==
    /\ thread[j] = "checking"
    /\ thread' = [thread EXCEPT ![j] =
                    IF Ticker(j) \in cache THEN "reading" ELSE "fetching"]
    /\ UNCHANGED <<plan, phase, cache, refs, locked>>

Fetched(j) ==
    /\ ThreadMoves(j, "fetching", "reading")
    /\ cache' = cache \cup {Ticker(j)}
    /\ UNCHANGED <<plan, phase, refs, locked>>

FetchRaises(j) ==
    /\ ThreadMoves(j, "fetching", "raised")
    /\ Release(Ticker(j))
    /\ UNCHANGED <<plan, phase, cache, refs>>

\* return self._cache[key] raises KeyError when the key was evicted since.
Return(j) ==
    /\ thread[j] = "reading"
    /\ thread' = [thread EXCEPT ![j] =
                    IF Ticker(j) \in cache THEN "done" ELSE "raised"]
    /\ Release(Ticker(j))
    /\ UNCHANGED <<plan, phase, cache, refs>>

-----------------------------------------------------------------------------
Init ==
    /\ plan \in [Jobs -> Plan]
    /\ phase = [j \in Jobs |-> "idle"]
    /\ thread = [j \in Jobs |-> "none"]
    /\ cache = {}
    /\ refs = [k \in Keys |-> 0]
    /\ locked = [k \in Keys |-> FALSE]

JobStep(j) ==
    \/ DryRun(j) \/ Begin(j) \/ StartCollect(j) \/ Collected(j)
    \/ Finish(j) \/ CutOff(j)
ThreadStep(j) ==
    \/ ThreadBegins(j) \/ Acquire(j) \/ LockTimesOut(j) \/ Check(j)
    \/ Fetched(j) \/ FetchRaises(j) \/ Return(j)

Next == \E j \in Jobs : JobStep(j) \/ ThreadStep(j)

Spec == Init /\ [][Next]_vars

\* A thread that waits for the lock gets it or gives up.  Nothing is assumed of
\* the fetch: the vendors may hang.
LockFairness == \A j \in Jobs : WF_vars(Acquire(j) \/ LockTimesOut(j))

FairSpec == Spec /\ LockFairness

-----------------------------------------------------------------------------
(* Properties.                                                             *)

\* The types of the variables.
TypeOK ==
    /\ plan \in [Jobs -> Plan]
    /\ phase \in [Jobs -> {"idle", "parsing", "collecting", "analysing", "over"}]
    /\ thread \in [Jobs -> ThreadStates]
    /\ cache \subseteq Keys
    /\ refs \in [Keys -> Nat]
    /\ locked \in [Keys -> BOOLEAN]

\* "Data is fetched only once" (the docstring of collect): no two threads fetch
\* the same key at a time, also when evictions fall in between, and none
\* fetches what is cached.
FetchedOnce ==
    \A i \in Jobs : thread[i] = "fetching" =>
        /\ Ticker(i) \notin cache
        /\ \A j \in Jobs : thread[j] = "fetching" /\ Ticker(j) = Ticker(i)
                             => i = j

\* The key is used by a job that holds a reference on it and has collected it.
Needs(j, k) ==
    /\ plan[j].mode = "intent" /\ Symbol(j) = k /\ Ticker(j) = k
    /\ \/ phase[j] = "analysing"
       \/ phase[j] = "collecting" /\ thread[j] \in {"reading", "done"}

\* Data is evicted only "when no one needs it" (the docstring of evict), so that
\* a collection under a reference never finds its key gone; as long as no dry
\* run, which evicts without a reference, asks for the same key.
KeptWhileNeeded ==
    \A j \in Jobs, k \in Keys :
       Needs(j, k) /\ (\A d \in Jobs : Symbol(d) = k => plan[d].mode # "dry")
       => k \in cache

\* Once every job is over and every thread has ended, no count and no lock is
\* left, and data is left only where a thread outlived its job or a job
\* collected another ticker than its symbol.
OnlyStraysLeft ==
    (\A j \in Jobs : phase[j] = "over" /\ thread[j] \notin Active) =>
        /\ \A k \in Keys : refs[k] = 0 /\ ~locked[k]
        /\ \A k \in cache : \E j \in Jobs :
             Ticker(j) = k /\ (thread[j] = "done" \/ Symbol(j) # k)

\* A thread does not wait for the lock for ever, though the one that holds it
\* may never come back.
WaitersLeave == \A j \in Jobs : thread[j] = "waiting" ~> thread[j] # "waiting"
=============================================================================
