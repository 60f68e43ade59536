----------------------------- MODULE SourceFetch -----------------------------
(* One collection of market data (graph/data_collector.py, _fetch_all) beside *)
(* calls made elsewhere in the process (agents that miss a source, the        *)
(* tracking board), all routed through the chain of vendors                   *)
(* (dataflows/interface.py) and sharing AkShare's lock and BaoStock's session. *)
(* Time is left out: a wait may end in its timeout whenever no permit is free, *)
(* and any registered holder may have become a zombie.                        *)
EXTENDS MarketVendors, Integers, FiniteSets, SequencesExt

CONSTANTS Pool,      \* the collection's calls, in the order they are submitted
          Others,    \* calls made outside the collection
          Workers,   \* the threads of the collection's pool
          Total,     \* AkShare's permits
          SchedMax,  \* those of them that flagged calls may hold
          Setups     \* what the calls ask for, and whether the process is the scheduler

Calls == Range(Pool) \cup Others

ASSUME PoolAssumption ==
  /\ Pool \in Seq(Range(Pool)) /\ IsInjective(Pool)
  /\ Range(Pool) \cap Others = {} /\ IsFiniteSet(Others)
ASSUME PermitsAssumption == {Workers, Total, SchedMax} \subseteq Nat
ASSUME SetupsAssumption ==
  \A s \in Setups : /\ s.scheduler \in BOOLEAN /\ DOMAIN s.source = Calls
                    /\ \A c \in Calls : VendorChain(s.source[c]) # {}

VARIABLES setup,      \* this behaviour's member of Setups
          at,         \* where each call stands
          vendor,     \* the vendor of its chain it has come to
          section,    \* the AkShare section it is in: transactions have two
          answer,     \* what it brought
          free,       \* AkShare permits left
          freeSched,  \* permits left to flagged calls
          holders,    \* the calls registered as holding a permit
          loggedIn,   \* BaoStock's session, one for the process
          started,    \* how many calls of the pool a worker has taken
          collector,  \* the collecting thread
          shown       \* what it returns

permits == <<free, freeSched, holders>>
pool == <<started, collector, shown>>
vars == <<setup, at, vendor, section, answer, permits, loggedIn, pool>>

Source(c) == setup.source[c]

(* The scheduler's flag is a context variable: it follows the agents' calls   *)
(* but not the collection's, whose executor starts threads without a context. *)
Flagged(c) == setup.scheduler /\ c \in Others

Waits(c) == at[c] \in {"wantSched", "retrySched", "want", "retry"}
Vendor(c) == Registry[vendor[c]]
Running == {i \in 1..started : answer[Pool[i]] = "none"}

Init ==
  /\ setup \in Setups
  /\ at = [c \in Calls |-> IF c \in Others THEN "next" ELSE "queued"]
  /\ vendor = [c \in Calls |-> Min(VendorChain(Source(c)))]
  /\ section = [c \in Calls |-> 1]
  /\ answer = [c \in Calls |-> "none"]
  /\ free = Total /\ freeSched = SchedMax /\ holders = {}
  /\ loggedIn = FALSE
  /\ started = 0 /\ collector = "waits" /\ shown = << >>

(* The vendor answered or raised: the chain ends with an answer, goes on to   *)
(* the next vendor, or runs out, which the caller tells in words.             *)
Settled(c, end) ==
  LET later == {i \in VendorChain(Source(c)) : i > vendor[c]}
  IN IF end = "raise" /\ later # {}
    THEN /\ at' = [at EXCEPT ![c] = "next"]
         /\ vendor' = [vendor EXCEPT ![c] = Min(later)]
         /\ UNCHANGED answer
    ELSE /\ at' = [at EXCEPT ![c] = "over"]
         /\ answer' = [answer EXCEPT ![c] = IF end = "raise" THEN "text" ELSE end]
         /\ UNCHANGED vendor

(* A worker takes the next call; none is taken once the pool is shut down.    *)
StartCall ==
  /\ started < Len(Pool) /\ Cardinality(Running) < Workers /\ collector # "returned"
  /\ started' = started + 1
  /\ at' = [at EXCEPT ![Pool[started + 1]] = "next"]
  /\ UNCHANGED <<setup, vendor, section, answer, permits, loggedIn, collector, shown>>

(* A vendor without a lock or a session: one request, which may never end.    *)
Ask(c) ==
  /\ at[c] = "next" /\ Vendor(c).name \notin {"akshare", "baostock"}
  /\ \E end \in Vendor(c).ends[Source(c)] : Settled(c, end)
  /\ UNCHANGED <<setup, section, permits, loggedIn, pool>>

(* Live quotes come from Sina, or from the table cached for eight seconds,    *)
(* without AkShare's lock when they can.                                      *)
QuoteUnlocked(c) ==
  /\ at[c] = "next" /\ Vendor(c).name = "akshare" /\ Source(c) = "quotes"
  /\ \E end \in Vendor(c).ends["quotes"] : Settled(c, end)
  /\ UNCHANGED <<setup, section, permits, loggedIn, pool>>

(* _AkshareLock.__enter__: a flagged call needs a scheduled permit first.     *)
Entrance(c) == IF Flagged(c) THEN "wantSched" ELSE "want"
EnterAkshare(c) ==
  /\ at[c] = "next" /\ Vendor(c).name = "akshare"
  /\ at' = [at EXCEPT ![c] = Entrance(c)]
  /\ UNCHANGED <<setup, vendor, section, answer, permits, loggedIn, pool>>

TakeSched(c) ==
  /\ at[c] \in {"wantSched", "retrySched"} /\ freeSched > 0
  /\ at' = [at EXCEPT ![c] = "want"]
  /\ freeSched' = freeSched - 1
  /\ UNCHANGED <<setup, vendor, section, answer, free, holders, loggedIn, pool>>

(* The permit is taken; until Register the lock does not know by whom.        *)
TakeTotal(c) ==
  /\ at[c] \in {"want", "retry"} /\ free > 0
  /\ at' = [at EXCEPT ![c] = "got"]
  /\ free' = free - 1
  /\ UNCHANGED <<setup, vendor, section, answer, freeSched, holders, loggedIn, pool>>

Register(c) ==
  /\ at[c] = "got"
  /\ at' = [at EXCEPT ![c] = "in"]
  /\ holders' = holders \cup {c}
  /\ UNCHANGED <<setup, vendor, section, answer, free, freeSched, loggedIn, pool>>

\* Mutant: a zombie's scheduled permit is not given back.
ReclaimTotalOnly(zombies) ==
  /\ holders' = holders \ zombies
  /\ free' = free + Cardinality(zombies)
  /\ UNCHANGED freeSched

(* After a minute without a permit: the zombies, holders for more than two    *)
(* minutes, are struck off and their permits given back, and the call tries   *)
(* once more.                                                                 *)
Reclaimed(zombies) ==
  /\ holders' = holders \ zombies
  /\ free' = free + Cardinality(zombies)
  /\ freeSched' = freeSched + Cardinality({z \in zombies : Flagged(z)})
ReclaimAndRetry(c) ==
  /\ \/ at[c] = "wantSched" /\ freeSched = 0 /\ at' = [at EXCEPT ![c] = "retrySched"]
     \/ at[c] = "want" /\ free = 0 /\ at' = [at EXCEPT ![c] = "retry"]
  /\ \E zombies \in SUBSET holders : Reclaimed(zombies)
  /\ UNCHANGED <<setup, vendor, section, answer, loggedIn, pool>>

SectionEnds(c) ==
  IF Source(c) = "insider" THEN AkInsider(section[c]) ELSE Vendor(c).ends[Source(c)]

(* What follows a section that brought nothing: the news section after the    *)
(* holders' table, words where the method catches everything, else a raise.   *)
SectionFailed(c) ==
  IF Source(c) = "insider" /\ section[c] = 1
    THEN /\ section' = [section EXCEPT ![c] = 2]
         /\ at' = [at EXCEPT ![c] = Entrance(c)]
         /\ UNCHANGED <<vendor, answer>>
    ELSE /\ Settled(c, IF Source(c) \in {"mood", "quotes"} THEN "text" ELSE "raise")
         /\ UNCHANGED section

\* Mutant: the scheduled permit taken before is kept.
GiveUpKeepsSched(c) ==
  /\ \/ at[c] = "retrySched" /\ freeSched = 0
     \/ at[c] = "retry" /\ free = 0
  /\ SectionFailed(c)
  /\ UNCHANGED <<setup, permits, loggedIn, pool>>

(* The second wait runs out too: a TimeoutError, a scheduled permit taken     *)
(* before it given back.                                                      *)
GiveUp(c) ==
  /\ \/ at[c] = "retrySched" /\ freeSched = 0 /\ UNCHANGED freeSched
     \/ at[c] = "retry" /\ free = 0
        /\ freeSched' = IF Flagged(c) THEN freeSched + 1 ELSE freeSched
  /\ SectionFailed(c)
  /\ UNCHANGED <<setup, free, holders, loggedIn, pool>>

\* Mutant: a permit that was reclaimed is given back again.
ReleasedAlways(c) ==
  /\ holders' = holders \ {c}
  /\ free' = free + 1
  /\ freeSched' = IF Flagged(c) THEN freeSched + 1 ELSE freeSched

(* _AkshareLock.__exit__: a permit that was reclaimed is not given back again. *)
Released(c) ==
  IF c \in holders
    THEN /\ holders' = holders \ {c}
         /\ free' = free + 1
         /\ freeSched' = IF Flagged(c) THEN freeSched + 1 ELSE freeSched
    ELSE UNCHANGED permits
LeaveAkshare(c) ==
  /\ at[c] = "in"
  /\ Released(c)
  /\ \/ \E end \in SectionEnds(c) \ {"raise"} : Settled(c, end) /\ UNCHANGED section
     \/ "raise" \in SectionEnds(c) /\ SectionFailed(c)
     \/ "raise" \in SectionEnds(c) /\ Source(c) = "quotes"
        /\ Settled(c, "raise") /\ UNCHANGED section
  /\ UNCHANGED <<setup, loggedIn, pool>>

(* BaoStock's session belongs to the process: the logout that ends one call   *)
(* logs out every call between its login and its query.                       *)
Login(c) ==
  /\ at[c] = "next" /\ Vendor(c).name = "baostock"
  /\ \/ at' = [at EXCEPT ![c] = "query"] /\ loggedIn' = TRUE /\ UNCHANGED <<vendor, answer>>
     \/ Settled(c, "raise") /\ UNCHANGED loggedIn
  /\ UNCHANGED <<setup, section, permits, pool>>
Query(c) ==
  /\ at[c] = "query"
  /\ \E end \in IF loggedIn THEN Vendor(c).ends[Source(c)] ELSE {"raise"} : Settled(c, end)
  /\ loggedIn' = FALSE
  /\ UNCHANGED <<setup, section, permits, pool>>

\* Mutant: what has not answered is taken for a vendor's words.
SnapshotInWords == [i \in DOMAIN Pool |->
                      IF answer[Pool[i]] = "none" THEN "text" ELSE answer[Pool[i]]]

(* What there is for each source when the collecting thread looks.            *)
Snapshot == [i \in DOMAIN Pool |->
               IF answer[Pool[i]] = "none" THEN "timeout" ELSE answer[Pool[i]]]

\* Mutant: the collection waits for every call, however long.
ReturnWhenDone ==
  /\ collector = "waits" /\ \A i \in DOMAIN Pool : answer[Pool[i]] # "none"
  /\ shown' = Snapshot
  /\ collector' = "merges"
  /\ UNCHANGED <<setup, at, vendor, section, answer, permits, loggedIn, started>>

(* The collecting thread stops waiting when every call is over or the time    *)
(* allowed is up, and reports what is there; only then does it shut the pool  *)
(* down, so that a worker may still take a call whose answer nobody reads.    *)
Return ==
  /\ collector = "waits"
  /\ shown' = Snapshot
  /\ collector' = "merges"
  /\ UNCHANGED <<setup, at, vendor, section, answer, permits, loggedIn, started>>
Shutdown ==
  /\ collector = "merges"
  /\ collector' = "returned"
  /\ UNCHANGED <<setup, at, vendor, section, answer, permits, loggedIn, started, shown>>

LockStep(c) == TakeSched(c) \/ TakeTotal(c) \/ ReclaimAndRetry(c) \/ GiveUp(c)
CallStep(c) ==
  \/ Ask(c) \/ QuoteUnlocked(c) \/ EnterAkshare(c) \/ LockStep(c) \/ Register(c)
  \/ LeaveAkshare(c) \/ Login(c) \/ Query(c)
Next == StartCall \/ Return \/ Shutdown \/ \E c \in Calls : CallStep(c)
Spec == Init /\ [][Next]_vars

(* A timed wait ends, the collecting thread goes on.  Nothing is assumed of   *)
(* the vendors, who may keep a call for ever, nor of the pool's threads.      *)
FairSpec ==
  /\ Spec /\ WF_vars(Return) /\ WF_vars(Shutdown)
  /\ \A c \in Calls : WF_vars(LockStep(c))

-----------------------------------------------------------------------------
TypeOK ==
  /\ setup \in Setups
  /\ at \in [Calls -> {"queued", "next", "wantSched", "retrySched", "want", "retry",
                       "got", "in", "query", "over"}]
  /\ vendor \in [Calls -> DOMAIN Registry]
  /\ \A c \in Calls : vendor[c] \in VendorChain(Source(c))
  /\ section \in [Calls -> 1..2]
  /\ answer \in [Calls -> {"none"} \cup Answers]
  /\ free \in 0..Total /\ freeSched \in 0..SchedMax
  /\ holders \subseteq Calls
  /\ loggedIn \in BOOLEAN
  /\ started \in 0..Len(Pool) /\ collector \in {"waits", "merges", "returned"}
  /\ shown \in {<< >>} \cup [DOMAIN Pool -> {"timeout"} \cup Answers]

(* Permits are neither lost nor minted: whatever mixture of exits, timeouts   *)
(* and reclaims of zombies that leave later, every permit is free or belongs  *)
(* to one call, and a flagged call that has one also has a scheduled one      *)
(* (cn_akshare_provider.py _AkshareLock, 38-46: no double release).           *)
SlotsKept ==
  LET InTransit == {c \in Calls : at[c] = "got"}
      AtDoor == {c \in Calls : at[c] \in {"want", "retry", "got"}}
  IN /\ holders \subseteq {c \in Calls : at[c] = "in"}
     /\ free + Cardinality(InTransit \cup holders) = Total
     /\ freeSched + Cardinality({c \in AtDoor \cup holders : Flagged(c)}) = SchedMax

(* What a collection shows of a source is a time-out or what its call brought *)
(* then and for ever: a thread that answers after the time is up, a later     *)
(* vendor of its chain or a second section change nothing that was shown, and *)
(* no call that had not answered is taken for one (_fetch_all 302-312).       *)
ShownAsAnswered ==
  collector # "waits" =>
    \A i \in DOMAIN Pool : \/ shown[i] = "timeout"
                           \/ shown[i] \in Answers /\ shown[i] = answer[Pool[i]]

(* A vendor may keep a call for ever, with or without a permit, and still     *)
(* the collection returns, and nobody waits for a permit for ever             *)
(* (data_collector.py 38-41, _fetch_all; _acquire_or_reclaim).                *)
FetchSettles ==
  /\ <>(collector = "returned")
  /\ \A c \in Calls : Waits(c) ~> ~Waits(c)
=============================================================================
