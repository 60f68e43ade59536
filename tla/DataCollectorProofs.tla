------------------------- MODULE DataCollectorProofs -------------------------
(***************************************************************************)
(* What the shared collector guarantees for any number of jobs and keys:   *)
(* one fetch of a key at a time and none of a cached key, data that stays  *)
(* as long as a job with a reference needs it, and nothing left behind but *)
(* by threads that outlive their job and jobs that collect another key.    *)
(***************************************************************************)
EXTENDS DataCollector, FiniteSetTheorems, TLAPS

\* At most one thread is between the acquisition and the release of a lock.
Exclusive ==
    /\ \A i \in Jobs : thread[i] \in Critical => locked[Ticker(i)]
    /\ \A i, j \in Jobs :
         /\ thread[i] \in Critical /\ thread[j] \in Critical
         /\ Ticker(i) = Ticker(j)
         => i = j
    /\ \A i \in Jobs : thread[i] = "fetching" => Ticker(i) \notin cache

Holding == {"parsing", "collecting", "analysing"}
Holders(k) == {j \in Jobs : Symbol(j) = k /\ phase[j] \in Holding}
NoDryRun(k) == \A d \in Jobs : Symbol(d) = k => plan[d].mode # "dry"

\* The count of a key is the number of jobs that hold a reference on it, as
\* long as no dry run takes one away.
Counted ==
    \A k \in Keys : NoDryRun(k) => refs[k] = Cardinality(Holders(k))

-----------------------------------------------------------------------------
(* Types.                                                                  *)

\* What the plans range over.
LEMMA PlanFacts ==
    ASSUME TypeOK, NEW j \in Jobs
    PROVE /\ Symbol(j) \in Keys /\ Ticker(j) \in Keys
          /\ plan[j].mode \in Mode
BY DEF TypeOK, Plan, Symbol, Ticker

\* An eviction leaves every other key alone, and takes a key from the cache
\* only when its count was at most one.
LEMMA EvictFacts ==
    ASSUME TypeOK, NEW k \in Keys, Evict(k)
    PROVE /\ refs' \in [Keys -> Nat]
          /\ cache' \subseteq cache
          /\ locked' = locked
          /\ \A other \in Keys \ {k} :
               /\ refs'[other] = refs[other]
               /\ other \in cache => other \in cache'
          /\ refs[k] > 1 => refs'[k] = refs[k] - 1 /\ cache' = cache
          /\ refs[k] <= 1 => refs'[k] = 0
BY DEF TypeOK, Evict

\* Every step keeps the variables in their ranges.
LEMMA TypeStep == ASSUME TypeOK, [Next]_vars PROVE TypeOK'
<1>1. CASE UNCHANGED vars
  BY <1>1 DEF TypeOK, vars
<1>2. ASSUME NEW j \in Jobs, JobStep(j) PROVE TypeOK'
  <2> Symbol(j) \in Keys
    BY PlanFacts
  <2>1. CASE DryRun(j)
    BY <2>1, EvictFacts DEF DryRun, TypeOK
  <2>2. CASE Begin(j)
    BY <2>2 DEF Begin, Ref, TypeOK
  <2>3. CASE StartCollect(j)
    BY <2>3 DEF StartCollect, TypeOK, ThreadStates, Active
  <2>4. CASE Collected(j)
    BY <2>4 DEF Collected, TypeOK, ThreadStates
  <2>5. CASE Finish(j)
    BY <2>5, EvictFacts DEF Finish, TypeOK
  <2>6. CASE CutOff(j)
    BY <2>6, EvictFacts DEF CutOff, TypeOK, ThreadStates
  <2> QED  BY <1>2, <2>1, <2>2, <2>3, <2>4, <2>5, <2>6 DEF JobStep
<1>3. ASSUME NEW j \in Jobs, ThreadStep(j) PROVE TypeOK'
  <2> Ticker(j) \in Keys
    BY PlanFacts
  <2> USE DEF TypeOK, ThreadStates, Active, Critical, ThreadMoves, Release
  <2>1. CASE ThreadBegins(j)
    BY <2>1 DEF ThreadBegins
  <2>2. CASE Acquire(j)
    BY <2>2 DEF Acquire
  <2>3. CASE LockTimesOut(j)
    BY <2>3 DEF LockTimesOut
  <2>4. CASE Check(j)
    BY <2>4 DEF Check
  <2>5. CASE Fetched(j)
    BY <2>5 DEF Fetched
  <2>6. CASE FetchRaises(j)
    BY <2>6 DEF FetchRaises
  <2>7. CASE Return(j)
    BY <2>7 DEF Return
  <2> QED  BY <1>3, <2>1, <2>2, <2>3, <2>4, <2>5, <2>6, <2>7 DEF ThreadStep
<1> QED  BY <1>1, <1>2, <1>3 DEF Next

\* The initial state has the types.
LEMMA TypeInit == ASSUME Init PROVE TypeOK
BY DEF Init, TypeOK, ThreadStates

\* Every variable of the collector and its users stays in its range.
THEOREM TypeCorrect == Spec => []TypeOK
<1>1. Init => TypeOK
  BY TypeInit
<1>2. TypeOK /\ [Next]_vars => TypeOK'
  BY TypeStep
<1> QED  BY <1>1, <1>2, PTL DEF Spec

-----------------------------------------------------------------------------
(* The lock of a key.                                                      *)

LEMMA ExclusiveStep ==
    ASSUME TypeOK, Exclusive, [Next]_vars
    PROVE Exclusive'
<1> USE DEF Exclusive, Ticker
<1>1. CASE UNCHANGED vars
  BY <1>1 DEF vars
<1>2. ASSUME NEW j \in Jobs, JobStep(j) PROVE Exclusive'
  <2>1. /\ plan' = plan /\ locked' = locked /\ cache' \subseteq cache
        /\ \A i \in Jobs : thread'[i] \in Critical => thread'[i] = thread[i]
    <3> Symbol(j) \in Keys
      BY PlanFacts
    <3> USE DEF TypeOK, Critical
    <3>1. CASE DryRun(j)
      BY <3>1, EvictFacts DEF DryRun
    <3>2. CASE Begin(j)
      BY <3>2 DEF Begin
    <3>3. CASE StartCollect(j)
      BY <3>3 DEF StartCollect
    <3>4. CASE Collected(j)
      BY <3>4 DEF Collected
    <3>5. CASE Finish(j)
      BY <3>5, EvictFacts DEF Finish
    <3>6. CASE CutOff(j)
      BY <3>6, EvictFacts DEF CutOff
    <3> QED  BY <1>2, <3>1, <3>2, <3>3, <3>4, <3>5, <3>6 DEF JobStep
  <2> QED  BY <2>1 DEF Critical
<1>3. ASSUME NEW j \in Jobs, ThreadStep(j) PROVE Exclusive'
  <2> USE DEF TypeOK, Critical, ThreadMoves, Release
  <2> Ticker(j) \in Keys
    BY PlanFacts
  <2>1. CASE ThreadBegins(j)
    BY <2>1 DEF ThreadBegins
  <2>2. CASE Acquire(j)
    BY <2>2 DEF Acquire
  <2>3. CASE LockTimesOut(j)
    BY <2>3 DEF LockTimesOut
  <2>4. CASE Check(j)
    BY <2>4 DEF Check
  <2>5. CASE Fetched(j)
    BY <2>5 DEF Fetched
  <2>6. CASE FetchRaises(j)
    BY <2>6 DEF FetchRaises
  <2>7. CASE Return(j)
    BY <2>7 DEF Return
  <2> QED  BY <1>3, <2>1, <2>2, <2>3, <2>4, <2>5, <2>6, <2>7 DEF ThreadStep
<1> QED  BY <1>1, <1>2, <1>3 DEF Next

\* No key is fetched by two threads at a time, and no cached key is fetched.
THEOREM OneFetchPerKey == Spec => []FetchedOnce
<1>1. Init => TypeOK /\ Exclusive
  BY TypeInit DEF Init, Exclusive, Critical
<1>2. TypeOK /\ Exclusive /\ [Next]_vars => (TypeOK /\ Exclusive)'
  BY TypeStep, ExclusiveStep
<1>3. Exclusive => FetchedOnce
  BY DEF Exclusive, FetchedOnce, Critical
<1> QED  BY <1>1, <1>2, <1>3, PTL DEF Spec

-----------------------------------------------------------------------------
(* The reference counts.                                                   *)

\* The holders of a key are finitely many, and which they are.
LEMMA HoldersFacts ==
    ASSUME NEW k \in Keys
    PROVE /\ IsFiniteSet(Holders(k))
          /\ Cardinality(Holders(k)) \in Nat
          /\ \A j \in Holders(k) : Cardinality(Holders(k) \ {j})
                                     = Cardinality(Holders(k)) - 1
          /\ \A j \in Jobs \ Holders(k) : Cardinality(Holders(k) \cup {j})
                                            = Cardinality(Holders(k)) + 1
          /\ Holders(k) # {} => Cardinality(Holders(k)) >= 1
<1>1. IsFiniteSet(Holders(k))
  BY JobsAssumption, FS_Subset DEF Holders
<1>2. Cardinality(Holders(k)) \in Nat
  BY <1>1, FS_CardinalityType
<1>3. \A j \in Holders(k) :
        Cardinality(Holders(k) \ {j}) = Cardinality(Holders(k)) - 1
  BY <1>1, FS_RemoveElement
<1>4. \A j \in Jobs \ Holders(k) :
        Cardinality(Holders(k) \cup {j}) = Cardinality(Holders(k)) + 1
  BY <1>1, FS_AddElement
<1>5. Holders(k) # {} => Cardinality(Holders(k)) >= 1
  BY <1>1, <1>2, FS_EmptySet
<1> QED  BY <1>1, <1>2, <1>3, <1>4, <1>5

\* A job that holds a reference gives it back: the count stays exact, and the
\* data stays while another one holds a reference.
LEMMA EvictBalances ==
    ASSUME TypeOK, Counted, NEW j \in Jobs, phase[j] \in Holding,
           phase' = [phase EXCEPT ![j] = "over"], plan' = plan,
           NEW own \in Keys, own = Symbol(j), Evict(own)
    PROVE /\ Counted'
          /\ \A i \in Jobs \ {j}, k \in Keys :
               /\ NoDryRun(k) /\ phase[i] \in Holding /\ Symbol(i) = k
               /\ k \in cache
               => k \in cache'
<1>1. \A k \in Keys : NoDryRun(k)' <=> NoDryRun(k)
  BY DEF NoDryRun, Symbol
<1>2. Holders(own)' = Holders(own) \ {j} /\ j \in Holders(own)
  BY DEF Holders, Holding, Symbol, TypeOK
<1>3. \A k \in Keys \ {own} : Holders(k)' = Holders(k)
  BY DEF Holders, Holding, Symbol, TypeOK
<1>4. NoDryRun(own) => refs'[own] = Cardinality(Holders(own)')
  <2>1. SUFFICES ASSUME NoDryRun(own)
                 PROVE refs'[own] = Cardinality(Holders(own)')
    OBVIOUS
  <2>2. refs[own] = Cardinality(Holders(own)) /\ refs[own] >= 1
    BY <1>2, <2>1, HoldersFacts DEF Counted
  <2>3. Cardinality(Holders(own)') = refs[own] - 1
    BY <1>2, <2>2, HoldersFacts
  <2>4. refs[own] \in Nat
    BY DEF TypeOK
  <2> QED  BY <2>2, <2>3, <2>4, EvictFacts
<1>5. \A k \in Keys \ {own} : NoDryRun(k) => refs'[k] = Cardinality(Holders(k)')
  BY <1>3, EvictFacts DEF Counted
<1>6. Counted'
  <2>1. SUFFICES ASSUME NEW k \in Keys, NoDryRun(k)'
                 PROVE refs'[k] = Cardinality(Holders(k)')
    BY DEF Counted
  <2>2. NoDryRun(k)
    BY <1>1, <2>1
  <2> QED  BY <1>4, <1>5, <2>2
<1>7. ASSUME NEW i \in Jobs \ {j}, NoDryRun(own), phase[i] \in Holding,
             Symbol(i) = own, own \in cache
      PROVE own \in cache'
  <2>1. i \in Holders(own) \ {j}
    BY <1>7 DEF Holders
  <2>2. Cardinality(Holders(own)') \in Nat /\ Cardinality(Holders(own)') >= 1
    <3>1. IsFiniteSet(Holders(own) \ {j})
      BY HoldersFacts, FS_RemoveElement
    <3>2. Cardinality(Holders(own) \ {j}) \in Nat
      BY <3>1, FS_CardinalityType
    <3>3. Cardinality(Holders(own) \ {j}) # 0
      BY <2>1, <3>1, FS_EmptySet
    <3> QED  BY <1>2, <3>2, <3>3
  <2>3. refs[own] = Cardinality(Holders(own)')  + 1
    <3>1. refs[own] = Cardinality(Holders(own))
      BY <1>7 DEF Counted
    <3>2. Cardinality(Holders(own)') = Cardinality(Holders(own)) - 1
      BY <1>2, HoldersFacts
    <3>3. refs[own] \in Nat
      BY DEF TypeOK
    <3> QED  BY <3>1, <3>2, <3>3
  <2>4. refs[own] > 1
    BY <2>2, <2>3 DEF TypeOK
  <2> QED  BY <1>7, <2>4, EvictFacts
<1> QED  BY <1>6, <1>7, EvictFacts

\* A step that neither begins nor ends a job keeps the holders and the counts.
LEMMA SameHolders ==
    ASSUME TypeOK, Counted, plan' = plan, refs' = refs,
           \A j \in Jobs : phase'[j] \in Holding <=> phase[j] \in Holding
    PROVE Counted'
<1>1. \A k \in Keys : (NoDryRun(k)' <=> NoDryRun(k)) /\ Holders(k)' = Holders(k)
  BY DEF NoDryRun, Holders, Symbol
<1> QED  BY <1>1 DEF Counted

\* Only the last holder of a key takes its data away.
LEMMA KeptStep ==
    ASSUME TypeOK, Counted, KeptWhileNeeded, [Next]_vars
    PROVE Counted' /\ KeptWhileNeeded'
<1> USE DEF KeptWhileNeeded, Needs
<1>1. CASE UNCHANGED vars
  <2>1. Counted'
    BY <1>1, SameHolders DEF vars
  <2>2. KeptWhileNeeded'
    BY <1>1 DEF vars, Symbol, Ticker
  <2> QED  BY <2>1, <2>2
<1>2. ASSUME NEW j \in Jobs, NEW own \in Keys, own = Symbol(j),
             phase[j] \in Holding,
             phase' = [phase EXCEPT ![j] = "over"], plan' = plan, Evict(own),
             \A i \in Jobs \ {j} : thread'[i] = thread[i]
      PROVE Counted' /\ KeptWhileNeeded'
  <2>1. /\ Counted'
        /\ \A i \in Jobs \ {j}, k \in Keys :
             /\ NoDryRun(k) /\ phase[i] \in Holding /\ Symbol(i) = k
             /\ k \in cache
             => k \in cache'
    BY <1>2, EvictBalances
  <2>2. phase'[j] = "over" /\ \A i \in Jobs \ {j} : phase'[i] = phase[i]
    BY <1>2 DEF TypeOK
  <2>3. ASSUME NEW i \in Jobs, NEW k \in Keys, Needs(i, k)',
               \A d \in Jobs : Symbol(d)' = k => plan'[d].mode # "dry"
        PROVE k \in cache'
    <3>1. i # j
      BY <2>2, <2>3
    <3>2. Needs(i, k) /\ NoDryRun(k) /\ phase[i] \in Holding /\ Symbol(i) = k
      BY <1>2, <2>2, <2>3, <3>1 DEF NoDryRun, Symbol, Ticker, Holding
    <3>3. k \in cache
      BY <3>2 DEF NoDryRun
    <3> QED  BY <2>1, <3>1, <3>2, <3>3
  <2> QED  BY <2>1, <2>3
<1>3. ASSUME NEW j \in Jobs, JobStep(j) PROVE Counted' /\ KeptWhileNeeded'
  <2>0. Symbol(j) \in Keys
    BY PlanFacts
  <2>1. CASE DryRun(j)
    <3>1. /\ ~NoDryRun(Symbol(j))
          /\ phase[j] = "idle" /\ phase' = [phase EXCEPT ![j] = "over"]
          /\ plan' = plan /\ thread' = thread
      BY <2>1 DEF DryRun, NoDryRun
    <3>2. \A k \in Keys \ {Symbol(j)} :
            refs'[k] = refs[k] /\ (k \in cache => k \in cache')
      BY <2>0, <2>1, EvictFacts DEF DryRun
    <3>3. \A k \in Keys : (NoDryRun(k)' <=> NoDryRun(k))
                            /\ Holders(k)' = Holders(k)
      BY <3>1 DEF NoDryRun, Holders, Holding, Symbol, TypeOK
    <3>4. Counted'
      <4>1. SUFFICES ASSUME NEW k \in Keys, NoDryRun(k)
                     PROVE refs'[k] = Cardinality(Holders(k))
        BY <3>3 DEF Counted
      <4>2. k # Symbol(j)
        BY <3>1, <4>1
      <4> QED  BY <3>2, <4>1, <4>2 DEF Counted
    <3>5. ASSUME NEW i \in Jobs, NEW k \in Keys, Needs(i, k)',
                 \A d \in Jobs : Symbol(d)' = k => plan'[d].mode # "dry"
          PROVE k \in cache'
      <4>1. NoDryRun(k) /\ k # Symbol(j)
        BY <3>1, <3>5 DEF NoDryRun, Symbol
      <4>2. Needs(i, k)
        BY <3>1, <3>5 DEF Symbol, Ticker, TypeOK
      <4> QED  BY <3>2, <4>1, <4>2 DEF NoDryRun
    <3> QED  BY <3>4, <3>5
  <2>2. CASE Begin(j)
    <3>1. /\ plan' = plan /\ thread' = thread /\ cache' = cache
          /\ phase[j] = "idle" /\ plan[j].mode # "dry"
          /\ phase'[j] \in {"analysing", "parsing"}
          /\ phase'[j] = "analysing" => plan[j].mode = "stream"
          /\ \A i \in Jobs \ {j} : phase'[i] = phase[i]
      BY <2>2 DEF Begin, TypeOK
    <3>2. \A k \in Keys : NoDryRun(k)' <=> NoDryRun(k)
      BY <3>1 DEF NoDryRun, Symbol
    <3>3. \A k \in Keys :
            /\ Holders(k)' = IF k = Symbol(j) THEN Holders(k) \cup {j}
                              ELSE Holders(k)
            /\ j \notin Holders(k)
      BY <3>1 DEF Holders, Holding, Symbol
    <3>4. \A k \in Keys :
            refs'[k] = IF k = Symbol(j) THEN refs[k] + 1 ELSE refs[k]
      BY <2>2 DEF Begin, Ref, TypeOK
    <3>5. Counted'
      BY <3>2, <3>3, <3>4, HoldersFacts DEF Counted
    <3>6. KeptWhileNeeded'
      BY <3>1 DEF Symbol, Ticker
    <3> QED  BY <3>5, <3>6
  <2>3. CASE StartCollect(j)
    <3>1. Counted'
      BY <2>3, SameHolders DEF StartCollect, Holding, TypeOK
    <3>2. KeptWhileNeeded'
      BY <2>3 DEF StartCollect, Symbol, Ticker, TypeOK
    <3> QED  BY <3>1, <3>2
  <2>4. CASE Collected(j)
    <3>1. Counted'
      BY <2>4, SameHolders DEF Collected, Holding, TypeOK
    <3>2. KeptWhileNeeded'
      BY <2>4 DEF Collected, Symbol, Ticker, TypeOK
    <3> QED  BY <3>1, <3>2
  <2>5. CASE Finish(j)
    BY <1>2, <2>0, <2>5 DEF Finish, Holding
  <2>6. CASE CutOff(j)
    BY <1>2, <2>0, <2>6 DEF CutOff, Holding, TypeOK
  <2> QED  BY <1>3, <2>1, <2>2, <2>3, <2>4, <2>5, <2>6 DEF JobStep
<1>4. ASSUME NEW j \in Jobs, ThreadStep(j) PROVE Counted' /\ KeptWhileNeeded'
  <2> USE DEF TypeOK, ThreadMoves, Release, Symbol, Ticker
  <2>1. plan' = plan /\ phase' = phase /\ refs' = refs /\ cache \subseteq cache'
    BY <1>4 DEF ThreadStep, ThreadBegins, Acquire, LockTimesOut, Check,
        Fetched, FetchRaises, Return
  <2>2. Counted'
    BY <2>1, SameHolders
  <2>3. \A i \in Jobs : thread'[i] \in {"reading", "done"} =>
          thread'[i] = thread[i] \/ thread[i] = "reading" \/ Ticker(i) \in cache'
    BY <1>4 DEF ThreadStep, ThreadBegins, Acquire, LockTimesOut, Check,
        Fetched, FetchRaises, Return
  <2>4. KeptWhileNeeded'
    BY <2>1, <2>3
  <2> QED  BY <2>2, <2>4
<1> QED  BY <1>1, <1>3, <1>4 DEF Next

\* Data is not evicted while a job with a reference needs it.
THEOREM DataKept == Spec => []KeptWhileNeeded
<1>1. Init => TypeOK /\ Counted /\ KeptWhileNeeded
  <2> SUFFICES ASSUME Init PROVE TypeOK /\ Counted /\ KeptWhileNeeded
    OBVIOUS
  <2>1. TypeOK
    BY TypeInit
  <2>2. \A k \in Keys : Holders(k) = {} /\ refs[k] = 0
    BY DEF Init, Holders, Holding
  <2>3. Counted
    BY <2>2, FS_EmptySet DEF Counted
  <2>4. KeptWhileNeeded
    BY DEF Init, KeptWhileNeeded, Needs
  <2> QED  BY <2>1, <2>3, <2>4
<1>2. TypeOK /\ Counted /\ KeptWhileNeeded /\ [Next]_vars
        => (TypeOK /\ Counted /\ KeptWhileNeeded)'
  BY TypeStep, KeptStep
<1> QED  BY <1>1, <1>2, PTL DEF Spec
-----------------------------------------------------------------------------
(* What is left in the end.                                                *)

\* A lock is held by a thread.
HeldByThread ==
    /\ \A k \in Keys : locked[k] =>
          \E i \in Jobs : Ticker(i) = k /\ thread[i] \in Critical
    /\ \A i \in Jobs : phase[i] \in {"idle", "parsing"} => thread[i] = "none"

\* No count is above the number of holders: a dry run takes one that is not its
\* own, an eviction at zero leaves zero.
Bounded == \A k \in Keys : refs[k] <= Cardinality(Holders(k))

\* Data is cached for somebody: a holder, who will evict; a thread that is
\* about to return it or has done so; or a job that evicts another key.
Accounted ==
    \A k \in cache :
       \/ Holders(k) # {}
       \/ \E j \in Jobs : /\ Ticker(j) = k
                          /\ thread[j] \in {"reading", "done"} \/ Symbol(j) # k

\* Only a thread inside takes the lock, and it gives it back when it leaves.
LEMMA HeldStep ==
    ASSUME TypeOK, Exclusive, HeldByThread, [Next]_vars
    PROVE HeldByThread'
<1> USE DEF HeldByThread, Ticker
<1>1. CASE UNCHANGED vars
  BY <1>1 DEF vars
<1>2. ASSUME NEW j \in Jobs, JobStep(j) PROVE HeldByThread'
  <2> Symbol(j) \in Keys
    BY PlanFacts
  <2>1. /\ plan' = plan /\ locked' = locked
        /\ \A i \in Jobs : thread[i] \in Critical => thread'[i] = thread[i]
        /\ \A i \in Jobs \ {j} : phase'[i] = phase[i] /\ thread'[i] = thread[i]
        /\ phase'[j] \in {"idle", "parsing"} => thread'[j] = "none"
    <3> USE DEF TypeOK, Critical
    <3>1. CASE DryRun(j)
      BY <3>1, EvictFacts DEF DryRun
    <3>2. CASE Begin(j)
      BY <3>2 DEF Begin
    <3>3. CASE StartCollect(j)
      BY <3>3 DEF StartCollect
    <3>4. CASE Collected(j)
      BY <3>4 DEF Collected
    <3>5. CASE Finish(j)
      BY <3>5, EvictFacts DEF Finish
    <3>6. CASE CutOff(j)
      BY <3>6, EvictFacts DEF CutOff
    <3> QED  BY <1>2, <3>1, <3>2, <3>3, <3>4, <3>5, <3>6 DEF JobStep
  <2>2. ASSUME NEW k \in Keys, locked'[k]
        PROVE \E i \in Jobs : plan'[i].ticker = k /\ thread'[i] \in Critical
    <3>1. PICK i \in Jobs : plan[i].ticker = k /\ thread[i] \in Critical
      BY <2>1, <2>2
    <3> QED  BY <2>1, <3>1
  <2> QED  BY <2>1, <2>2
<1>3. ASSUME NEW j \in Jobs, ThreadStep(j) PROVE HeldByThread'
  <2> USE DEF TypeOK, Critical, ThreadMoves, Release
  <2> Ticker(j) \in Keys
    BY PlanFacts
  <2>1. /\ plan' = plan /\ phase' = phase /\ thread[j] # "none"
        /\ \A i \in Jobs \ {j} : thread'[i] = thread[i]
        /\ \A k \in Keys \ {Ticker(j)} : locked'[k] = locked[k]
        /\ locked'[Ticker(j)] =>
             \/ thread'[j] \in Critical
             \/ thread[j] \notin Critical /\ locked[Ticker(j)]
    BY <1>3 DEF Exclusive, ThreadStep, ThreadBegins, Acquire, LockTimesOut,
       Check, Fetched, FetchRaises, Return
  <2>2. ASSUME NEW k \in Keys, locked'[k]
        PROVE \E i \in Jobs : plan'[i].ticker = k /\ thread'[i] \in Critical
    <3>1. CASE k = Ticker(j) /\ thread'[j] \in Critical
      BY <2>1, <3>1
    <3>2. CASE ~(k = Ticker(j) /\ thread'[j] \in Critical)
      <4>1. locked[k] /\ (k = Ticker(j) => thread[j] \notin Critical)
        BY <2>1, <2>2, <3>2
      <4>2. PICK i \in Jobs : plan[i].ticker = k /\ thread[i] \in Critical
        BY <4>1
      <4>3. i # j
        BY <4>1, <4>2
      <4> QED  BY <2>1, <4>2, <4>3
    <3> QED  BY <3>1, <3>2
  <2> QED  BY <2>1, <2>2
<1> QED  BY <1>1, <1>2, <1>3 DEF Next

\* The ends of a job.
Leaves(j) ==
    /\ phase[j] \in Holding /\ phase' = [phase EXCEPT ![j] = "over"]
    /\ plan' = plan /\ Evict(Symbol(j))

\* A holder who leaves takes at most what it brought, and the data with it
\* unless another holder stays.
LEMMA LeaveStep ==
    ASSUME TypeOK, Bounded, NEW j \in Jobs, Leaves(j)
    PROVE /\ Bounded'
          /\ \A k \in Keys : k \in cache' => k \in cache
                /\ (Holders(k) # {} => Holders(k)' # {})
<1>0. PICK own \in Keys : own = Symbol(j)
  BY PlanFacts
<1>1. Holders(own)' = Holders(own) \ {j} /\ j \in Holders(own)
  BY <1>0 DEF Leaves, Holders, Holding, Symbol, TypeOK
<1>2. \A k \in Keys \ {own} : Holders(k)' = Holders(k)
  BY <1>0 DEF Leaves, Holders, Holding, Symbol, TypeOK
<1>3. Evict(own)
  BY <1>0 DEF Leaves
<1>4. PICK n \in Nat : n = Cardinality(Holders(own))
  BY HoldersFacts
<1>5. n >= 1 /\ Cardinality(Holders(own)') = n - 1
  BY <1>1, <1>4, HoldersFacts
<1>6. refs[own] \in Nat /\ refs[own] <= n
  BY <1>4 DEF TypeOK, Bounded
<1>7. refs'[own] <= Cardinality(Holders(own)')
  BY <1>3, <1>5, <1>6, EvictFacts
<1>8. \A k \in Keys \ {own} : refs'[k] = refs[k] /\ (k \in cache' => k \in cache)
  BY <1>3, EvictFacts
<1>9. own \in cache' => own \in cache /\ Holders(own)' # {}
  <2>1. ASSUME own \in cache' PROVE own \in cache /\ refs[own] > 1
    BY <1>3, <1>6, <2>1 DEF Evict
  <2>2. ASSUME refs[own] > 1 PROVE Holders(own)' # {}
    <3>1. n - 1 # 0
      BY <1>6, <2>2
    <3> QED  BY <1>5, <3>1, FS_EmptySet
  <2> QED  BY <2>1, <2>2
<1>10. \A k \in Keys : refs'[k] <= Cardinality(Holders(k)')
  BY <1>2, <1>7, <1>8 DEF Bounded
<1>11. Bounded'
  BY <1>10 DEF Bounded
<1> QED
  BY <1>2, <1>8, <1>9, <1>11

\* Every step keeps the counts bounded and the cached data accounted for.
LEMMA LeftStep ==
    ASSUME TypeOK, Bounded, Accounted, [Next]_vars
    PROVE Bounded' /\ Accounted'
<1>0. cache \subseteq Keys
  BY DEF TypeOK
<1>1. ASSUME plan' = plan, refs' = refs,
             \A j \in Jobs : phase'[j] \in Holding <=> phase[j] \in Holding
      PROVE Bounded' /\ \A k \in Keys : Holders(k)' = Holders(k)
  <2>1. \A k \in Keys : Holders(k)' = Holders(k)
    BY <1>1 DEF Holders, Symbol
  <2> QED  BY <1>1, <2>1 DEF Bounded
<1>2. ASSUME plan' = plan, cache' \subseteq cache,
             \A k \in cache' : Holders(k) # {} => Holders(k)' # {},
             \A i \in Jobs, k \in cache' :
                Ticker(i) = k /\ thread[i] \in {"reading", "done"} =>
                   \/ thread'[i] \in {"reading", "done"}
                   \/ Symbol(i) # k \/ Holders(k)' # {}
      PROVE Accounted'
  <2>1. ASSUME NEW k \in cache', Holders(k)' = {}
        PROVE \E i \in Jobs : /\ plan'[i].ticker = k
                              /\ \/ thread'[i] \in {"reading", "done"}
                                 \/ plan'[i].symbol # k
    <3>1. PICK i \in Jobs : /\ Ticker(i) = k
                            /\ thread[i] \in {"reading", "done"} \/ Symbol(i) # k
      BY <1>2, <2>1 DEF Accounted
    <3>2. thread'[i] \in {"reading", "done"} \/ Symbol(i) # k
      BY <1>2, <2>1, <3>1
    <3> QED  BY <1>2, <3>1, <3>2 DEF Symbol, Ticker
  <2> QED  BY <2>1 DEF Accounted, Symbol, Ticker
<1>3. CASE UNCHANGED vars
  <2>1. Bounded' /\ \A k \in Keys : Holders(k)' = Holders(k)
    BY <1>1, <1>3 DEF vars
  <2> QED  BY <1>0, <1>2, <1>3, <2>1 DEF vars
<1>4. ASSUME NEW j \in Jobs, JobStep(j) PROVE Bounded' /\ Accounted'
  <2>0. Symbol(j) \in Keys
    BY PlanFacts
  <2>1. CASE DryRun(j)
    <3>1. plan' = plan /\ thread' = thread /\ cache' \subseteq cache
      BY <2>0, <2>1, EvictFacts DEF DryRun
    <3>2. \A k \in Keys : Holders(k)' = Holders(k)
      BY <2>1 DEF DryRun, Holders, Holding, Symbol, TypeOK
    <3>3. \A k \in Keys : refs'[k] <= refs[k]
      <4>1. refs'[Symbol(j)] <= refs[Symbol(j)]
        BY <2>0, <2>1, EvictFacts DEF DryRun, TypeOK
      <4>2. \A k \in Keys \ {Symbol(j)} : refs'[k] = refs[k] /\ refs[k] \in Nat
        BY <2>0, <2>1, EvictFacts DEF DryRun, TypeOK
      <4> QED  BY <4>1, <4>2
    <3>4. Bounded'
      <4>1. ASSUME NEW k \in Keys PROVE refs'[k] <= Cardinality(Holders(k)')
        <5>1. refs'[k] \in Nat /\ refs[k] \in Nat
          BY <2>0, <2>1, EvictFacts DEF DryRun, TypeOK
        <5>2. Cardinality(Holders(k)) \in Nat
          BY HoldersFacts
        <5>3. refs[k] <= Cardinality(Holders(k)) /\ Holders(k)' = Holders(k)
          BY <3>2 DEF Bounded
        <5> QED  BY <3>3, <5>1, <5>2, <5>3
      <4> QED  BY <4>1 DEF Bounded
    <3> QED  BY <1>0, <1>2, <3>1, <3>2, <3>4
  <2>2. CASE Begin(j)
    <3>1. \A k \in Keys :
            /\ Holders(k)' = IF k = Symbol(j) THEN Holders(k) \cup {j}
                             ELSE Holders(k)
            /\ j \notin Holders(k)
      BY <2>2 DEF Begin, Holders, Holding, Symbol, TypeOK
    <3>2. \A k \in Keys :
            refs'[k] = IF k = Symbol(j) THEN refs[k] + 1 ELSE refs[k]
      BY <2>2 DEF Begin, Ref, TypeOK
    <3>3. Bounded'
      <4>1. ASSUME NEW k \in Keys PROVE refs'[k] <= Cardinality(Holders(k)')
        <5>1. refs[k] \in Nat /\ refs[k] <= Cardinality(Holders(k))
          BY DEF TypeOK, Bounded
        <5>2. /\ Cardinality(Holders(k)) \in Nat
              /\ Cardinality(Holders(k) \cup {j}) = Cardinality(Holders(k)) + 1
          BY <3>1, HoldersFacts
        <5> DEFINE n == Cardinality(Holders(k))
        <5>3. CASE k = Symbol(j)
          <6>1. Cardinality(Holders(k)') = n + 1 /\ refs'[k] = refs[k] + 1
            BY <3>1, <3>2, <5>2, <5>3
          <6> QED  BY <5>1, <5>2, <6>1
        <5>4. CASE k # Symbol(j)
          BY <3>1, <3>2, <5>1, <5>4
        <5> QED  BY <5>3, <5>4
      <4> QED  BY <4>1 DEF Bounded
    <3>4. plan' = plan /\ thread' = thread /\ cache' = cache
      BY <2>2 DEF Begin
    <3>5. \A k \in Keys : Holders(k) # {} => Holders(k)' # {}
      BY <3>1
    <3> QED  BY <1>0, <1>2, <3>3, <3>4, <3>5
  <2>3. CASE StartCollect(j) \/ Collected(j)
    <3>1. /\ plan' = plan /\ refs' = refs /\ cache' = cache
          /\ \A i \in Jobs : phase'[i] \in Holding <=> phase[i] \in Holding
          /\ \A i \in Jobs \ {j} : thread'[i] = thread[i]
          /\ phase'[j] \in Holding
      BY <2>3 DEF StartCollect, Collected, Holding, TypeOK
    <3>2. Bounded' /\ \A k \in Keys : Holders(k)' = Holders(k)
      BY <1>1, <3>1
    <3>3. \A k : Symbol(j) = k => Holders(k)' # {}
      BY <3>1 DEF Holders, Symbol
    <3> QED  BY <1>0, <1>2, <3>1, <3>2, <3>3
  <2>4. CASE Finish(j) \/ CutOff(j)
    <3>1. /\ Leaves(j)
          /\ \A i \in Jobs : thread[i] \in {"reading", "done"} =>
                               thread'[i] = thread[i]
      BY <2>4 DEF Finish, CutOff, Leaves, Holding, TypeOK
    <3>2. /\ Bounded'
          /\ \A k \in Keys : k \in cache' => k \in cache
                /\ (Holders(k) # {} => Holders(k)' # {})
      BY <3>1, LeaveStep
    <3>3. cache' \subseteq cache /\ plan' = plan
      BY <2>0, <3>1, EvictFacts DEF Leaves
    <3> QED  BY <1>0, <1>2, <3>1, <3>2, <3>3
  <2> QED  BY <1>4, <2>1, <2>2, <2>3, <2>4 DEF JobStep
<1>5. ASSUME NEW j \in Jobs, ThreadStep(j) PROVE Bounded' /\ Accounted'
  <2>1. /\ plan' = plan /\ phase' = phase /\ refs' = refs
        /\ \A i \in Jobs \ {j} : thread'[i] = thread[i]
    BY <1>5 DEF ThreadStep, ThreadBegins, Acquire, LockTimesOut, Check,
       Fetched, FetchRaises, Return, ThreadMoves, TypeOK
  <2>2. Bounded' /\ \A k \in Keys : Holders(k)' = Holders(k)
    BY <1>1, <2>1
  <2>3. CASE Fetched(j)
    <3>1. cache' = cache \cup {Ticker(j)} /\ thread'[j] = "reading"
      BY <2>3 DEF Fetched, ThreadMoves, TypeOK
    <3>2. \A i \in Jobs : thread[i] \in {"reading", "done"} =>
                           thread'[i] \in {"reading", "done"}
      BY <2>1, <3>1
    <3>3. ASSUME NEW k \in cache', Holders(k)' = {}
          PROVE \E i \in Jobs : /\ plan'[i].ticker = k
                                /\ \/ thread'[i] \in {"reading", "done"}
                                   \/ plan'[i].symbol # k
      <4>1. CASE k = Ticker(j)
        BY <2>1, <3>1, <4>1 DEF Ticker
      <4>2. CASE k # Ticker(j)
        <5>1. k \in cache /\ Holders(k) = {}
          BY <1>0, <2>2, <3>1, <3>3, <4>2
        <5> QED  BY <2>1, <3>2, <5>1 DEF Accounted, Ticker, Symbol
      <4> QED  BY <4>1, <4>2
    <3>4. Accounted'
      BY <3>3 DEF Accounted, Symbol, Ticker
    <3> QED  BY <2>2, <3>4
  <2>4. CASE ~Fetched(j)
    <3>1. /\ cache' = cache
          /\ thread[j] \in {"reading", "done"} =>
                thread'[j] \in {"reading", "done"} \/ Ticker(j) \notin cache'
      BY <1>5, <2>4 DEF ThreadStep, ThreadBegins, Acquire, LockTimesOut, Check,
         FetchRaises, Return, ThreadMoves, TypeOK
    <3> QED  BY <1>0, <1>2, <2>1, <2>2, <3>1
  <2> QED  BY <2>3, <2>4
<1> QED  BY <1>3, <1>4, <1>5 DEF Next

\* Once every job is over and every thread has ended, no count and no lock is
\* left, and data only where a thread outlived its job or a job collected
\* another ticker than its symbol.
THEOREM NothingElseLeft == Spec => []OnlyStraysLeft
<1> DEFINE Inv == TypeOK /\ Exclusive /\ HeldByThread /\ Bounded /\ Accounted
<1>1. Init => Inv
  <2> SUFFICES ASSUME Init PROVE Inv
    OBVIOUS
  <2>1. TypeOK
    BY TypeInit
  <2>2. \A k \in Keys : Holders(k) = {} /\ refs[k] = 0
    BY DEF Init, Holders, Holding
  <2>3. Bounded
    BY <2>2, FS_EmptySet DEF Bounded
  <2>4. Exclusive /\ HeldByThread /\ Accounted
    BY DEF Init, Exclusive, Critical, HeldByThread, Accounted
  <2> QED  BY <2>1, <2>3, <2>4
<1>2. Inv /\ [Next]_vars => Inv'
  BY TypeStep, ExclusiveStep, HeldStep, LeftStep
<1>3. Inv => OnlyStraysLeft
  <2> SUFFICES ASSUME Inv,
                      \A j \in Jobs : phase[j] = "over" /\ thread[j] \notin Active
               PROVE /\ \A k \in Keys : refs[k] = 0 /\ ~locked[k]
                     /\ \A k \in cache : \E j \in Jobs :
                          Ticker(j) = k /\ (thread[j] = "done" \/ Symbol(j) # k)
    BY DEF OnlyStraysLeft
  <2>1. \A k \in Keys : Holders(k) = {}
    BY DEF Holders, Holding
  <2>2. \A k \in Keys : refs[k] = 0
    BY <2>1, FS_EmptySet DEF Bounded, TypeOK
  <2>3. \A k \in Keys : ~locked[k]
    BY DEF HeldByThread, Active
  <2>4. \A k \in cache : \E j \in Jobs :
             Ticker(j) = k /\ (thread[j] = "done" \/ Symbol(j) # k)
    BY <2>1 DEF Accounted, TypeOK, Active, Critical
  <2> QED  BY <2>2, <2>3, <2>4
<1> QED  BY <1>1, <1>2, <1>3, PTL DEF Spec
=============================================================================
