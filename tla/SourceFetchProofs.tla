-------------------------- MODULE SourceFetchProofs --------------------------
(***************************************************************************)
(* Proofs about AkShare's lock and the answers of a collection, for any    *)
(* calls, workers and permits and whatever the vendors answer.             *)
(*                                                                         *)
(* IInv says where the calls are (Placed: only a flagged call waits for a  *)
(* scheduled permit, only a call in a section is registered, a call of the *)
(* pool that no worker has taken is queued) and counts the permits         *)
(* (Counted): the free ones and their owners add up.  Every step takes one *)
(* permit, gives one back or does neither (CountedMoves), but for the      *)
(* reclaim, which gives back as many as it strikes off.                    *)
(*                                                                         *)
(* Fetched says that a call stands at a vendor of its own chain (Asked),   *)
(* that a call with an answer is over (Answered) - so that no later step   *)
(* of it can change the answer - and that what was shown is a time-out or  *)
(* such an answer (Collected).                                             *)
(***************************************************************************)
EXTENDS SourceFetch, FiniteSetTheorems, SequenceTheorems, TLAPS

-----------------------------------------------------------------------------
\* Where a call may be, and where it is when it has nothing to do with AkShare.
Places == {"queued", "next", "wantSched", "retrySched", "want", "retry", "got",
           "in", "query", "over"}
Elsewhere == {"queued", "next", "query", "over"}

\* Who has one of the permits, and who has one of the flagged calls'.
Owners == {c \in Calls : at[c] = "got"} \cup holders
SchedOwners ==
  {c \in {d \in Calls : at[d] \in {"want", "retry", "got"}} \cup holders : Flagged(c)}

Placed ==
  /\ at \in [Calls -> Places] /\ started \in 0..Len(Pool)
  /\ \A i \in DOMAIN Pool : i > started => at[Pool[i]] = "queued"
  /\ \A c \in Calls : at[c] \in {"wantSched", "retrySched"} => Flagged(c)
  /\ holders \subseteq {c \in Calls : at[c] = "in"}

Counted ==
  /\ free \in Nat /\ freeSched \in Nat
  /\ free + Cardinality(Owners) = Total
  /\ freeSched + Cardinality(SchedOwners) = SchedMax

IInv == Placed /\ Counted

-----------------------------------------------------------------------------
\* The calls are finitely many.
LEMMA CallsFinite == IsFiniteSet(Calls)
<1>1. Pool \in [1..Len(Pool) -> Range(Pool)] /\ Len(Pool) \in Nat
  BY PoolAssumption, LenProperties
<1>2. Pool \in Surjection(1..Len(Pool), Range(Pool))
  BY <1>1 DEF Surjection, Range
<1>3. IsFiniteSet(1..Len(Pool))
  BY <1>1, FS_Interval
<1>4. IsFiniteSet(Range(Pool))
  BY <1>2, <1>3, FS_Surjection
<1> QED
  BY <1>4, PoolAssumption, FS_Union DEF Calls

\* So are those that have a permit.
LEMMA OwnersFinite ==
  ASSUME Placed
  PROVE /\ IsFiniteSet(Owners) /\ Cardinality(Owners) \in Nat
        /\ IsFiniteSet(SchedOwners) /\ Cardinality(SchedOwners) \in Nat
<1>1. Owners \in SUBSET Calls /\ SchedOwners \in SUBSET Calls
  BY DEF Placed, Owners, SchedOwners
<1> QED
  BY <1>1, CallsFinite, FS_Subset, FS_CardinalityType

\* A call that moves on without a permit: it is done with AkShare, or at the
\* entrance, where a flagged call has a scheduled permit to take first.
Away(c) == Elsewhere \cup {Entrance(c)}

\* The moves of one call keep the calls' places.
LEMMA PlacedMoves ==
  ASSUME Placed, NEW c \in Calls, at[c] # "queued", NEW w \in Places,
         at' = [at EXCEPT ![c] = w], UNCHANGED <<setup, started>>,
         w \in {"wantSched", "retrySched"} => Flagged(c),
         holders' \subseteq holders \cup {c},
         c \in holders' => w = "in"
  PROVE Placed'
<1>1. at' \in [Calls -> Places] /\ started' \in 0..Len(Pool)
  BY DEF Placed
<1>2. \A i \in DOMAIN Pool : i > started' => at'[Pool[i]] = "queued"
  BY DEF Placed
<1>3. \A d \in Calls : Flagged(d)' <=> Flagged(d)
  BY DEF Flagged
<1>4. \A d \in Calls : at'[d] \in {"wantSched", "retrySched"} => Flagged(d)'
  BY <1>3 DEF Placed
<1>5. holders' \subseteq {d \in Calls : at'[d] = "in"}
  BY DEF Placed
<1> QED
  BY <1>1, <1>2, <1>4, <1>5 DEF Placed

\* Counting, where a step takes a permit, gives one back, or does neither.
LEMMA CountedMoves ==
  ASSUME IInv, Placed',
         NEW k \in {-1, 0, 1}, NEW l \in {-1, 0, 1}, NEW c,
         free' = free - k, freeSched' = freeSched - l,
         k = 1 => free > 0, l = 1 => freeSched > 0,
         \/ k = 0 /\ Owners' = Owners
         \/ k = 1 /\ Owners' = Owners \cup {c} /\ c \notin Owners
         \/ k = -1 /\ Owners' = Owners \ {c} /\ c \in Owners,
         \/ l = 0 /\ SchedOwners' = SchedOwners
         \/ l = 1 /\ SchedOwners' = SchedOwners \cup {c} /\ c \notin SchedOwners
         \/ l = -1 /\ SchedOwners' = SchedOwners \ {c} /\ c \in SchedOwners
  PROVE IInv'
<1>1. /\ IsFiniteSet(Owners) /\ Cardinality(Owners) \in Nat
      /\ IsFiniteSet(SchedOwners) /\ Cardinality(SchedOwners) \in Nat
  BY OwnersFinite DEF IInv
<1>2. \A S, x : IsFiniteSet(S) =>
        /\ x \notin S => Cardinality(S \cup {x}) = Cardinality(S) + 1
        /\ x \in S => Cardinality(S \ {x}) = Cardinality(S) - 1
  BY FS_AddElement, FS_RemoveElement
<1>3. Cardinality(Owners') = Cardinality(Owners) + k
  BY <1>1, <1>2
<1>4. Cardinality(SchedOwners') = Cardinality(SchedOwners) + l
  BY <1>1, <1>2
<1> QED
  BY <1>1, <1>3, <1>4 DEF IInv, Counted

\* The chain of vendors ends the call or goes on.
LEMMA SettledMoves ==
  ASSUME NEW c \in Calls, NEW end, Settled(c, end)
  PROVE \E w \in {"next", "over"} : at' = [at EXCEPT ![c] = w]
BY DEF Settled

\* A section that failed may be followed by another, whose lock the call enters
\* again.
LEMMA SectionFailedMoves ==
  ASSUME NEW c \in Calls, SectionFailed(c)
  PROVE \E w \in {"next", "over", Entrance(c)} : at' = [at EXCEPT ![c] = w]
<1>1. CASE at' = [at EXCEPT ![c] = Entrance(c)]
  BY <1>1
<1>2. CASE at' # [at EXCEPT ![c] = Entrance(c)]
  <2>1. PICK end : Settled(c, end)
    BY <1>2 DEF SectionFailed
  <2> QED  BY <2>1, SettledMoves
<1> QED
  BY <1>1, <1>2

\* A call that had no permit and takes none.
LEMMA NoPermitMoves ==
  ASSUME IInv, NEW c \in Calls, at[c] \in Elsewhere \ {"queued"},
         NEW w \in Away(c), at' = [at EXCEPT ![c] = w],
         UNCHANGED <<setup, started, permits>>
  PROVE IInv'
<1>1. UNCHANGED <<setup, started, free, freeSched, holders>>
  BY DEF permits
<1>2. c \notin holders /\ at \in [Calls -> Places]
  BY DEF IInv, Placed, Elsewhere
<1>3. /\ w \in Places \ {"got", "in"}
      /\ w \in {"wantSched", "retrySched"} => Flagged(c)
      /\ w \in {"want", "retry", "got"} => ~Flagged(c)
  BY DEF Away, Elsewhere, Entrance, Places
<1>4. Placed'
  BY <1>1, <1>2, <1>3, PlacedMoves DEF IInv, Elsewhere
<1>5. \A d : Flagged(d)' <=> Flagged(d)
  BY <1>1 DEF Flagged
<1>6. Owners' = Owners
  BY <1>1, <1>2, <1>3 DEF Owners, Elsewhere
<1>7. SchedOwners' = SchedOwners
  BY <1>1, <1>2, <1>3, <1>5 DEF SchedOwners, Elsewhere
<1>8. free \in Nat /\ freeSched \in Nat
  BY DEF IInv, Counted
<1>9. free' = free - 0 /\ freeSched' = freeSched - 0
  BY <1>1, <1>8
<1> QED
  BY <1>4, <1>6, <1>7, <1>9, CountedMoves

\* A worker takes the next call of the pool, which nobody else has taken.
LEMMA StartKeeps == ASSUME IInv, StartCall PROVE IInv'
<1>1. /\ started < Len(Pool) /\ started' = started + 1
      /\ at' = [at EXCEPT ![Pool[started + 1]] = "next"]
      /\ UNCHANGED <<setup, free, freeSched, holders>>
  BY DEF StartCall, permits
<1>2. /\ started \in Nat /\ Len(Pool) \in Nat /\ DOMAIN Pool = 1..Len(Pool)
      /\ at \in [Calls -> Places]
  BY PoolAssumption, LenProperties DEF IInv, Placed
<1>3. PICK n \in DOMAIN Pool : n = started + 1
  BY <1>1, <1>2
<1>4. PICK c \in Calls : c = Pool[n]
  BY <1>3 DEF Calls, Range
<1>5. at[c] = "queued" /\ at' = [at EXCEPT ![c] = "next"]
  BY <1>1, <1>2, <1>3, <1>4 DEF IInv, Placed
<1>6. \A i \in DOMAIN Pool : i # n => Pool[i] # c
  BY <1>3, <1>4, PoolAssumption DEF IsInjective
<1>7. \A d : Flagged(d)' <=> Flagged(d)
  BY <1>1 DEF Flagged
<1>8. Placed'
  <2>1. at' \in [Calls -> Places] /\ started' \in 0..Len(Pool)
    BY <1>1, <1>2, <1>5 DEF Places
  <2>2. \A i \in DOMAIN Pool : i > started' => at'[Pool[i]] = "queued"
    <3> TAKE i \in DOMAIN Pool
    <3>1. i > started' => i > started /\ i # n
      BY <1>1, <1>2, <1>3
    <3>2. Pool[i] \in Calls
      BY DEF Calls, Range
    <3> QED  BY <1>2, <1>5, <1>6, <3>1, <3>2 DEF IInv, Placed
  <2>3. \A d \in Calls : at'[d] \in {"wantSched", "retrySched"} => Flagged(d)'
    BY <1>2, <1>5, <1>7 DEF IInv, Placed
  <2>4. holders' \subseteq {d \in Calls : at'[d] = "in"}
    BY <1>1, <1>2, <1>5 DEF IInv, Placed
  <2> QED  BY <2>1, <2>2, <2>3, <2>4 DEF Placed
<1>9. Owners' = Owners /\ SchedOwners' = SchedOwners
  BY <1>1, <1>2, <1>5, <1>7 DEF Owners, SchedOwners
<1>10. free' = free - 0 /\ freeSched' = freeSched - 0
  BY <1>1 DEF IInv, Counted
<1> QED
  BY <1>8, <1>9, <1>10, CountedMoves

\* A flagged call takes its scheduled permit.
LEMMA TakeSchedKeeps ==
  ASSUME IInv, NEW c \in Calls, TakeSched(c) PROVE IInv'
<1>1. /\ at[c] \in {"wantSched", "retrySched"} /\ at' = [at EXCEPT ![c] = "want"]
      /\ freeSched > 0 /\ freeSched' = freeSched - 1
      /\ UNCHANGED <<setup, free, holders, started>>
  BY DEF TakeSched, pool
<1>2. c \notin holders /\ at \in [Calls -> Places] /\ Flagged(c)
  BY <1>1 DEF IInv, Placed
<1>3. Placed'
  BY <1>1, <1>2, PlacedMoves DEF IInv, Places
<1>4. \A d : Flagged(d)' <=> Flagged(d)
  BY <1>1 DEF Flagged
<1>5. Owners' = Owners
  BY <1>1, <1>2 DEF Owners
<1>6. SchedOwners' = SchedOwners \cup {c} /\ c \notin SchedOwners
  BY <1>1, <1>2, <1>4 DEF SchedOwners
<1>7. free' = free - 0
  BY <1>1 DEF IInv, Counted
<1> QED
  BY <1>1, <1>3, <1>5, <1>6, <1>7, CountedMoves

\* A call takes one of AkShare's permits.
LEMMA TakeTotalKeeps ==
  ASSUME IInv, NEW c \in Calls, TakeTotal(c) PROVE IInv'
<1>1. /\ at[c] \in {"want", "retry"} /\ at' = [at EXCEPT ![c] = "got"]
      /\ free > 0 /\ free' = free - 1
      /\ UNCHANGED <<setup, freeSched, holders, started>>
  BY DEF TakeTotal, pool
<1>2. c \notin holders /\ at \in [Calls -> Places]
  BY <1>1 DEF IInv, Placed
<1>3. Placed'
  BY <1>1, <1>2, PlacedMoves DEF IInv, Places
<1>4. \A d : Flagged(d)' <=> Flagged(d)
  BY <1>1 DEF Flagged
<1>5. Owners' = Owners \cup {c} /\ c \notin Owners
  BY <1>1, <1>2 DEF Owners
<1>6. SchedOwners' = SchedOwners
  BY <1>1, <1>2, <1>4 DEF SchedOwners
<1>7. freeSched' = freeSched - 0
  BY <1>1 DEF IInv, Counted
<1> QED
  BY <1>1, <1>3, <1>5, <1>6, <1>7, CountedMoves

\* The lock learns who has the permit.
LEMMA RegisterKeeps ==
  ASSUME IInv, NEW c \in Calls, Register(c) PROVE IInv'
<1>1. /\ at[c] = "got" /\ at' = [at EXCEPT ![c] = "in"]
      /\ holders' = holders \cup {c}
      /\ UNCHANGED <<setup, free, freeSched, started>>
  BY DEF Register, pool
<1>2. at \in [Calls -> Places]
  BY DEF IInv, Placed
<1>3. Placed'
  BY <1>1, PlacedMoves DEF IInv, Places
<1>4. \A d : Flagged(d)' <=> Flagged(d)
  BY <1>1 DEF Flagged
<1>5. Owners' = Owners /\ SchedOwners' = SchedOwners
  BY <1>1, <1>2, <1>4 DEF Owners, SchedOwners
<1>6. free' = free - 0 /\ freeSched' = freeSched - 0
  BY <1>1 DEF IInv, Counted
<1> QED
  BY <1>3, <1>5, <1>6, CountedMoves

\* The zombies' permits are given back: so many owners less.
LEMMA ReclaimKeeps ==
  ASSUME IInv, NEW c \in Calls, ReclaimAndRetry(c) PROVE IInv'
<1>1. PICK w \in {"retrySched", "retry"} :
        /\ at' = [at EXCEPT ![c] = w]
        /\ w = "retrySched" => at[c] = "wantSched"
        /\ w = "retry" => at[c] = "want"
  BY DEF ReclaimAndRetry
<1>2. PICK zombies \in SUBSET holders : Reclaimed(zombies)
  BY DEF ReclaimAndRetry
<1> DEFINE flagged == {z \in zombies : Flagged(z)}
<1>3. /\ holders' = holders \ zombies /\ free' = free + Cardinality(zombies)
      /\ freeSched' = freeSched + Cardinality(flagged)
      /\ UNCHANGED <<setup, started>>
  BY <1>2 DEF Reclaimed, ReclaimAndRetry, pool
<1>4. /\ at \in [Calls -> Places] /\ c \notin holders
      /\ \A d \in holders : d \in Calls /\ at[d] = "in"
  BY <1>1 DEF IInv, Placed
<1>5. Placed'
  <2>1. w = "retrySched" => Flagged(c)
    BY <1>1 DEF IInv, Placed
  <2> QED  BY <1>1, <1>3, <1>4, <2>1, PlacedMoves DEF IInv, Places
<1>6. \A d : Flagged(d)' <=> Flagged(d)
  BY <1>3 DEF Flagged
<1>7. Owners' = Owners \ zombies /\ zombies \subseteq Owners
  BY <1>1, <1>3, <1>4 DEF Owners
<1>8. SchedOwners' = SchedOwners \ flagged /\ flagged \subseteq SchedOwners
  BY <1>1, <1>3, <1>4, <1>6 DEF SchedOwners
<1>9. \A S, T : IsFiniteSet(S) /\ T \subseteq S =>
        /\ Cardinality(S) \in Nat /\ Cardinality(T) \in Nat
        /\ Cardinality(S \ T) = Cardinality(S) - Cardinality(T)
  <2> SUFFICES ASSUME NEW S, NEW T \in SUBSET S, IsFiniteSet(S)
               PROVE /\ Cardinality(S) \in Nat /\ Cardinality(T) \in Nat
                     /\ Cardinality(S \ T) = Cardinality(S) - Cardinality(T)
    OBVIOUS
  <2>1. IsFiniteSet(T) /\ S \cap T = T
    BY FS_Subset
  <2> QED  BY <2>1, FS_Difference, FS_CardinalityType
<1> HIDE DEF flagged
<1>10. Cardinality(Owners') = Cardinality(Owners) - Cardinality(zombies)
       /\ Cardinality(zombies) \in Nat /\ Cardinality(Owners) \in Nat
  BY <1>7, <1>9, OwnersFinite DEF IInv
<1>11. Cardinality(SchedOwners') = Cardinality(SchedOwners) - Cardinality(flagged)
       /\ Cardinality(flagged) \in Nat /\ Cardinality(SchedOwners) \in Nat
  BY <1>8, <1>9, OwnersFinite DEF IInv
<1>12. Counted'
  BY <1>3, <1>10, <1>11 DEF IInv, Counted
<1> QED
  BY <1>5, <1>12 DEF IInv

\* A wait that ran out a second time: a flagged call that was refused one of
\* the total has a scheduled permit, which it gives back.
LEMMA GiveUpKeeps ==
  ASSUME IInv, NEW c \in Calls, GiveUp(c) PROVE IInv'
<1>1. /\ UNCHANGED <<setup, free, holders, started>>
      /\ \/ at[c] = "retrySched" /\ freeSched' = freeSched
         \/ at[c] = "retry"
            /\ freeSched' = IF Flagged(c) THEN freeSched + 1 ELSE freeSched
  BY DEF GiveUp, pool
<1>2. PICK w \in {"next", "over", Entrance(c)} : at' = [at EXCEPT ![c] = w]
  BY SectionFailedMoves DEF GiveUp
<1>3. c \notin holders /\ at \in [Calls -> Places]
  BY <1>1 DEF IInv, Placed
<1>4. /\ w \in Places \ {"got", "in"}
      /\ w \in {"wantSched", "retrySched"} => Flagged(c)
      /\ w \in {"want", "retry", "got"} => ~Flagged(c)
  BY DEF Entrance, Places
<1>5. Placed'
  BY <1>1, <1>2, <1>3, <1>4, PlacedMoves DEF IInv
<1>6. \A d : Flagged(d)' <=> Flagged(d)
  BY <1>1 DEF Flagged
<1>7. Owners' = Owners
  BY <1>1, <1>2, <1>3, <1>4 DEF Owners
<1>8. free' = free - 0 /\ freeSched \in Nat
  BY <1>1 DEF IInv, Counted
<1>9. CASE at[c] = "retry" /\ Flagged(c)
  <2>1. SchedOwners' = SchedOwners \ {c} /\ c \in SchedOwners
    BY <1>1, <1>2, <1>3, <1>4, <1>6, <1>9 DEF SchedOwners
  <2>2. freeSched' = freeSched - (-1)
    BY <1>1, <1>8, <1>9
  <2> QED  BY <1>5, <1>7, <1>8, <2>1, <2>2, CountedMoves
<1>10. CASE ~(at[c] = "retry" /\ Flagged(c))
  <2>1. SchedOwners' = SchedOwners
    BY <1>1, <1>2, <1>3, <1>4, <1>6, <1>10 DEF SchedOwners
  <2>2. freeSched' = freeSched - 0
    BY <1>1, <1>8, <1>10
  <2> QED  BY <1>5, <1>7, <1>8, <2>1, <2>2, CountedMoves
<1> QED
  BY <1>9, <1>10

\* A call leaves the lock: a holder gives its permits back, a zombie whose
\* permits were reclaimed does not.
LEMMA LeaveKeeps ==
  ASSUME IInv, NEW c \in Calls, LeaveAkshare(c) PROVE IInv'
<1>1. at[c] = "in" /\ Released(c) /\ UNCHANGED <<setup, started>>
  BY DEF LeaveAkshare, pool
<1>2. PICK w \in {"next", "over", Entrance(c)} : at' = [at EXCEPT ![c] = w]
  BY SettledMoves, SectionFailedMoves DEF LeaveAkshare
<1>3. at \in [Calls -> Places] /\ free \in Nat /\ freeSched \in Nat
  BY DEF IInv, Placed, Counted
<1>4. /\ w \in Places \ {"got", "in"}
      /\ w \in {"wantSched", "retrySched"} => Flagged(c)
      /\ w \in {"want", "retry", "got"} => ~Flagged(c)
  BY DEF Entrance, Places
<1>5. holders' = holders \ {c}
  BY <1>1 DEF Released, permits
<1>6. Placed'
  BY <1>1, <1>2, <1>4, <1>5, PlacedMoves DEF IInv
<1>7. \A d : Flagged(d)' <=> Flagged(d)
  BY <1>1 DEF Flagged
<1>8. CASE c \notin holders
  <2>1. free' = free - 0 /\ freeSched' = freeSched - 0
    BY <1>1, <1>3, <1>8 DEF Released, permits
  <2>2. Owners' = Owners /\ SchedOwners' = SchedOwners
    BY <1>1, <1>2, <1>3, <1>4, <1>5, <1>7, <1>8 DEF Owners, SchedOwners
  <2> QED  BY <1>6, <2>1, <2>2, CountedMoves
<1>9. CASE c \in holders
  <2>1. /\ free' = free - (-1)
        /\ freeSched' = IF Flagged(c) THEN freeSched - (-1) ELSE freeSched - 0
    BY <1>1, <1>3, <1>9 DEF Released
  <2>2. Owners' = Owners \ {c} /\ c \in Owners
    BY <1>1, <1>2, <1>3, <1>4, <1>5, <1>9 DEF Owners
  <2>3. CASE Flagged(c)
    <3>1. SchedOwners' = SchedOwners \ {c} /\ c \in SchedOwners
      BY <1>1, <1>2, <1>3, <1>4, <1>5, <1>7, <1>9, <2>3 DEF SchedOwners
    <3>2. freeSched' = freeSched - (-1)
      BY <2>1, <2>3
    <3> QED  BY <1>6, <2>1, <2>2, <3>1, <3>2, CountedMoves
  <2>4. CASE ~Flagged(c)
    <3>1. SchedOwners' = SchedOwners
      BY <1>1, <1>2, <1>3, <1>4, <1>5, <1>7, <1>9, <2>4 DEF SchedOwners
    <3>2. freeSched' = freeSched - 0
      BY <2>1, <2>4
    <3> QED  BY <1>6, <2>1, <2>2, <3>1, <3>2, CountedMoves
  <2> QED  BY <2>3, <2>4
<1> QED
  BY <1>8, <1>9

-----------------------------------------------------------------------------
\* No permit is taken at the start.
LEMMA Initially == Init => IInv
<1> SUFFICES ASSUME Init PROVE IInv
  OBVIOUS
<1>1. Placed
  <2>1. at \in [Calls -> {"next", "queued"}]
        /\ \A c \in Range(Pool) : at[c] = "queued"
    BY PoolAssumption DEF Init, Calls
  <2>2. Len(Pool) \in Nat
    BY PoolAssumption, LenProperties
  <2> QED  BY <2>1, <2>2 DEF Init, Placed, Places, Range
<1>2. Owners = {} /\ SchedOwners = {}
  BY DEF Init, Owners, SchedOwners
<1>3. Cardinality({}) = 0
  BY FS_EmptySet
<1> QED
  BY <1>1, <1>2, <1>3, PermitsAssumption DEF Init, IInv, Counted

\* Every step keeps it.
LEMMA StepKeeps == IInv /\ [Next]_vars => IInv'
<1> SUFFICES ASSUME IInv, [Next]_vars PROVE IInv'
  OBVIOUS
<1>1. ASSUME UNCHANGED <<setup, at, started, permits>> PROVE IInv'
  BY <1>1 DEF IInv, Placed, Counted, Owners, SchedOwners, Flagged, permits
<1>2. CASE UNCHANGED vars \/ Return \/ Shutdown
  BY <1>1, <1>2 DEF vars, pool, Return, Shutdown
<1>3. ASSUME NEW c \in Calls, Ask(c) \/ QuoteUnlocked(c) \/ EnterAkshare(c)
                              \/ Login(c) \/ Query(c)
      PROVE IInv'
  <2>1. /\ UNCHANGED <<setup, started, permits>>
        /\ at[c] \in Elsewhere \ {"queued"}
    BY <1>3 DEF Ask, QuoteUnlocked, EnterAkshare, Login, Query, Elsewhere, pool
  <2>2. \E w \in Away(c) : at' = [at EXCEPT ![c] = w]
    <3>1. \/ \E end : Settled(c, end)
          \/ at' = [at EXCEPT ![c] = Entrance(c)]
          \/ at' = [at EXCEPT ![c] = "query"]
      BY <1>3 DEF Ask, QuoteUnlocked, EnterAkshare, Login, Query
    <3> QED  BY <3>1, SettledMoves DEF Away, Elsewhere
  <2> QED  BY <2>1, <2>2, NoPermitMoves
<1>4. ASSUME NEW c \in Calls, LockStep(c) \/ Register(c) \/ LeaveAkshare(c)
      PROVE IInv'
  BY <1>4, TakeSchedKeeps, TakeTotalKeeps, ReclaimKeeps, GiveUpKeeps,
     RegisterKeeps, LeaveKeeps DEF LockStep
<1> QED
  BY <1>2, <1>3, <1>4, StartKeeps DEF Next, CallStep

\* It holds in every reachable state.
THEOREM Invariance == Spec => []IInv
BY Initially, StepKeeps, PTL DEF Spec

\* At most as many calls as there are permits have one that was not reclaimed,
\* and of flagged calls at most as many as there are scheduled permits.
THEOREM PermitsLimit ==
  Spec => [](/\ Cardinality(Owners) <= Total
             /\ Cardinality(SchedOwners) <= SchedMax)
<1>1. IInv => /\ Cardinality(Owners) <= Total
              /\ Cardinality(SchedOwners) <= SchedMax
  BY OwnersFinite DEF IInv, Counted
<1> QED
  BY <1>1, Invariance, PTL

\* For any calls, workers and permits, whatever time-outs, reclaims and late
\* exits come together: every permit is free or belongs to one call, and so is
\* every scheduled permit.
THEOREM PermitsAreKept == Spec => []SlotsKept
<1>1. IInv => SlotsKept
  <2> SUFFICES ASSUME IInv PROVE SlotsKept
    OBVIOUS
  <2> DEFINE InTransit == {c \in Calls : at[c] = "got"}
             AtDoor == {c \in Calls : at[c] \in {"want", "retry", "got"}}
  <2>1. InTransit \cup holders = Owners
    BY DEF Owners
  <2>2. {c \in AtDoor \cup holders : Flagged(c)} = SchedOwners
    BY DEF SchedOwners
  <2> HIDE DEF InTransit, AtDoor
  <2>3. /\ holders \subseteq {c \in Calls : at[c] = "in"}
        /\ free + Cardinality(InTransit \cup holders) = Total
        /\ freeSched + Cardinality({c \in AtDoor \cup holders : Flagged(c)}) = SchedMax
    BY <2>1, <2>2 DEF IInv, Placed, Counted
  <2> QED  BY <2>3 DEF SlotsKept, InTransit, AtDoor
<1> QED
  BY <1>1, Invariance, PTL
-----------------------------------------------------------------------------
(* The vendors' answers: whatever their requests bring, a method ends with    *)
(* data, in words or in a raise.                                              *)

\* A set of a few positions has a smallest.
LEMMA SmallestIn ==
  ASSUME NEW S \in SUBSET (1..5), S # {}
  PROVE Min(S) \in S
<1>1. \E x \in S : \A y \in S : x =< y
  <2>1. CASE 1 \in S  BY <2>1
  <2>2. CASE 1 \notin S /\ 2 \in S  BY <2>2
  <2>3. CASE 1 \notin S /\ 2 \notin S /\ 3 \in S  BY <2>3
  <2>4. CASE 1 \notin S /\ 2 \notin S /\ 3 \notin S /\ 4 \in S  BY <2>4
  <2>5. CASE 1 \notin S /\ 2 \notin S /\ 3 \notin S /\ 4 \notin S
    <3>1. \A x \in S : x = 5
      BY <2>5
    <3>2. \A x, y \in S : x =< y
      BY <3>1
    <3> QED  BY <3>2
  <2> QED  BY <2>1, <2>2, <2>3, <2>4, <2>5
<1> QED
  BY <1>1 DEF Min

\* The first good one of some replies is a reply.
LEMMA FirstIsReply ==
  ASSUME NEW n \in 1..4, NEW replies \in [1..n -> Reply], NEW good
  PROVE First(replies, good) \in Reply
<1> DEFINE hits == {i \in DOMAIN replies : replies[i] \in good}
<1>1. hits \in SUBSET (1..5) /\ hits \subseteq 1..n
  OBVIOUS
<1> HIDE DEF hits
<1>2. hits # {} => replies[Min(hits)] \in Reply
  BY <1>1, SmallestIn
<1>3. First(replies, good) = IF hits = {} THEN "error" ELSE replies[Min(hits)]
  BY DEF First, hits
<1> QED
  BY <1>2, <1>3 DEF Reply

\* A method that tells or catches what its request brought.
LEMMA EndsAreEnds ==
  ASSUME NEW r \in Reply
  PROVE Told(r) \in AnyEnd /\ Caught(r) \in AnyEnd
BY DEF Reply, Told, Caught, AnyEnd, Answers

\* AkShare's sources.
LEMMA AkShareAnswers ==
  ASSUME NEW s \in DOMAIN AkShareEnds
  PROVE AkShareEnds[s] \subseteq AnyEnd
<1>1. AkStock \subseteq AnyEnd
  <2> SUFFICES ASSUME NEW etf \in [1..2 -> Reply], NEW stock \in [1..4 -> Reply],
                      NEW today \in Reply
               PROVE Told(WithToday(AkPrices(etf, stock), today)) \in AnyEnd
    BY DEF AkStock
  <2>1. AkPrices(etf, stock) \in Reply
    BY FirstIsReply DEF AkPrices, Reply
  <2>2. WithToday(AkPrices(etf, stock), today) \in Reply
    BY <2>1 DEF WithToday, Reply
  <2> QED  BY <2>2, EndsAreEnds
<1>2. AkIndicator \subseteq AnyEnd
  BY <1>1 DEF AkIndicator, Indicators, AnyEnd
<1>3. AkFundamentals \subseteq AnyEnd /\ AkReport \subseteq AnyEnd
  BY DEF AkFundamentals, AkProfile, AkReport, AnyEnd, Answers
<1>4. AkNews \subseteq AnyEnd /\ AkMood \subseteq AnyEnd
  BY EndsAreEnds DEF AkNews, AkMood, Ends
<1>5. AkGlobal \subseteq AnyEnd /\ AkInsider(1) \cup AkInsider(2) \subseteq AnyEnd
  BY <1>4 DEF AkGlobal, AkInsider, AnyEnd, Answers
<1>6. AkQuotes \subseteq AnyEnd
  BY DEF AkQuotes, AkQuote, Caught, Reply, AnyEnd, Answers
<1> QED
  BY <1>1, <1>2, <1>3, <1>4, <1>5, <1>6 DEF AkShareEnds

\* BaoStock's.
LEMMA BaoStockAnswers ==
  ASSUME NEW s \in DOMAIN BaoStockEnds
  PROVE BaoStockEnds[s] \subseteq AnyEnd
<1>1. BaoStock \subseteq AnyEnd /\ BaoIndicator \subseteq AnyEnd
  BY EndsAreEnds DEF BaoStock, BaoIndicator, Indicators, Ends, AnyEnd
<1> QED
  BY <1>1 DEF BaoStockEnds

\* Investoday's.
LEMMA InvestodayAnswers ==
  ASSUME NEW s \in DOMAIN InvestodayEnds
  PROVE InvestodayEnds[s] \subseteq AnyEnd
<1>1. IvLists \subseteq AnyEnd
  BY EndsAreEnds DEF IvLists, IvPaged, Reply
<1>2. IvStock \subseteq AnyEnd /\ IvIndicator \subseteq AnyEnd /\ IvReport \subseteq AnyEnd
  BY <1>1 DEF IvStock, IvIndicator, IvReport, WithKey, Indicators, AnyEnd
<1>3. IvFundamentals \subseteq AnyEnd /\ IvNews \subseteq AnyEnd
  BY EndsAreEnds DEF IvFundamentals, IvNews, WithKey, Ends, AnyEnd
<1>4. IvGlobal \subseteq AnyEnd
  BY EndsAreEnds DEF IvGlobal, WithKey, AnyEnd, Answers
<1>5. IvQuotes \subseteq AnyEnd /\ IvInsider \subseteq AnyEnd
  BY DEF IvQuotes, IvInsider, WithKey, AnyEnd, Answers
<1> QED
  BY <1>2, <1>3, <1>4, <1>5 DEF InvestodayEnds

\* Yahoo's.
LEMMA YahooAnswers ==
  ASSUME NEW s \in DOMAIN YahooEnds
  PROVE YahooEnds[s] \subseteq AnyEnd
<1>1. YfStock \subseteq AnyEnd /\ YfReport \subseteq AnyEnd
      /\ YfNews \subseteq AnyEnd /\ YfInsider \subseteq AnyEnd
  BY EndsAreEnds DEF YfStock, YfReport, YfNews, YfInsider, Ends
<1>2. YfIndicator \subseteq AnyEnd
  BY EndsAreEnds DEF YfIndicator, Indicators, AnyEnd, Answers
<1>3. YfGlobal \subseteq AnyEnd
  BY DEF YfGlobal, Caught, AnyEnd, Answers
<1> QED
  BY <1>1, <1>2, <1>3 DEF YahooEnds

\* Alpha Vantage's.
LEMMA AlphaVantageAnswers ==
  ASSUME NEW s \in DOMAIN AlphaVantageEnds
  PROVE AlphaVantageEnds[s] \subseteq AnyEnd
<1>1. AvRequest \subseteq AnyEnd
  BY DEF AvRequest, AnyEnd, Answers
<1>2. AvIndicator \subseteq AnyEnd
  BY EndsAreEnds DEF AvIndicator, Indicators, Ends, AnyEnd
<1> QED
  BY <1>1, <1>2 DEF AlphaVantageEnds, AvStock, AvReport, AvNews

\* So whichever of the five is asked for whatever it offers.
LEMMA VendorsAnswer ==
  /\ DOMAIN Registry = 1..5
  /\ \A i \in 1..5 : \A s \in DOMAIN Registry[i].ends : Registry[i].ends[s] \subseteq AnyEnd
<1>1. DOMAIN Registry = 1..5
  BY DEF Registry
<1>2. /\ Registry[1].ends = AkShareEnds /\ Registry[2].ends = BaoStockEnds
      /\ Registry[3].ends = InvestodayEnds /\ Registry[4].ends = YahooEnds
      /\ Registry[5].ends = AlphaVantageEnds
  BY DEF Registry
<1>3. \A i \in 1..5 : i = 1 \/ i = 2 \/ i = 3 \/ i = 4 \/ i = 5
  OBVIOUS
<1> QED
  BY <1>1, <1>2, <1>3, AkShareAnswers, BaoStockAnswers, InvestodayAnswers,
     YahooAnswers, AlphaVantageAnswers
-----------------------------------------------------------------------------
(* What the calls ask and what they brought.                                  *)
Asked ==
  /\ setup \in Setups
  /\ vendor \in [Calls -> 1..5] /\ \A c \in Calls : vendor[c] \in VendorChain(Source(c))
  /\ section \in [Calls -> 1..2] /\ loggedIn \in BOOLEAN

\* A call that has brought something is over.
Answered ==
  /\ answer \in [Calls -> {"none"} \cup Answers]
  /\ \A c \in Calls : answer[c] # "none" => at[c] = "over"

Collected ==
  /\ collector \in {"waits", "merges", "returned"}
  /\ collector = "waits" => shown = << >>
  /\ collector # "waits" => shown \in [DOMAIN Pool -> {"timeout"} \cup Answers]
  /\ ShownAsAnswered

Fetched == Asked /\ Answered /\ Collected

\* The vendors of a call are among the five.
LEMMA ChainIsIn == \A s : VendorChain(s) \in SUBSET (1..5)
BY VendorsAnswer DEF VendorChain

\* What the vendor a call has come to may answer, and what a section may.
LEMMA AskedEnds ==
  ASSUME Asked, NEW c \in Calls
  PROVE Vendor(c).ends[Source(c)] \subseteq AnyEnd /\ SectionEnds(c) \subseteq AnyEnd
<1>1. vendor[c] \in 1..5 /\ Source(c) \in DOMAIN Registry[vendor[c]].ends
  BY DEF Asked, VendorChain
<1>2. Vendor(c).ends[Source(c)] \subseteq AnyEnd
  BY <1>1, VendorsAnswer DEF Vendor
<1>3. \A n : AkInsider(n) \subseteq AnyEnd
  BY EndsAreEnds DEF AkInsider, AkNews, Ends, AnyEnd, Answers
<1> QED
  BY <1>2, <1>3 DEF SectionEnds

\* The pool's calls are calls.
LEMMA PoolCalls == \A i \in DOMAIN Pool : Pool[i] \in Calls
BY DEF Calls, Range

\* What a collection shows stands as long as no answer that was given changes.
LEMMA ShownStands ==
  ASSUME Fetched, UNCHANGED <<collector, shown>>,
         \A c \in Calls : answer[c] # "none" => answer'[c] = answer[c]
  PROVE Collected'
<1>1. ShownAsAnswered'
  <2> SUFFICES ASSUME collector # "waits", NEW i \in DOMAIN Pool, shown[i] # "timeout"
               PROVE shown[i] \in Answers /\ shown[i] = answer'[Pool[i]]
    BY DEF ShownAsAnswered
  <2>1. shown[i] \in Answers /\ shown[i] = answer[Pool[i]]
    BY DEF Fetched, Collected, ShownAsAnswered
  <2> QED  BY <2>1, PoolCalls DEF Answers
<1> QED
  BY <1>1 DEF Fetched, Collected

\* A call moves on without an answer.
LEMMA MoveKeepsAnswers ==
  ASSUME IInv, Fetched, NEW c \in Calls, at[c] # "over", NEW w,
         at' = [at EXCEPT ![c] = w], UNCHANGED <<setup, vendor, answer, collector, shown>>,
         section' \in [Calls -> 1..2], loggedIn' \in BOOLEAN
  PROVE Fetched'
<1>1. Asked'
  BY DEF Fetched, Asked, Source
<1>2. Answered'
  BY DEF Fetched, Answered, IInv, Placed
<1>3. Collected'
  BY ShownStands DEF Fetched
<1> QED
  BY <1>1, <1>2, <1>3 DEF Fetched

\* The vendor a call has come to answers or raises: the call had no answer yet.
LEMMA SettledKeepsAnswers ==
  ASSUME IInv, Fetched, NEW c \in Calls, at[c] # "over", NEW end \in AnyEnd,
         Settled(c, end), UNCHANGED <<setup, collector, shown>>,
         section' \in [Calls -> 1..2], loggedIn' \in BOOLEAN
  PROVE Fetched'
<1> DEFINE later == {i \in VendorChain(Source(c)) : i > vendor[c]}
<1>1. answer[c] = "none" /\ at \in [Calls -> Places]
  BY DEF Fetched, Answered, IInv, Placed
<1>2. later \in SUBSET (1..5) /\ later \subseteq VendorChain(Source(c))
  BY ChainIsIn
<1>3. Settled(c, end) =
        IF end = "raise" /\ later # {}
          THEN /\ at' = [at EXCEPT ![c] = "next"]
               /\ vendor' = [vendor EXCEPT ![c] = Min(later)]
               /\ UNCHANGED answer
          ELSE /\ at' = [at EXCEPT ![c] = "over"]
               /\ answer' = [answer EXCEPT ![c] = IF end = "raise" THEN "text" ELSE end]
               /\ UNCHANGED vendor
  BY DEF Settled
<1> HIDE DEF later
<1>4. CASE end = "raise" /\ later # {}
  <2>1. /\ at' = [at EXCEPT ![c] = "next"] /\ UNCHANGED answer
        /\ vendor' = [vendor EXCEPT ![c] = Min(later)]
    BY <1>3, <1>4
  <2>2. Min(later) \in 1..5 /\ Min(later) \in VendorChain(Source(c))
    BY <1>2, <1>4, SmallestIn
  <2>3. Asked'
    BY <2>1, <2>2 DEF Fetched, Asked, Source
  <2>4. Answered'
    BY <1>1, <2>1 DEF Fetched, Answered
  <2>5. Collected'
    BY <2>1, ShownStands
  <2> QED  BY <2>3, <2>4, <2>5 DEF Fetched
<1>5. CASE ~(end = "raise" /\ later # {})
  <2>1. PICK told \in Answers : /\ at' = [at EXCEPT ![c] = "over"] /\ UNCHANGED vendor
                                /\ answer' = [answer EXCEPT ![c] = told]
    BY <1>3, <1>5 DEF AnyEnd, Answers
  <2>2. Asked'
    BY <2>1 DEF Fetched, Asked, Source
  <2>3. Answered'
    BY <1>1, <2>1 DEF Fetched, Answered
  <2>4. \A d \in Calls : answer[d] # "none" => answer'[d] = answer[d]
    BY <1>1, <2>1 DEF Fetched, Answered
  <2>5. Collected'
    BY <2>4, ShownStands
  <2> QED  BY <2>2, <2>3, <2>5 DEF Fetched
<1> QED
  BY <1>4, <1>5

\* A section that brought nothing is followed by another or by the next vendor.
LEMMA SectionFailedKeepsAnswers ==
  ASSUME IInv, Fetched, NEW c \in Calls, at[c] # "over", SectionFailed(c),
         UNCHANGED <<setup, collector, shown, loggedIn>>
  PROVE Fetched'
<1>1. section \in [Calls -> 1..2] /\ loggedIn' \in BOOLEAN
  BY DEF Fetched, Asked
<1>2. CASE Source(c) = "insider" /\ section[c] = 1
  <2>1. /\ at' = [at EXCEPT ![c] = Entrance(c)] /\ UNCHANGED <<vendor, answer>>
        /\ section' \in [Calls -> 1..2]
    BY <1>1, <1>2 DEF SectionFailed
  <2> QED  BY <1>1, <2>1, MoveKeepsAnswers
<1>3. CASE ~(Source(c) = "insider" /\ section[c] = 1)
  <2>1. PICK end \in AnyEnd : Settled(c, end) /\ UNCHANGED section
    BY <1>3 DEF SectionFailed, AnyEnd, Answers
  <2> QED  BY <1>1, <2>1, SettledKeepsAnswers
<1> QED
  BY <1>2, <1>3

\* Every step of a call.
LEMMA CallStepKeepsAnswers ==
  ASSUME IInv, Fetched, NEW c \in Calls, CallStep(c)
  PROVE Fetched'
<1>1. section \in [Calls -> 1..2] /\ loggedIn \in BOOLEAN
  BY DEF Fetched, Asked
<1>2. UNCHANGED <<setup, collector, shown>> /\ at[c] # "over"
  BY DEF CallStep, LockStep, Ask, QuoteUnlocked, EnterAkshare, TakeSched, TakeTotal,
         Register, ReclaimAndRetry, GiveUp, LeaveAkshare, Login, Query, pool
<1>3. CASE Ask(c) \/ QuoteUnlocked(c)
  <2>1. PICK end \in Vendor(c).ends[Source(c)] : Settled(c, end)
    BY <1>3 DEF Ask, QuoteUnlocked
  <2>2. end \in AnyEnd
    BY AskedEnds DEF Fetched
  <2>3. UNCHANGED <<section, loggedIn>>
    BY <1>3 DEF Ask, QuoteUnlocked
  <2> QED  BY <1>1, <1>2, <2>1, <2>2, <2>3, SettledKeepsAnswers
<1>4. CASE EnterAkshare(c) \/ TakeSched(c) \/ TakeTotal(c) \/ Register(c)
           \/ ReclaimAndRetry(c)
  <2>1. /\ \E w : at' = [at EXCEPT ![c] = w]
        /\ UNCHANGED <<vendor, section, answer, loggedIn>>
    BY <1>4 DEF EnterAkshare, TakeSched, TakeTotal, Register, ReclaimAndRetry
  <2> QED  BY <1>1, <1>2, <2>1, MoveKeepsAnswers
<1>5. CASE GiveUp(c)
  BY <1>2, <1>5, SectionFailedKeepsAnswers DEF GiveUp
<1>6. CASE LeaveAkshare(c)
  <2>1. UNCHANGED loggedIn
    BY <1>6 DEF LeaveAkshare
  <2>2. CASE SectionFailed(c)
    BY <1>2, <2>1, <2>2, SectionFailedKeepsAnswers
  <2>3. CASE ~SectionFailed(c)
    <3>1. PICK end \in SectionEnds(c) : Settled(c, end) /\ UNCHANGED section
      BY <1>6, <2>3 DEF LeaveAkshare
    <3>2. end \in AnyEnd
      BY AskedEnds DEF Fetched
    <3> QED  BY <1>1, <1>2, <2>1, <3>1, <3>2, SettledKeepsAnswers
  <2> QED  BY <2>2, <2>3
<1>7. CASE Login(c)
  <2>1. UNCHANGED section /\ "raise" \in AnyEnd
    BY <1>7 DEF Login, AnyEnd
  <2>2. CASE Settled(c, "raise") /\ UNCHANGED loggedIn
    BY <1>1, <1>2, <2>1, <2>2, SettledKeepsAnswers
  <2>3. CASE ~(Settled(c, "raise") /\ UNCHANGED loggedIn)
    <3>1. /\ at' = [at EXCEPT ![c] = "query"] /\ loggedIn' \in BOOLEAN
          /\ UNCHANGED <<vendor, answer>>
      BY <1>7, <2>3 DEF Login
    <3> QED  BY <1>1, <1>2, <2>1, <3>1, MoveKeepsAnswers
  <2> QED  BY <2>2, <2>3
<1>8. CASE Query(c)
  <2>1. PICK end \in Vendor(c).ends[Source(c)] \cup {"raise"} : Settled(c, end)
    BY <1>8 DEF Query
  <2>2. end \in AnyEnd
    BY AskedEnds DEF Fetched, AnyEnd
  <2>3. UNCHANGED section /\ loggedIn' \in BOOLEAN
    BY <1>8 DEF Query
  <2> QED  BY <1>1, <1>2, <2>1, <2>2, <2>3, SettledKeepsAnswers
<1> QED
  BY <1>3, <1>4, <1>5, <1>6, <1>7, <1>8 DEF CallStep, LockStep

\* A call that a worker takes had not begun, so that it has brought nothing.
LEMMA StartKeepsAnswers ==
  ASSUME IInv, Fetched, StartCall
  PROVE Fetched'
<1>1. started + 1 \in DOMAIN Pool /\ started + 1 > started
  BY PoolAssumption, LenProperties DEF IInv, Placed, StartCall
<1>2. PICK c \in Calls : c = Pool[started + 1]
  BY <1>1, PoolCalls
<1>3. at[c] # "over" /\ at' = [at EXCEPT ![c] = "next"]
  BY <1>1, <1>2 DEF IInv, Placed, StartCall
<1>4. /\ UNCHANGED <<setup, vendor, answer, collector, shown>>
      /\ section' \in [Calls -> 1..2] /\ loggedIn' \in BOOLEAN
  BY DEF StartCall, Fetched, Asked
<1> QED
  BY <1>3, <1>4, MoveKeepsAnswers

\* The collecting thread reports what there is, and shuts the pool down.
LEMMA CollectorKeepsAnswers ==
  ASSUME IInv, Fetched, Return \/ Shutdown
  PROVE Fetched'
<1>1. Asked' /\ Answered'
  BY DEF Return, Shutdown, Fetched, Asked, Answered, Source
<1>2. CASE Return
  <2>1. /\ collector' = "merges" /\ UNCHANGED answer
        /\ shown' = [i \in DOMAIN Pool |->
                       IF answer[Pool[i]] = "none" THEN "timeout" ELSE answer[Pool[i]]]
    BY <1>2 DEF Return, Snapshot
  <2>2. \A i \in DOMAIN Pool : answer[Pool[i]] \in {"none"} \cup Answers
    BY PoolCalls DEF Fetched, Answered
  <2>3. shown' \in [DOMAIN Pool -> {"timeout"} \cup Answers]
    BY <2>1, <2>2
  <2>4. ShownAsAnswered'
    BY <2>1, <2>2 DEF ShownAsAnswered
  <2> QED  BY <1>1, <2>1, <2>3, <2>4 DEF Fetched, Collected
<1>3. CASE Shutdown
  <2>1. Collected'
    BY <1>3 DEF Shutdown, Fetched, Collected, ShownAsAnswered
  <2> QED  BY <1>1, <2>1 DEF Fetched
<1> QED
  BY <1>2, <1>3

\* At the start every call has come to the first vendor of its chain and
\* brought nothing.
LEMMA NothingAnswered == Init => Fetched
<1> SUFFICES ASSUME Init PROVE Fetched
  OBVIOUS
<1>1. \A c \in Calls : Min(VendorChain(Source(c))) \in VendorChain(Source(c))
  BY ChainIsIn, SmallestIn, SetupsAssumption DEF Init, Source
<1>2. \A c \in Calls : Min(VendorChain(Source(c))) \in 1..5
  BY <1>1, ChainIsIn
<1>3. Asked
  <2>1. vendor = [c \in Calls |-> Min(VendorChain(Source(c)))]
    BY DEF Init
  <2>2. vendor \in [Calls -> 1..5] /\ \A c \in Calls : vendor[c] \in VendorChain(Source(c))
    BY <1>1, <1>2, <2>1
  <2>3. setup \in Setups /\ section \in [Calls -> 1..2]
    BY DEF Init
  <2>4. loggedIn \in BOOLEAN
    BY Zenon DEF Init
  <2> QED  BY <2>2, <2>3, <2>4 DEF Asked
<1> QED
  BY <1>3 DEF Init, Fetched, Answered, Collected, ShownAsAnswered

\* Every step keeps the answers.
LEMMA StepKeepsAnswers == IInv /\ Fetched /\ [Next]_vars => Fetched'
<1> SUFFICES ASSUME IInv, Fetched, [Next]_vars PROVE Fetched'
  OBVIOUS
<1>1. CASE UNCHANGED vars
  BY <1>1 DEF vars, pool, Fetched, Asked, Answered, Collected, ShownAsAnswered, Source
<1> QED
  BY <1>1, CallStepKeepsAnswers, StartKeepsAnswers, CollectorKeepsAnswers DEF Next

\* It holds in every reachable state.
THEOREM AnswersInvariance == Spec => [](IInv /\ Fetched)
BY Initially, StepKeeps, NothingAnswered, StepKeepsAnswers, PTL DEF Spec

\* Whatever the vendors bring, in whatever order, with whatever permits: every
\* variable has its type, each call has come to a vendor of its own chain, and
\* no counter of permits leaves its range.
THEOREM TypeCorrect == Spec => []TypeOK
<1>1. IInv /\ Fetched => TypeOK
  <2> SUFFICES ASSUME IInv, Fetched PROVE TypeOK
    OBVIOUS
  <2>1. vendor \in [Calls -> DOMAIN Registry]
        /\ \A c \in Calls : vendor[c] \in VendorChain(Source(c))
    BY VendorsAnswer DEF Fetched, Asked
  <2>2. free \in 0..Total /\ freeSched \in 0..SchedMax
    BY OwnersFinite, PermitsAssumption DEF IInv, Counted
  <2>3. shown \in {<< >>} \cup [DOMAIN Pool -> {"timeout"} \cup Answers]
    BY DEF Fetched, Collected
  <2> QED  BY <2>1, <2>2, <2>3
           DEF TypeOK, IInv, Placed, Places, Fetched, Asked, Answered, Collected
<1> QED
  BY <1>1, AnswersInvariance, PTL

\* For any calls and any vendors: what a collection shows of a source is a
\* time-out or what its call brought, whatever a thread that was given up
\* brings afterwards.
THEOREM ShownIsWhatWasAnswered == Spec => []ShownAsAnswered
<1>1. Fetched => ShownAsAnswered
  BY DEF Fetched, Collected
<1> QED
  BY <1>1, AnswersInvariance, PTL
=============================================================================
