-------------------------- MODULE UserRecordsProofs --------------------------
(***************************************************************************)
(* Proofs about what a user's requests leave behind, for every number of   *)
(* requests at once, every limit, and any number of codes, profiles and    *)
(* backtest days.                                                          *)
(*                                                                         *)
(* A step is about one table, so IInv is the conjunction of four           *)
(* invariants that do not know of each other:                              *)
(*   rows       a request counts before it inserts, one symbol at a time,  *)
(*              so that each insertion is one pending request less;        *)
(*   codes      a request holds a code that was sent, and only the newest  *)
(*              is open, so that a code has been consumed no more often    *)
(*              than requests had looked it up;                            *)
(*   profiles   the types; every step but the two excepted ones leaves the *)
(*              defaults among those there were, or at most one            *)
(*              (FewDefaults);                                             *)
(*   backtest   the entry's fields follow from where its thread is.        *)
(***************************************************************************)
EXTENDS UserRecords, FiniteSetTheorems, SequenceTheorems, TLAPS

-----------------------------------------------------------------------------
(* Rows under a limit.                                                     *)

\* A request adds one symbol at a time.
OneKey == \A s \in Sessions : \A j, k \in req[s].key : j = k
RowsInv == RowsTypeOK /\ OneKey /\ LimitHolds

\* The rows and the pending requests are finitely many.
LEMMA RowsFinite ==
    ASSUME RowsTypeOK
    PROVE /\ IsFiniteSet(rows) /\ Cardinality(rows) \in Nat
          /\ IsFiniteSet(Pending) /\ Cardinality(Pending) \in Nat
          /\ Cardinality(Pending) <= Cardinality(Sessions)
          /\ Cardinality(Sessions) \in Nat /\ Cardinality(Sessions) >= 1
<1>1. IsFiniteSet(rows)
  BY KeysAssumption, FS_Subset DEF RowsTypeOK
<1>2. IsFiniteSet(Pending) /\ Cardinality(Pending) <= Cardinality(Sessions)
  <2>1. Pending \in SUBSET Sessions
    BY DEF Pending
  <2> QED  BY <2>1, SessionsAssumption, FS_Subset
<1>3. Cardinality(Sessions) \in Nat /\ Cardinality(Sessions) # 0
  BY SessionsAssumption, FS_CardinalityType, FS_EmptySet
<1> QED
  BY <1>1, <1>2, <1>3, FS_CardinalityType

\* The fields of a request.
Request == [at : Stage, todo : SUBSET Keys, key : SUBSET Keys,
            items : SUBSET Keys]

\* A step of one request that adds no row and makes none pending.
LEMMA NoMorePending ==
    ASSUME RowsInv, NEW s \in Sessions, NEW r \in Request,
           req' = [req EXCEPT ![s] = r], UNCHANGED <<rows, positions, table>>,
           r.key = {} \/ r.key = req[s].key,
           r.at \in {"look", "insert"} => req[s].at \in {"look", "insert"}
    PROVE RowsInv'
<1>1. RowsTypeOK' /\ OneKey'
  BY DEF RowsInv, RowsTypeOK, OneKey, Request
<1>2. Pending' \subseteq Pending
  BY DEF Pending, RowsInv, RowsTypeOK
<1>3. Cardinality(Pending') <= Cardinality(Pending)
  BY <1>2, RowsFinite, FS_Subset DEF RowsInv
<1>4. Cardinality(Pending') \in Nat
  BY <1>2, RowsFinite, FS_Subset, FS_CardinalityType DEF RowsInv
<1>5. LimitHolds'
  BY <1>3, <1>4, RowsFinite, LimitAssumption DEF RowsInv, LimitHolds
<1> QED
  BY <1>1, <1>5 DEF RowsInv

\* The end of a request, or its next symbol.
LEMMA NextItemEffect ==
    ASSUME RowsTypeOK, NEW s \in Sessions, NextItem(s)
    PROVE \E r \in Request : /\ req' = [req EXCEPT ![s] = r] /\ r.key = {}
                             /\ r.at \notin {"look", "insert"}
<1>1. Idle \in Request
  BY DEF Idle, Request, Stage
<1>2. req[s] \in Request
  BY DEF RowsTypeOK, Request
<1>3. CASE req[s].todo = {}
  <2>1. req' = [req EXCEPT ![s] = Idle]
    BY <1>3 DEF NextItem, RowsTypeOK
  <2> QED  BY <1>1, <2>1 DEF Idle
<1>4. CASE req[s].todo # {}
  <2> DEFINE r == [req[s] EXCEPT !.at = "count", !.key = {}]
  <2>1. req' = [req EXCEPT ![s] = r]
    BY <1>4 DEF NextItem, RowsTypeOK
  <2>2. r \in Request /\ r.key = {} /\ r.at = "count"
    BY <1>2 DEF Request, Stage
  <2> QED  BY <2>1, <2>2
<1> QED
  BY <1>3, <1>4

\* One row more for one request less that is pending.
LEMMA OneInserted ==
    ASSUME RowsInv, NEW s \in Pending, NEW k, rows' \subseteq rows \cup {k},
           Pending' \subseteq Pending \ {s}
    PROVE LimitHolds'
<1> DEFINE n == Cardinality(rows)
           m == Cardinality(Pending)
           new == rows \cup {k}
<1>1. /\ IsFiniteSet(rows) /\ n \in Nat /\ IsFiniteSet(Pending) /\ m \in Nat
      /\ Cardinality(Sessions) \in Nat
  BY RowsFinite DEF RowsInv
<1>2. IsFiniteSet(new) /\ Cardinality(new) \in {n, n + 1}
  BY <1>1, FS_AddElement
<1> HIDE DEF new
<1>3. Cardinality(rows') \in Nat /\ Cardinality(rows') <= n + 1
  <2>1. rows' \in SUBSET new
    BY DEF new
  <2>2. IsFiniteSet(rows') /\ Cardinality(rows') <= Cardinality(new)
    BY <1>2, <2>1, FS_Subset
  <2> QED  BY <1>1, <1>2, <2>2, FS_CardinalityType
<1>4. IsFiniteSet(Pending \ {s}) /\ Cardinality(Pending \ {s}) = m - 1
  BY <1>1, FS_RemoveElement
<1>5. Cardinality(Pending') \in Nat /\ Cardinality(Pending') <= m - 1
  <2>1. Pending' \in SUBSET (Pending \ {s})
    OBVIOUS
  <2>2. IsFiniteSet(Pending') /\ Cardinality(Pending') <= m - 1
    BY <1>4, <2>1, FS_Subset
  <2> QED  BY <2>2, FS_CardinalityType
<1>6. n + m <= Limit + Cardinality(Sessions) - 1
  BY DEF RowsInv, LimitHolds
<1> HIDE DEF n, m
<1> QED
  BY <1>1, <1>3, <1>5, <1>6, LimitAssumption DEF LimitHolds

\* As many rows as the limit allows, and one request that is not pending.
LEMMA WithinLimit ==
    ASSUME RowsTypeOK', NEW n \in Nat, n = Cardinality(rows'),
           \/ n < Limit
           \/ n <= Limit /\ \E s \in Sessions : s \notin Pending'
    PROVE LimitHolds'
<1> DEFINE m == Cardinality(Pending')
           total == Cardinality(Sessions)
<1>1. IsFiniteSet(Sessions) /\ total \in Nat
  BY SessionsAssumption, FS_CardinalityType
<1>2. Pending' \in SUBSET Sessions
  BY DEF Pending
<1>3. m \in Nat /\ m <= total
  <2>1. IsFiniteSet(Pending') /\ m <= total
    BY <1>1, <1>2, FS_Subset
  <2> QED  BY <2>1, FS_CardinalityType
<1>4. (\E s \in Sessions : s \notin Pending') => m # total
  BY <1>1, <1>2, FS_Subset
<1> HIDE DEF m, total
<1>5. n + m <= Limit + total - 1
  BY <1>1, <1>3, <1>4, LimitAssumption
<1> QED
  BY <1>5 DEF LimitHolds, m, total

\* Counting: a request goes on only below the limit.
LEMMA RowsCount ==
    ASSUME RowsInv, NEW s \in Sessions, Count(s), table' = table PROVE RowsInv'
<1>1. PICK k \in req[s].todo :
          LET rest == [req[s] EXCEPT !.todo = @ \ {k}] IN
          IF Full
          THEN req' = [req EXCEPT ![s] = IF rest.todo = {} THEN Idle ELSE rest]
          ELSE req' = [req EXCEPT ![s] =
                  [rest EXCEPT !.key = {k},
                      !.at = IF table = "tokens" THEN "insert" ELSE "look"]]
  BY DEF Count
<1>2. UNCHANGED <<rows, positions>> /\ req[s].at = "count"
  BY DEF Count
<1> DEFINE rest == [req[s] EXCEPT !.todo = @ \ {k}]
           at == IF table = "tokens" THEN "insert" ELSE "look"
           next == [rest EXCEPT !.key = {k}, !.at = at]
<1>3. req[s] \in Request /\ k \in Keys
  BY DEF RowsInv, RowsTypeOK, Request
<1>4. /\ rest \in Request /\ rest.key = req[s].key /\ rest.at = "count"
      /\ next \in Request /\ next.key = {k}
  BY <1>2, <1>3 DEF Request, Stage
<1>5. Idle \in Request /\ Idle.key = {} /\ Idle.at = "idle"
  BY DEF Idle, Request, Stage
<1>6. CASE Full
  <2>1. PICK r \in {Idle, rest} : req' = [req EXCEPT ![s] = r]
    BY <1>1, <1>6
  <2> HIDE DEF rest
  <2> QED  BY <1>2, <1>4, <1>5, <2>1, NoMorePending
<1>7. CASE ~Full
  <2>1. req' = [req EXCEPT ![s] = next]
    BY <1>1, <1>7
  <2> HIDE DEF next
  <2>2. RowsTypeOK' /\ OneKey'
    BY <1>2, <1>4, <2>1 DEF RowsInv, RowsTypeOK, OneKey, Request
  <2>3. Cardinality(rows') \in Nat /\ Cardinality(rows') < Limit
    BY <1>2, <1>7, RowsFinite, LimitAssumption DEF RowsInv, Full
  <2>4. LimitHolds'
    BY <2>2, <2>3, WithinLimit
  <2> QED  BY <2>2, <2>4 DEF RowsInv
<1> QED
  BY <1>6, <1>7

\* The insert, which gives up where the symbol is there already.
LEMMA RowsInsert ==
    ASSUME RowsInv, NEW s \in Sessions, Insert(s), table' = table
    PROVE RowsInv'
<1>1. req[s].at = "insert" /\ s \in Pending /\ UNCHANGED positions
  BY DEF Insert, Pending
<1>2. Idle \in Request /\ Idle.key = {} /\ Idle.at = "idle"
  BY DEF Idle, Request, Stage
<1>3. ASSUME NEW r \in Request, req' = [req EXCEPT ![s] = r], r.key = {},
             r.at \notin {"look", "insert"}, NEW k, rows' \subseteq rows \cup {k},
             rows' \subseteq Keys
      PROVE RowsInv'
  <2>1. RowsTypeOK' /\ OneKey'
    BY <1>1, <1>3 DEF RowsInv, RowsTypeOK, OneKey, Request
  <2>2. Pending' \subseteq Pending \ {s}
    BY <1>3 DEF Pending, RowsInv, RowsTypeOK
  <2>3. LimitHolds'
    BY <1>1, <1>3, <2>2, OneInserted
  <2> QED  BY <2>1, <2>3 DEF RowsInv
<1>4. CASE table = "tokens"
  <2>1. PICK k \in Keys \ rows : rows' = rows \cup {k}
    BY <1>4 DEF Insert
  <2>2. PICK r \in Request : /\ req' = [req EXCEPT ![s] = r] /\ r.key = {}
                             /\ r.at \notin {"look", "insert"}
    BY <1>4, NextItemEffect DEF Insert, RowsInv
  <2>3. rows' \subseteq Keys
    BY <2>1 DEF RowsInv, RowsTypeOK
  <2> QED  BY <1>3, <2>1, <2>2, <2>3
<1>5. CASE table # "tokens" /\ req[s].key \subseteq rows
  <2>1. req' = [req EXCEPT ![s] = Idle] /\ rows' = rows
    BY <1>5 DEF Insert
  <2>2. rows' \subseteq Keys
    BY <2>1 DEF RowsInv, RowsTypeOK
  <2> QED  BY <1>2, <1>3, <2>1, <2>2
<1>6. CASE table # "tokens" /\ ~(req[s].key \subseteq rows)
  <2>1. PICK k \in req[s].key : TRUE
    BY <1>6
  <2>2. rows' = rows \cup {k}
    BY <1>6, <2>1 DEF Insert, RowsInv, OneKey
  <2>3. PICK r \in Request : /\ req' = [req EXCEPT ![s] = r] /\ r.key = {}
                             /\ r.at \notin {"look", "insert"}
    BY <1>6, NextItemEffect DEF Insert, RowsInv
  <2>4. rows' \subseteq Keys
    BY <2>1, <2>2 DEF RowsInv, RowsTypeOK
  <2> QED  BY <1>3, <2>2, <2>3, <2>4
<1> QED
  BY <1>4, <1>5, <1>6

\* A deletion takes the rows from those of the other requests.
LEMMA RowsRemove ==
    ASSUME RowsInv, NEW s \in Sessions, Remove(s), table' = table
    PROVE RowsInv'
<1>1. /\ rows' \subseteq rows /\ UNCHANGED positions
      /\ req' = [t \in Sessions |->
                  IF t = s THEN Idle
                  ELSE [req[t] EXCEPT !.items = @ \ req[s].items]]
      /\ req[s].at = "remove"
  BY DEF Remove
<1>2. ASSUME NEW t \in Sessions
      PROVE /\ req'[t] \in Request
            /\ req'[t].key \in {req[t].key, {}}
            /\ req'[t].at \in {req[t].at, "idle"}
  <2>1. req[t] \in Request
    BY DEF RowsInv, RowsTypeOK, Request
  <2>2. Idle \in Request /\ Idle.key = {} /\ Idle.at = "idle"
    BY DEF Idle, Request, Stage
  <2>3. CASE t = s
    BY <1>1, <2>2, <2>3
  <2>4. CASE t # s
    <3>1. req'[t] = [req[t] EXCEPT !.items = @ \ req[s].items]
      BY <1>1, <2>4
    <3> QED  BY <2>1, <3>1 DEF Request
  <2> QED  BY <2>3, <2>4
<1>3. RowsTypeOK'
  <2>1. req' \in [Sessions -> Request]
    BY <1>1, <1>2
  <2> QED  BY <1>1, <2>1 DEF RowsInv, RowsTypeOK, Request
<1>4. OneKey'
  BY <1>2 DEF RowsInv, OneKey
<1>5. Pending' \subseteq Pending
  BY <1>2 DEF Pending
<1>6. LimitHolds'
  <2>1. /\ Cardinality(rows') \in Nat /\ Cardinality(rows') <= Cardinality(rows)
        /\ Cardinality(Pending') \in Nat
        /\ Cardinality(Pending') <= Cardinality(Pending)
    <3>1. rows' \in SUBSET rows /\ Pending' \in SUBSET Pending
      BY <1>1, <1>5
    <3>2. IsFiniteSet(rows') /\ IsFiniteSet(Pending')
      BY <3>1, RowsFinite, FS_Subset DEF RowsInv
    <3> QED  BY <3>1, <3>2, RowsFinite, FS_Subset, FS_CardinalityType DEF
        RowsInv
  <2> QED  BY <2>1, RowsFinite, LimitAssumption DEF RowsInv, LimitHolds
<1> QED
  BY <1>3, <1>4, <1>6 DEF RowsInv

\* The import fills the table to its limit and no further.
LEMMA RowsSync ==
    ASSUME RowsInv, NEW s \in Sessions, NEW symbols \in SUBSET Keys,
           NEW held \in SUBSET Keys, Sync(s, symbols, held), table' = table
    PROVE RowsInv'
<1>1. PICK created \in Ensured(held) : rows' = rows \cup created
  BY DEF Sync
<1>2. /\ positions' = symbols /\ req' = req /\ req[s] = Idle
  BY DEF Sync
<1> DEFINE new == held \ rows
           slots == IF Full THEN 0 ELSE Limit - Cardinality(rows)
           n == Cardinality(rows)
<1>3. /\ created \subseteq new
      /\ Cardinality(created) =
            IF Cardinality(new) < slots THEN Cardinality(new) ELSE slots
  BY DEF Ensured
<1>4. IsFiniteSet(new) /\ IsFiniteSet(created) /\ IsFiniteSet(rows) /\ n \in Nat
  <2>1. new \in SUBSET Keys /\ created \in SUBSET Keys
    BY <1>3
  <2> QED  BY <2>1, KeysAssumption, FS_Subset, RowsFinite DEF RowsInv
<1>5. Cardinality(new) \in Nat /\ Cardinality(created) \in Nat
  BY <1>4, FS_CardinalityType
<1>6. Cardinality(created) <= slots
  <2>1. slots \in Nat
    BY <1>4, LimitAssumption DEF Full
  <2> HIDE DEF slots, new
  <2> QED  BY <1>3, <1>5, <2>1
<1>7. RowsTypeOK' /\ OneKey'
  BY <1>1, <1>2, <1>3 DEF RowsInv, RowsTypeOK, OneKey
<1>8. s \notin Pending' /\ Pending' = Pending
  BY <1>2 DEF Pending, Idle
<1>9. CASE Full
  <2>1. created = {}
    <3>1. Cardinality(created) = 0
      BY <1>5, <1>6, <1>9
    <3> QED  BY <1>4, <3>1, FS_EmptySet
  <2>2. rows' = rows
    BY <1>1, <2>1
  <2> QED  BY <1>7, <1>8, <2>2 DEF RowsInv, LimitHolds
<1>10. CASE ~Full
  <2>1. Cardinality(rows') \in Nat /\ Cardinality(rows') <= Limit
    <3>1. Cardinality(rows \cup created) =
             n + Cardinality(created) - Cardinality(rows \cap created)
      BY <1>4, FS_Union
    <3>2. rows \cap created = {}
      BY <1>3
    <3>3. Cardinality(rows') = n + Cardinality(created)
      <4>1. Cardinality(rows \cap created) = 0
        BY <3>2, FS_EmptySet
      <4>2. Cardinality(rows') = n + Cardinality(created) - 0
        BY <1>1, <3>1, <4>1
      <4> HIDE DEF n
      <4> QED  BY <1>4, <1>5, <4>2
    <3>4. Cardinality(created) <= Limit - n
      BY <1>6, <1>10
    <3> QED  BY <1>4, <1>5, <3>3, <3>4, LimitAssumption
  <2>2. LimitHolds'
    BY <1>7, <1>8, <2>1, WithinLimit
  <2> QED  BY <1>7, <2>2 DEF RowsInv
<1> QED
  BY <1>9, <1>10

\* Every step of a request keeps the limit.
LEMMA RowsKeep ==
    ASSUME RowsInv, RowsNext \/ UNCHANGED <<table, rowVars>> PROVE RowsInv'
<1>1. CASE UNCHANGED <<table, rowVars>>
  BY <1>1 DEF RowsInv, RowsTypeOK, OneKey, LimitHolds, Pending, rowVars
<1>2. ASSUME NEW s \in Sessions, RowsStep(s), table' = table PROVE RowsInv'
  <2>0. Idle \in Request /\ req[s] \in Request
    BY DEF Idle, Request, Stage, RowsInv, RowsTypeOK
  <2>1. ASSUME NEW todo \in SUBSET Keys, AskToAdd(s, todo) PROVE RowsInv'
    <3> DEFINE r == [Idle EXCEPT !.at = "count", !.todo = todo]
    <3>1. r \in Request /\ r.at = "count" /\ r.key = {}
      BY DEF Idle, Request, Stage
    <3>2. req' = [req EXCEPT ![s] = r] /\ UNCHANGED <<rows, positions>>
      BY <2>1 DEF AskToAdd
    <3> HIDE DEF r
    <3> QED  BY <1>2, <3>1, <3>2, NoMorePending
  <2>2. ASSUME NEW keys \in SUBSET Keys, AskToDelete(s, keys) PROVE RowsInv'
    <3> DEFINE r == [Idle EXCEPT !.at = "remove", !.items = keys \cap rows]
    <3>1. r \in Request /\ r.at = "remove" /\ r.key = {}
      BY DEF Idle, Request, Stage
    <3>2. req' = [req EXCEPT ![s] = r] /\ UNCHANGED <<rows, positions>>
      BY <2>2 DEF AskToDelete
    <3> HIDE DEF r
    <3> QED  BY <1>2, <3>1, <3>2, NoMorePending
  <2>3. CASE Look(s)
    <3>1. req[s].at = "look" /\ UNCHANGED <<rows, positions>>
      BY <2>3 DEF Look
    <3>2. CASE NextItem(s)
      <4>1. PICK r \in Request : /\ req' = [req EXCEPT ![s] = r] /\ r.key = {}
                                 /\ r.at \notin {"look", "insert"}
        BY <3>2, NextItemEffect DEF RowsInv
      <4> QED  BY <1>2, <3>1, <4>1, NoMorePending
    <3>3. CASE req' = [req EXCEPT ![s].at = "insert"]
      <4> DEFINE r == [req[s] EXCEPT !.at = "insert"]
      <4>1. r \in Request /\ r.key = req[s].key
        BY <2>0 DEF Request, Stage
      <4>2. req' = [req EXCEPT ![s] = r]
        BY <3>3
      <4> HIDE DEF r
      <4> QED  BY <1>2, <3>1, <4>1, <4>2, NoMorePending
    <3> QED  BY <2>3, <3>2, <3>3 DEF Look
  <2>4. CASE Clear(s)
    BY <1>2, <2>4 DEF Clear, RowsInv, RowsTypeOK, OneKey, LimitHolds, Pending
  <2> QED  BY <1>2, <2>1, <2>2, <2>3, <2>4, RowsCount, RowsInsert, RowsRemove,
           RowsSync DEF RowsStep
<1> QED
  BY <1>1, <1>2 DEF RowsNext

\* An empty table.
LEMMA RowsInitially == ASSUME RowsInit PROVE RowsInv
<1>1. RowsTypeOK /\ OneKey
  BY DEF RowsInit, RowsTypeOK, OneKey, Idle, Stage
<1>2. rows = {} /\ Pending = {}
  BY DEF RowsInit, Pending, Idle
<1>3. LimitHolds
  BY <1>1, <1>2, RowsFinite, LimitAssumption, FS_EmptySet DEF LimitHolds
<1> QED
  BY <1>1, <1>3 DEF RowsInv

-----------------------------------------------------------------------------
(* A backtest.                                                             *)

\* The thread is the only writer but for the deletion: what an entry says
\* follows from where the thread is.
BacktestInv ==
    /\ BacktestTypeOK /\ BacktestTruth
    /\ thread = "new" => backtest = NoEntry /\ ~deleted
    /\ thread # "new" /\ backtest = NoEntry => deleted
    /\ thread \in {"new", "start", "plan"} => records = <<>>
    /\ thread \in {"days", "done"} => range.kind = "days"
    /\ Len(records) <= range.days
    /\ backtest.status = "completed" => thread = "done"

\* The trades of a list are finitely many.
LEMMA TradesFinite ==
    ASSUME NEW rs \in Seq(Record), NEW W \in SUBSET Trades(rs)
    PROVE IsFiniteSet(W) /\ Cardinality(W) \in Nat
<1>1. DOMAIN rs = 1..Len(rs) /\ Len(rs) \in Nat
  BY LenProperties
<1>2. W \in SUBSET (1..Len(rs))
  BY <1>1 DEF Trades
<1>3. IsFiniteSet(1..Len(rs))
  BY <1>1, FS_Interval
<1>4. IsFiniteSet(W)
  BY <1>2, <1>3, FS_Subset
<1> QED
  BY <1>4, FS_CardinalityType

\* The statistics count the trades, and of BUYs those that gained.
LEMMA StatsFacts ==
    ASSUME NEW rs \in Seq(Record)
    PROVE /\ Stats(rs) \in [signals : Nat, wins : Nat]
          /\ Stats(rs).signals = Cardinality(Trades(rs))
          /\ (\A i \in Trades(rs) : rs[i].action = "BUY") =>
                Stats(rs).wins = Cardinality({i \in Trades(rs) : rs[i].ret = 1})
<1> DEFINE won == {i \in Trades(rs) : Won(rs[i])}
<1>1. Cardinality(Trades(rs)) \in Nat /\ Cardinality(won) \in Nat
  BY TradesFinite
<1>2. ASSUME \A i \in Trades(rs) : rs[i].action = "BUY"
      PROVE won = {i \in Trades(rs) : rs[i].ret = 1}
  BY <1>2 DEF Won
<1> QED
  BY <1>1, <1>2 DEF Stats

\* The entry, field by field.
Entry ==
    [status : {"absent", "none", "pending", "running", "completed"},
     whole : BOOLEAN, total : 0..MaxDays, completed : 0..MaxDays,
     records : Seq(Record), stats : [signals : Nat, wins : Nat]]

\* No entry.
LEMMA NoEntryFacts ==
    /\ NoEntry \in Entry /\ NoEntry.status = "absent" /\ NoEntry.completed = 0
    /\ NoEntry.whole = FALSE
<1>1. <<>> \in Seq(Record)
  BY EmptySeq
<1> QED
  BY <1>1, MaxDaysAssumption DEF NoEntry, NoStats, Entry

\* A write of the thread: it keeps who made the entry and completes nothing.
LEMMA WriteEffect ==
    ASSUME BacktestInv, NEW e \in Entry, backtest' = e, UNCHANGED <<range,
        deleted>>,
           e.whole = backtest.whole, e.status # "completed",
           thread \notin {"new", "done"},
           records' \in Seq(Record), Len(records') \in Nat,
           Len(records') <= range.days, e.completed <= Len(records'),
           thread' \in {"plan", "days"}, thread' = "plan" => records' = <<>>,
           thread' = "days" => range.kind = "days", e.status # "absent"
    PROVE BacktestInv'
<1>1. backtest \in Entry
  BY DEF BacktestInv, BacktestTypeOK, Entry
<1>2. backtest.whole <=> ~deleted
  BY NoEntryFacts DEF BacktestInv, BacktestTruth
<1>3. BacktestTypeOK'
  BY DEF BacktestInv, BacktestTypeOK, Entry
<1>4. BacktestTruth'
  BY <1>2 DEF BacktestTruth
<1> QED
  BY <1>3, <1>4, NoEntryFacts DEF BacktestInv

\* Every step keeps it.
LEMMA BacktestKeeps ==
    ASSUME BacktestInv, BacktestNext \/ UNCHANGED backtestVars
    PROVE BacktestInv'
<1>0. /\ backtest \in Entry /\ records \in Seq(Record) /\ Len(records) \in Nat
      /\ range \in SampleRange /\ range.days \in 0..MaxDays
  <2>1. /\ backtest \in Entry /\ records \in Seq(Record)
        /\ range \in SampleRange
    BY DEF BacktestInv, BacktestTypeOK, Entry
  <2>2. range.days \in 0..MaxDays
    BY <2>1, MaxDaysAssumption DEF SampleRange
  <2> QED  BY <2>1, <2>2, LenProperties
<1>1. CASE UNCHANGED backtestVars
  BY <1>1 DEF backtestVars, BacktestInv, BacktestTypeOK, BacktestTruth
<1>2. CASE Submit
  <2> DEFINE e == [NoEntry EXCEPT !.status = "pending", !.whole = TRUE]
  <2>1. /\ backtest' = e /\ thread' = "start" /\ thread = "new"
        /\ UNCHANGED <<range, records, deleted>>
    BY <1>2 DEF Submit, Set
  <2>2. /\ e \in Entry /\ e.status = "pending" /\ e.whole = TRUE
        /\ e.completed = 0
    BY NoEntryFacts DEF Entry
  <2>3. ~deleted /\ Len(records) >= 0
    BY <1>0, <2>1 DEF BacktestInv
  <2> HIDE DEF e
  <2>4. BacktestTypeOK'
    BY <2>1, <2>2 DEF BacktestInv, BacktestTypeOK, Entry
  <2>5. BacktestTruth'
    BY <1>0, <2>1, <2>2, <2>3 DEF BacktestTruth
  <2> QED  BY <2>1, <2>2, <2>4, <2>5, NoEntryFacts DEF BacktestInv
<1>3. CASE SetRunning
  <2> DEFINE e == [backtest EXCEPT !.status = "running"]
  <2>1. /\ backtest' = e /\ thread' = "plan" /\ thread = "start"
        /\ UNCHANGED <<range, records, deleted>>
    BY <1>3 DEF SetRunning, Set
  <2>2. /\ e \in Entry /\ e.status = "running" /\ e.whole = backtest.whole
        /\ e.completed = backtest.completed
    BY <1>0 DEF Entry
  <2>3. /\ records = <<>> /\ Len(records) <= range.days
        /\ backtest.completed <= Len(records)
    BY <2>1 DEF BacktestInv, BacktestTruth
  <2> HIDE DEF e
  <2> QED  BY <1>0, <2>1, <2>2, <2>3, WriteEffect
<1>4. CASE PlanRaises
  BY <1>4 DEF PlanRaises, BacktestInv, BacktestTypeOK, BacktestTruth
<1>5. CASE Plan
  <2> DEFINE e == [backtest EXCEPT !.total = range.days, !.completed = 0,
                     !.records = <<>>,
                     !.status = IF @ = "absent" THEN "none" ELSE @]
  <2>1. /\ backtest' = e /\ thread' = "days" /\ thread = "plan"
        /\ range.kind = "days" /\ UNCHANGED <<range, records, deleted>>
    BY <1>5 DEF Plan, Set
  <2>2. backtest.status # "completed"
    BY <2>1 DEF BacktestInv
  <2>3. /\ e \in Entry /\ e.status \notin {"completed", "absent"}
        /\ e.whole = backtest.whole /\ e.completed = 0
    <3>1. 0 \in 0..MaxDays /\ <<>> \in Seq(Record)
      BY MaxDaysAssumption, EmptySeq
    <3> QED  BY <1>0, <2>2, <3>1 DEF Entry
  <2>4. Len(records) <= range.days
    BY DEF BacktestInv
  <2> HIDE DEF e
  <2> QED  BY <1>0, <2>1, <2>3, <2>4, WriteEffect
<1>6. CASE Analyse
  <2> DEFINE e == [backtest EXCEPT !.completed = Len(records'),
                     !.records = records',
                     !.status = IF @ = "absent" THEN "none" ELSE @]
  <2>1. /\ backtest' = e /\ thread' = thread /\ thread = "days"
        /\ Len(records) < range.days /\ UNCHANGED <<range, deleted>>
    BY <1>6 DEF Analyse, Set
  <2>2. PICK r \in Record : records' = Append(records, r)
    BY <1>6 DEF Analyse
  <2>3. records' \in Seq(Record) /\ Len(records') = Len(records) + 1
    BY <1>0, <2>2, AppendProperties
  <2>4. Len(records') \in 0..MaxDays /\ Len(records') <= range.days
    BY <1>0, <2>1, <2>3, MaxDaysAssumption
  <2>5. backtest.status # "completed" /\ range.kind = "days"
    BY <2>1 DEF BacktestInv
  <2>6. /\ e \in Entry /\ e.status \notin {"completed", "absent"}
        /\ e.whole = backtest.whole /\ e.completed = Len(records')
    BY <1>0, <2>3, <2>4, <2>5 DEF Entry
  <2> HIDE DEF e
  <2>7. Len(records') <= Len(records')
    BY <2>4
  <2> QED  BY <1>0, <2>1, <2>3, <2>4, <2>5, <2>6, <2>7, WriteEffect
<1>7. CASE Complete
  <2> DEFINE e == [backtest EXCEPT !.status = "completed", !.records = records,
                     !.stats = Stats(records)]
  <2>1. /\ backtest' = e /\ thread' = "done" /\ thread = "days"
        /\ Len(records) = range.days /\ UNCHANGED <<range, records, deleted>>
    BY <1>7 DEF Complete, Set
  <2>2. /\ e \in Entry /\ e.status = "completed" /\ e.whole = backtest.whole
        /\ e.completed = backtest.completed /\ e.records = records
        /\ e.stats = Stats(records)
    BY <1>0, StatsFacts DEF Entry
  <2>3. backtest.whole <=> ~deleted
    BY <2>1, NoEntryFacts DEF BacktestInv, BacktestTruth
  <2> HIDE DEF e
  <2>4. BacktestTypeOK'
    BY <2>1, <2>2 DEF BacktestInv, BacktestTypeOK, Entry
  <2>5. backtest.completed <= Len(records)
    BY DEF BacktestInv, BacktestTruth
  <2>6. BacktestTruth'
    BY <1>0, <2>1, <2>2, <2>3, <2>5, StatsFacts DEF BacktestTruth
  <2> QED  BY <2>1, <2>2, <2>4, <2>6, NoEntryFacts DEF BacktestInv
<1>8. CASE DeleteBacktest
  <2>1. /\ backtest' = NoEntry /\ deleted' = TRUE /\ thread # "new"
        /\ UNCHANGED <<range, thread, records>>
    BY <1>8 DEF DeleteBacktest, BacktestInv
  <2>2. BacktestTypeOK'
    BY <2>1, NoEntryFacts DEF BacktestInv, BacktestTypeOK, Entry
  <2>3. BacktestTruth'
    BY <1>0, <2>1, NoEntryFacts DEF BacktestTruth
  <2> QED  BY <2>1, <2>2, <2>3, NoEntryFacts DEF BacktestInv
<1> QED
  BY <1>1, <1>2, <1>3, <1>4, <1>5, <1>6, <1>7, <1>8 DEF BacktestNext

\* Before the submission.
LEMMA BacktestInitially == ASSUME BacktestInit PROVE BacktestInv
<1>1. /\ backtest = NoEntry /\ thread = "new" /\ records = <<>>
      /\ deleted = FALSE /\ range \in SampleRange
  BY DEF BacktestInit
<1>2. Len(records) = 0 /\ records \in Seq(Record)
  BY <1>1, EmptySeq
<1>3. Len(records) <= range.days
  BY <1>1, <1>2, MaxDaysAssumption DEF SampleRange
<1>4. BacktestTypeOK
  BY <1>1, <1>2, NoEntryFacts DEF BacktestTypeOK, Entry
<1>5. BacktestTruth
  BY <1>1, <1>2, NoEntryFacts DEF BacktestTruth
<1> QED
  BY <1>1, <1>3, <1>4, <1>5, NoEntryFacts DEF BacktestInv

-----------------------------------------------------------------------------
(* Login codes.                                                            *)

Code == [open : BOOLEAN, expired : BOOLEAN, used : Nat]
Login == [at : {"idle", "user", "accept"}, code : 0..MaxCodes, knew : BOOLEAN]

CodesTypeOK ==
    /\ codes \in Seq(Code) /\ Len(codes) <= MaxCodes
    /\ known \in BOOLEAN
    /\ login \in [Clients -> Login]

\* A request that verifies a code verifies one that was sent.
LoginsNameCodes ==
    \A s \in Clients : login[s].at # "idle" => login[s].code \in DOMAIN codes

CodesInv == CodesTypeOK /\ LoginsNameCodes /\ CodesHold

\* The requests that hold a code are some of the clients.
LEMMA HoldersCount ==
    /\ Cardinality(Clients) \in Nat
    /\ \A n : /\ IsFiniteSet(Holders(n)) /\ Cardinality(Holders(n)) \in Nat
              /\ Cardinality(Holders(n)) <= Cardinality(Clients)
<1>1. IsFiniteSet(Clients)
  BY ClientsAssumption
<1>2. ASSUME NEW n PROVE Holders(n) \in SUBSET Clients
  BY DEF Holders
<1> QED
  BY <1>1, <1>2, FS_Subset, FS_CardinalityType

\* Where every code counts right, a step that keeps the shape of the codes has
\* them counting right after it.
LEMMA CodesCounted ==
    ASSUME codes' \in Seq(Code),
           Len(codes') <= MaxCodes, known' \in BOOLEAN,
           login' \in [Clients -> Login], LoginsNameCodes',
           \A n \in Open' : n = Len(codes'),
           \A n \in DOMAIN codes' :
               /\ codes'[n].used + Cardinality(Holders(n)') <= Cardinality(Clients)
               /\ codes'[n].used > 0 => ~codes'[n].open
    PROVE CodesInv'
<1> QED
  BY DEF CodesInv, CodesTypeOK, CodesHold

\* What the invariant says of one code and of one request.
LEMMA CodesFacts ==
    ASSUME CodesInv
    PROVE /\ codes \in Seq(Code)
          /\ Len(codes) \in Nat /\ DOMAIN codes = 1..Len(codes)
          /\ \A n \in DOMAIN codes :
                /\ codes[n] \in Code
                /\ codes[n].used \in Nat /\ codes[n].open \in BOOLEAN
                /\ codes[n].expired \in BOOLEAN
                /\ codes[n].open => n = Len(codes)
                /\ codes[n].used + Cardinality(Holders(n)) <= Cardinality(Clients)
                /\ codes[n].used > 0 => ~codes[n].open
<1>1. codes \in Seq(Code) /\ Len(codes) \in Nat /\ DOMAIN codes = 1..Len(codes)
  BY LenProperties DEF CodesInv, CodesTypeOK
<1>2. \A n \in DOMAIN codes : codes[n] \in Code
  BY <1>1, ElementOfSeq
<1> QED
  BY <1>1, <1>2 DEF CodesInv, CodesHold, Open, Code

\* A new code: the older ones are closed, and nobody holds the new one.
LEMMA CodesSend == ASSUME CodesInv, SendCode PROVE CodesInv'
<1> DEFINE old == [i \in DOMAIN codes |-> [codes[i] EXCEPT !.open = FALSE]]
           new == [open |-> TRUE, expired |-> FALSE, used |-> 0]
<1>1. codes' = Append(old, new) /\ Len(codes) < MaxCodes
      /\ UNCHANGED <<known, login>>
  BY DEF SendCode
<1>2. old \in Seq(Code) /\ Len(old) = Len(codes) /\ new \in Code
  <2>1. \A c \in Code : [c EXCEPT !.open = FALSE] \in Code
    BY DEF Code
  <2>2. old \in [1..Len(codes) -> Code]
    BY <2>1, CodesFacts
  <2>3. new \in Code
    BY DEF Code
  <2> HIDE DEF old
  <2> QED  BY <2>2, <2>3, CodesFacts
<1>3. /\ codes' \in Seq(Code) /\ Len(codes') = Len(codes) + 1
      /\ DOMAIN codes' = 1..Len(codes) + 1
      /\ \A n \in 1..Len(codes) : codes'[n] = old[n]
      /\ codes'[Len(codes) + 1] = new
  BY <1>1, <1>2, CodesFacts
<1>4. \A n \in DOMAIN codes : /\ codes'[n].used = codes[n].used
                              /\ ~codes'[n].open
  <2> TAKE n \in DOMAIN codes
  <2>1. codes'[n] = [codes[n] EXCEPT !.open = FALSE] /\ codes[n] \in Code
    BY <1>3, CodesFacts
  <2> QED  BY <2>1 DEF Code
<1>5. login' \in [Clients -> Login] /\ known' \in BOOLEAN
  BY <1>1 DEF CodesInv, CodesTypeOK
<1>6. LoginsNameCodes'
  BY <1>1, <1>3, CodesFacts DEF CodesInv, LoginsNameCodes
<1>7. \A n \in Open' : n = Len(codes')
  BY <1>3, <1>4, CodesFacts DEF Open
<1>8. ASSUME NEW n \in DOMAIN codes'
      PROVE /\ codes'[n].used + Cardinality(Holders(n)') <= Cardinality(Clients)
            /\ codes'[n].used > 0 => ~codes'[n].open
  <2>1. Holders(n)' = Holders(n)
    BY <1>1 DEF Holders
  <2>2. CASE n \in DOMAIN codes
    BY <1>4, <2>1, <2>2, CodesFacts
  <2>3. CASE n \notin DOMAIN codes
    <3>1. codes'[n].used = 0
      BY <1>3, <2>3, CodesFacts
    <3> QED  BY <2>1, <3>1, HoldersCount
  <2> QED  BY <2>2, <2>3
<1> HIDE DEF old, new
<1> QED
  BY <1>1, <1>3, <1>5, <1>6, <1>7, <1>8, CodesFacts, CodesCounted,
     AccountBounds

\* A step that leaves the codes as they are but for their age, and the logins.
LEMMA CodesAge ==
    ASSUME CodesInv, NEW n \in DOMAIN codes, Expire(n) PROVE CodesInv'
<1>1. /\ UNCHANGED <<known, login>>
      /\ codes' = [i \in DOMAIN codes |->
             IF i <= n THEN [codes[i] EXCEPT !.expired = TRUE] ELSE codes[i]]
  BY DEF Expire
<1>2. ASSUME NEW i \in DOMAIN codes
      PROVE codes'[i] \in Code /\ codes'[i].used = codes[i].used
            /\ codes'[i].open = codes[i].open
  <2>1. codes'[i] \in {codes[i], [codes[i] EXCEPT !.expired = TRUE]}
        /\ codes[i] \in Code
    BY <1>1, CodesFacts
  <2> QED  BY <2>1 DEF Code
<1>3. codes' \in Seq(Code) /\ Len(codes') = Len(codes) /\ DOMAIN codes' = DOMAIN codes
  BY <1>1, <1>2, CodesFacts
<1>4. \A i : Holders(i)' = Holders(i)
  BY <1>1 DEF Holders
<1>5. login' \in [Clients -> Login] /\ known' \in BOOLEAN
      /\ Len(codes') <= MaxCodes /\ LoginsNameCodes'
  BY <1>1, <1>3 DEF CodesInv, CodesTypeOK, LoginsNameCodes
<1>6. \A i \in Open' : i = Len(codes')
  BY <1>2, <1>3, CodesFacts DEF Open
<1>7. ASSUME NEW i \in DOMAIN codes'
      PROVE /\ codes'[i].used + Cardinality(Holders(i)') <= Cardinality(Clients)
            /\ codes'[i].used > 0 => ~codes'[i].open
  BY <1>2, <1>3, <1>4, CodesFacts
<1> QED
  BY <1>3, <1>5, <1>6, <1>7, CodesCounted

\* A request that looks the newest code up finds it open, and so unused.
LEMMA CodesLookUp ==
    ASSUME CodesInv, NEW s \in Clients, NEW n \in DOMAIN codes, LookUp(s, n)
    PROVE CodesInv'
<1> DEFINE next == [NoLogin EXCEPT !.at = "user", !.code = n]
<1>1. /\ UNCHANGED <<codes, known>> /\ login' = [login EXCEPT ![s] = next]
      /\ login[s] = NoLogin /\ n \in Open
  BY DEF LookUp
<1>2. next \in Login /\ next.code = n /\ next.at = "user"
  <2>1. n \in 0..MaxCodes
    <3>1. Len(codes) <= MaxCodes /\ n \in 1..Len(codes) /\ Len(codes) \in Nat
      BY CodesFacts DEF CodesInv, CodesTypeOK
    <3> QED  BY <3>1, AccountBounds
  <2> QED  BY <2>1 DEF Login, NoLogin
<1> HIDE DEF next
<1>3. login' \in [Clients -> Login] /\ LoginsNameCodes'
  BY <1>1, <1>2 DEF CodesInv, CodesTypeOK, LoginsNameCodes
<1>4. \A i \in Open' : i = Len(codes')
  BY <1>1, CodesFacts DEF Open
<1>5. ASSUME NEW i \in DOMAIN codes'
      PROVE /\ codes'[i].used + Cardinality(Holders(i)') <= Cardinality(Clients)
            /\ codes'[i].used > 0 => ~codes'[i].open
  <2>1. codes'[i] = codes[i] /\ i \in DOMAIN codes
    BY <1>1
  <2>2. CASE i = n
    <3>1. codes[i].used = 0
      BY <1>1, <2>2, CodesFacts DEF Open
    <3>2. Holders(i)' \in SUBSET Clients
      BY DEF Holders
    <3>3. Cardinality(Holders(i)') \in Nat
          /\ Cardinality(Holders(i)') <= Cardinality(Clients)
      BY <3>2, ClientsAssumption, FS_Subset, FS_CardinalityType
    <3> QED  BY <2>1, <3>1, <3>3, CodesFacts
  <2>3. CASE i # n
    <3>1. Holders(i)' = Holders(i)
      BY <1>1, <1>2, <2>3 DEF Holders, NoLogin, CodesInv, CodesTypeOK
    <3> QED  BY <2>1, <3>1, CodesFacts
  <2> QED  BY <2>2, <2>3
<1> QED
  BY <1>1, <1>3, <1>4, <1>5, CodesFacts, CodesCounted
     DEF CodesInv, CodesTypeOK

\* Whether there is a user changes nothing.
LEMMA CodesFindUser ==
    ASSUME CodesInv, NEW s \in Clients, FindUser(s) PROVE CodesInv'
<1>1. /\ UNCHANGED <<codes, known>> /\ login[s].at = "user"
      /\ login' = [login EXCEPT ![s].at = "accept", ![s].knew = known]
  BY DEF FindUser
<1>2. login \in [Clients -> Login] /\ known \in BOOLEAN
  BY DEF CodesInv, CodesTypeOK
<1>3. login' \in [Clients -> Login]
  BY <1>1, <1>2 DEF Login
<1>4. \A t \in Clients : /\ login'[t].code = login[t].code
                         /\ login'[t].at # "idle" <=> login[t].at # "idle"
  BY <1>1, <1>2 DEF Login
<1>5. LoginsNameCodes' /\ \A i : Holders(i)' = Holders(i)
  BY <1>1, <1>4 DEF CodesInv, LoginsNameCodes, Holders
<1>6. \A i \in Open' : i = Len(codes')
  BY <1>1, CodesFacts DEF Open
<1>7. ASSUME NEW i \in DOMAIN codes'
      PROVE /\ codes'[i].used + Cardinality(Holders(i)') <= Cardinality(Clients)
            /\ codes'[i].used > 0 => ~codes'[i].open
  BY <1>1, <1>5, CodesFacts
<1> QED
  BY <1>1, <1>3, <1>5, <1>6, <1>7, CodesFacts, CodesCounted
     DEF CodesInv, CodesTypeOK

\* The request that consumes a code holds it no longer.
LEMMA CodesAccept ==
    ASSUME CodesInv, NEW s \in Clients, Accept(s) PROVE CodesInv'
<1>1. /\ known' = TRUE /\ login' = [login EXCEPT ![s] = NoLogin]
      /\ login[s].at = "accept"
      /\ \/ codes' = codes
         \/ codes' = [codes EXCEPT ![login[s].code].used = @ + 1,
                                   ![login[s].code].open = FALSE]
  BY DEF Accept
<1>2. PICK c \in DOMAIN codes : c = login[s].code
  BY <1>1 DEF CodesInv, LoginsNameCodes
<1>3. login \in [Clients -> Login] /\ NoLogin \in Login
  BY AccountBounds DEF CodesInv, CodesTypeOK, Login, NoLogin
<1>4. /\ codes' \in Seq(Code) /\ Len(codes') = Len(codes)
      /\ DOMAIN codes' = DOMAIN codes
      /\ \A i \in DOMAIN codes :
            /\ i # c => codes'[i] = codes[i]
            /\ codes'[c].used \in {codes[c].used, codes[c].used + 1}
            /\ codes'[i].open => codes[i].open
            /\ codes'[c] = codes[c] \/ ~codes'[c].open
  <2>1. CASE codes' = codes
    BY <2>1, CodesFacts
  <2>2. CASE codes' # codes
    <3>1. codes' = [codes EXCEPT ![c].used = @ + 1, ![c].open = FALSE]
      BY <1>1, <1>2, <2>2
    <3>2. codes' = [codes EXCEPT ![c] =
                       [codes[c] EXCEPT !.used = @ + 1, !.open = FALSE]]
      BY <3>1
    <3> DEFINE d == [codes[c] EXCEPT !.used = @ + 1, !.open = FALSE]
    <3>3. d \in Code /\ d.used = codes[c].used + 1 /\ d.open = FALSE
      <4>1. PICK old \in Code : old = codes[c]
        BY <1>2, CodesFacts
      <4> DEFINE more == [old EXCEPT !.used = @ + 1]
      <4>2. more \in Code /\ more.used = old.used + 1
        BY DEF Code
      <4>3. d = [more EXCEPT !.open = FALSE]
        BY <4>1
      <4> HIDE DEF d, more
      <4> QED  BY <4>1, <4>2, <4>3 DEF Code
    <3> HIDE DEF d
    <3>4. codes' = [codes EXCEPT ![c] = d]
      BY <3>2 DEF d
    <3> QED  BY <1>2, <3>3, <3>4, CodesFacts
  <2> QED  BY <2>1, <2>2
<1>5. login' \in [Clients -> Login] /\ LoginsNameCodes'
  BY <1>1, <1>3, <1>4 DEF CodesInv, LoginsNameCodes, NoLogin
<1>6. \A i \in Open' : i = Len(codes')
  BY <1>4, CodesFacts DEF Open
<1>7. ASSUME NEW i \in DOMAIN codes'
      PROVE /\ codes'[i].used + Cardinality(Holders(i)') <= Cardinality(Clients)
            /\ codes'[i].used > 0 => ~codes'[i].open
  <2>1. i \in DOMAIN codes
    BY <1>4
  <2>2. IsFiniteSet(Holders(i)) /\ Cardinality(Holders(i)) \in Nat
    BY HoldersCount
  <2>3. CASE i # c
    <3>1. Holders(i)' = Holders(i)
      BY <1>1, <1>2, <1>3, <2>3 DEF Holders, NoLogin
    <3> QED  BY <1>4, <2>1, <2>3, <3>1, CodesFacts
  <2>4. CASE i = c
    <3>1. s \in Holders(i) /\ Holders(i)' = Holders(i) \ {s}
      BY <1>1, <1>2, <1>3, <2>4 DEF Holders, NoLogin
    <3>2. Cardinality(Holders(i)') = Cardinality(Holders(i)) - 1
      BY <2>2, <3>1, FS_RemoveElement
    <3>3. codes'[i].used <= codes[i].used + 1
          /\ codes'[i].used \in Nat /\ codes[i].used \in Nat
      <4>1. codes[i].used \in Nat
        BY <2>1, CodesFacts
      <4> QED  BY <1>4, <2>4, <4>1
    <3>4. codes[i].used + Cardinality(Holders(i)) <= Cardinality(Clients)
      BY <2>1, CodesFacts
    <3>5. codes'[i].used > 0 => ~codes'[i].open
      BY <1>4, <2>1, <2>4, CodesFacts
    <3> QED  BY <2>2, <3>2, <3>3, <3>4, <3>5, HoldersCount
  <2> QED  BY <2>3, <2>4
<1> QED
  BY <1>1, <1>4, <1>5, <1>6, <1>7, CodesFacts, CodesCounted
     DEF CodesInv, CodesTypeOK

\* Every step about codes keeps what was said of them.
LEMMA CodesKept ==
    ASSUME CodesInv, CodesNext \/ UNCHANGED codeVars PROVE CodesInv'
<1>1. CASE UNCHANGED codeVars
  <2>1. codes' = codes /\ known' = known /\ login' = login
    BY <1>1 DEF codeVars
  <2> QED  BY <2>1 DEF CodesInv, CodesTypeOK, LoginsNameCodes, CodesHold, Open,
                      Holders
<1>2. CASE CodesNext
  BY <1>2, CodesSend, CodesAge, CodesLookUp, CodesFindUser, CodesAccept
     DEF CodesNext
<1> QED
  BY <1>1, <1>2

\* No code has been sent at the start.
LEMMA CodesInitially == ASSUME AccountsInit PROVE CodesInv
<1>1. codes = <<>> /\ known \in BOOLEAN /\ login = [s \in Clients |-> NoLogin]
  BY DEF AccountsInit
<1>2. Len(codes) = 0 /\ DOMAIN codes = {} /\ codes \in Seq(Code)
  BY <1>1
<1>3. NoLogin \in Login
  BY AccountBounds DEF NoLogin, Login
<1> QED
  BY <1>1, <1>2, <1>3, AccountBounds
     DEF CodesInv, CodesTypeOK, LoginsNameCodes, CodesHold, Open, NoLogin

-----------------------------------------------------------------------------
(* Model profiles.                                                         *)

Profile == [id : 1..lastId, def : BOOLEAN]
Edit == [at : {"idle", "seed", "create", "update", "default", "delete",
               "choose", "promote"},
         id : 0..lastId, was : BOOLEAN, to : BOOLEAN, mine : BOOLEAN]

Presets == {<<>>, <<TRUE>>, <<FALSE, TRUE>>}

ProfilesInv ==
    /\ preset \in Presets
    /\ lastId \in 0..MaxProfiles
    /\ profiles \subseteq Profile
    /\ edit \in [Clients -> Edit]

DefaultSet == {p \in profiles : p.def}

\* The profiles are finitely many, and so are the default ones.
LEMMA ProfilesFinite ==
    ASSUME NEW n \in Nat, NEW S \in SUBSET [id : 1..n, def : BOOLEAN]
    PROVE IsFiniteSet(S) /\ Cardinality(S) \in Nat
<1> DEFINE T == (1..n) \X (0..1)
           f == [p \in S |-> <<p.id, IF p.def THEN 1 ELSE 0>>]
<1> HIDE DEF T, f
<1>1. IsFiniteSet(1..n) /\ IsFiniteSet(0..1)
  <2>1. IsFiniteSet(1..n)
    BY FS_Interval
  <2>2. PICK k \in Nat : k = 1
    OBVIOUS
  <2>3. IsFiniteSet(0..k)
    BY FS_Interval
  <2> QED  BY <2>1, <2>2, <2>3
<1>2. IsFiniteSet(T)
  BY <1>1, FS_Product DEF T
<1>3. f \in Injection(S, T)
  <2>1. \A p \in S : p.id \in 1..n /\ p.def \in BOOLEAN
    OBVIOUS
  <2>2. f \in [S -> T]
    BY <2>1 DEF f, T
  <2>3. ASSUME NEW p \in S, NEW q \in S, f[p] = f[q] PROVE p = q
    <3>1. p.id = q.id /\ p.def = q.def
      BY <2>3 DEF f
    <3> QED  BY <3>1
  <2> HIDE DEF f
  <2> QED  BY <2>2, <2>3 DEF Injection, IsInjective
<1>4. IsFiniteSet(S)
  <2> HIDE DEF f, T
  <2> QED  BY <1>2, <1>3, FS_Injection
<1> QED
  BY <1>4, FS_CardinalityType

\* A step leaves the defaults among those there were, or at most one.
FewDefaults ==
    \/ DefaultSet' \subseteq DefaultSet
    \/ \E x : DefaultSet' \subseteq {x}

\* Such a step does not multiply them.
LEMMA FewDefaultsDoNotMultiply ==
    ASSUME ProfilesInv, ProfilesInv', FewDefaults
    PROVE DefaultsMultiply
<1> DEFINE n == Cardinality(DefaultSet)
           m == Cardinality(DefaultSet')
<1>1. IsFiniteSet(DefaultSet) /\ n \in Nat
  BY ProfilesFinite, AccountBounds DEF ProfilesInv, DefaultSet, Profile
<1>2. m \in Nat /\ IsFiniteSet(DefaultSet')
  <2>1. lastId' \in Nat /\ DefaultSet' \in SUBSET [id : 1..lastId', def : BOOLEAN]
    BY AccountBounds DEF ProfilesInv, DefaultSet, Profile
  <2> QED  BY <2>1, ProfilesFinite
<1>3. m <= n \/ m <= 1
  <2>1. CASE DefaultSet' \subseteq DefaultSet
    BY <1>1, <2>1, FS_Subset
  <2>2. ASSUME NEW x, DefaultSet' \subseteq {x} PROVE m <= 1
    <3>1. IsFiniteSet({x}) /\ Cardinality({x}) = 1
      BY FS_Singleton
    <3>2. DefaultSet' \in SUBSET {x}
      BY <2>2
    <3>3. m <= Cardinality({x})
      BY <3>1, <3>2, FS_Subset
    <3> QED  BY <3>1, <3>3
  <2> QED  BY <2>1, <2>2 DEF FewDefaults
<1>4. Defaults = n /\ Defaults' = m
  BY DEF Defaults, DefaultSet
<1> HIDE DEF n, m
<1>5. ~(Defaults' > 1 /\ Defaults' > Defaults)
  BY <1>1, <1>2, <1>3, <1>4
<1> QED
  BY <1>5 DEF DefaultsMultiply

\* What a request remembers, and where it is.
LEMMA EditsTyped ==
    ASSUME ProfilesInv, NEW s \in Clients, NEW e, Edits(s, e), e \in Edit',
           lastId' \in 0..MaxProfiles, lastId' >= lastId
    PROVE edit' \in [Clients -> Edit']
<1>1. \A x \in Edit : x \in Edit'
  BY AccountBounds DEF ProfilesInv, Edit
<1> QED
  BY <1>1 DEF ProfilesInv, Edits

\* A request with no edit, or with one whose place and wish are given.
LEMMA NoEditTyped ==
    ASSUME lastId \in Nat
    PROVE /\ NoEdit \in Edit /\ NoEdit.at = "idle"
          /\ \A to \in BOOLEAN :
                [NoEdit EXCEPT !.at = "create", !.to = to] \in Edit
          /\ [NoEdit EXCEPT !.at = "seed"] \in Edit
          /\ [NoEdit EXCEPT !.at = "choose"] \in Edit
          /\ \A id \in 0..lastId :
                [NoEdit EXCEPT !.at = "promote", !.id = id] \in Edit
<1>1. NoEdit \in Edit /\ NoEdit.at = "idle"
  BY DEF NoEdit, Foreign, Edit
<1>2. \A w \in {"create", "seed", "choose", "promote"} :
         [NoEdit EXCEPT !.at = w] \in Edit
  <2> TAKE w \in {"create", "seed", "choose", "promote"}
  <2>1. \A e \in Edit : [e EXCEPT !.at = w] \in Edit
    BY DEF Edit
  <2> QED  BY <1>1, <2>1
<1>3. ASSUME NEW to \in BOOLEAN
      PROVE [NoEdit EXCEPT !.at = "create", !.to = to] \in Edit
  <2> DEFINE e == [NoEdit EXCEPT !.at = "create"]
  <2>1. [NoEdit EXCEPT !.at = "create", !.to = to] = [e EXCEPT !.to = to]
    OBVIOUS
  <2> HIDE DEF e
  <2> QED  BY <1>2, <2>1 DEF Edit, e
<1>4. ASSUME NEW id \in 0..lastId
      PROVE [NoEdit EXCEPT !.at = "promote", !.id = id] \in Edit
  <2> DEFINE e == [NoEdit EXCEPT !.at = "promote"]
  <2>1. [NoEdit EXCEPT !.at = "promote", !.id = id] = [e EXCEPT !.id = id]
    OBVIOUS
  <2> HIDE DEF e
  <2> QED  BY <1>2, <2>1 DEF Edit, e
<1> QED
  BY <1>1, <1>2, <1>3, <1>4

\* A step that leaves the profiles alone.
LEMMA ProfilesAlone ==
    ASSUME ProfilesInv, UNCHANGED <<preset, profiles, lastId>>,
           edit' \in [Clients -> Edit']
    PROVE ProfilesInv' /\ FewDefaults
<1>1. ProfilesInv'
  BY DEF ProfilesInv, Profile
<1>2. DefaultSet' = DefaultSet
  BY DEF DefaultSet
<1> QED
  BY <1>1, <1>2 DEF FewDefaults

\* The steps that read.
LEMMA ProfilesRead ==
    ASSUME ProfilesInv, UNCHANGED preset, NEW s \in Clients,
           \/ List(s)
           \/ \E wanted \in BOOLEAN : CountProfiles(s, wanted)
           \/ \E id \in Ids \cup {Foreign},
                 what \in {"update", "default", "delete"},
                 to, mine \in BOOLEAN : Find(s, id, what, to, mine)
           \/ ChooseNext(s)
    PROVE ProfilesInv' /\ FewDefaults
<1>1. UNCHANGED <<profiles, lastId>>
  BY DEF List, CountProfiles, Find, ChooseNext
<1>2. lastId \in Nat /\ lastId' = lastId /\ Edit' = Edit
  BY <1>1, AccountBounds DEF ProfilesInv, Edit
<1>3. \A id \in Ids : id \in 0..lastId
  BY <1>2 DEF Ids, ProfilesInv, Profile
<1>4. \E e \in Edit : Edits(s, e)
  <2>1. CASE List(s)
    BY <1>2, <2>1, NoEditTyped DEF List
  <2>2. ASSUME NEW wanted \in BOOLEAN, CountProfiles(s, wanted)
        PROVE \E e \in Edit : Edits(s, e)
    <3> DEFINE first == wanted \/ profiles = {}
    <3>1. Edits(s, [NoEdit EXCEPT !.at = "create", !.to = first])
      BY <2>2 DEF CountProfiles
    <3>2. first \in BOOLEAN
      OBVIOUS
    <3> HIDE DEF first
    <3> QED  BY <1>2, <3>1, <3>2, NoEditTyped
  <2>3. ASSUME NEW id \in Ids \cup {Foreign},
               NEW what \in {"update", "default", "delete"},
               NEW to \in BOOLEAN, NEW mine \in BOOLEAN,
               Find(s, id, what, to, mine)
        PROVE \E e \in Edit : Edits(s, e)
    <3>1. PICK was \in BOOLEAN :
             Edits(s, [at |-> what, id |-> id, was |-> was, to |-> to,
                       mine |-> mine])
      BY <2>3 DEF Find
    <3>2. id \in 0..lastId
      BY <1>2, <1>3 DEF Foreign
    <3>3. [at |-> what, id |-> id, was |-> was, to |-> to, mine |-> mine] \in Edit
      BY <3>2 DEF Edit
    <3> QED  BY <3>1, <3>3
  <2>4. CASE ChooseNext(s)
    <3>1. \/ Edits(s, NoEdit)
          \/ \E id \in Ids : Edits(s, [NoEdit EXCEPT !.at = "promote", !.id = id])
      BY <2>4 DEF ChooseNext
    <3> QED  BY <1>2, <1>3, <3>1, NoEditTyped
  <2> QED  BY <2>1, <2>2, <2>3, <2>4
<1>5. edit' \in [Clients -> Edit']
  <2>1. PICK e \in Edit : Edits(s, e)
    BY <1>4
  <2>2. lastId' \in 0..MaxProfiles /\ lastId' >= lastId /\ e \in Edit'
    BY <1>2 DEF ProfilesInv
  <2> QED  BY <2>1, <2>2, EditsTyped
<1> QED
  BY <1>1, <1>5, ProfilesAlone

\* The steps that write, put together from what they do to each profile.
LEMMA ProfilesWritten ==
    ASSUME ProfilesInv, UNCHANGED preset, NEW s \in Clients,
           NEW e, Edits(s, e), e \in Edit',
           lastId' \in 0..MaxProfiles, lastId' >= lastId,
           profiles' \subseteq Profile'
    PROVE ProfilesInv'
<1>1. edit' \in [Clients -> Edit']
  BY EditsTyped
<1> QED
  BY <1>1 DEF ProfilesInv

\* Seeding an empty list makes one default at most.
LEMMA ProfilesSeed ==
    ASSUME ProfilesInv, UNCHANGED preset, NEW s \in Clients, Seed(s)
    PROVE ProfilesInv' /\ (profiles = {} => FewDefaults)
<1> DEFINE n == Len(preset)
<1>1. n \in 0..2 /\ \A i \in DOMAIN preset : i \in 1..n
                      /\ (preset[i] = FALSE \/ (preset[i] = TRUE /\ i = n))
  <2>1. CASE preset = <<>>
    BY <2>1
  <2>2. CASE preset = <<TRUE>>
    <3>1. Len(preset) = 1 /\ DOMAIN preset = 1..1
      BY <2>2
    <3>2. preset[1] = TRUE
      BY <2>2
    <3> QED  BY <3>1, <3>2
  <2>3. CASE preset = <<FALSE, TRUE>>
    <3>1. Len(preset) = 2 /\ DOMAIN preset = 1..2
      BY <2>3
    <3>2. preset[1] = FALSE /\ preset[2] = TRUE
      BY <2>3
    <3>3. ASSUME NEW i \in DOMAIN preset
          PROVE preset[i] = FALSE \/ (preset[i] = TRUE /\ i = 2)
      <4>1. i = 1 \/ i = 2
        BY <3>1
      <4> QED  BY <3>2, <4>1
    <3>4. n = 2
      BY <3>1
    <3> HIDE DEF n
    <3>5. n \in 0..2 /\ DOMAIN preset = 1..n
      BY <3>1, <3>4
    <3> QED  BY <3>3, <3>4, <3>5
  <2> QED  BY <2>1, <2>2, <2>3 DEF ProfilesInv, Presets
<1>2. /\ lastId' = lastId + n /\ lastId + n <= MaxProfiles
      /\ profiles' = profiles \cup
            {[id |-> lastId + i, def |-> preset[i]] : i \in DOMAIN preset}
      /\ Edits(s, NoEdit)
  BY DEF Seed, Fits
<1> HIDE DEF n
<1>3. lastId \in Nat /\ lastId' \in 0..MaxProfiles /\ lastId' >= lastId
  BY <1>1, <1>2, AccountBounds DEF ProfilesInv
<1>4. \A i \in DOMAIN preset : [id |-> lastId + i, def |-> preset[i]] \in Profile'
  <2> TAKE i \in DOMAIN preset
  <2>1. lastId + i \in 1..lastId'
    BY <1>1, <1>2, <1>3
  <2>2. PICK b \in BOOLEAN : b = preset[i]
    BY <1>1
  <2> QED  BY <2>1, <2>2 DEF Profile
<1>5. profiles' \subseteq Profile'
  <2>1. profiles \subseteq Profile'
    BY <1>3 DEF ProfilesInv, Profile
  <2> QED  BY <1>2, <1>4, <2>1
<1>6. NoEdit \in Edit'
  BY <1>3, AccountBounds DEF NoEdit, Foreign, Edit
<1>7. ProfilesInv'
  BY <1>2, <1>3, <1>5, <1>6, ProfilesWritten
<1>8. ASSUME profiles = {}
      PROVE DefaultSet' \subseteq {[id |-> lastId + n, def |-> TRUE]}
  <2>1. ASSUME NEW p \in DefaultSet'
        PROVE p = [id |-> lastId + n, def |-> TRUE]
    <3>1. p.def /\ p \in profiles' /\ p \in Profile'
      BY <1>5 DEF DefaultSet
    <3>2. PICK i \in DOMAIN preset : p = [id |-> lastId + i, def |-> preset[i]]
      BY <1>2, <1>8, <3>1
    <3>3. i = n
      BY <1>1, <3>1, <3>2
    <3>4. p.id = lastId + n /\ p.def = TRUE
      BY <3>1, <3>2, <3>3 DEF Profile
    <3> QED  BY <3>1, <3>4 DEF Profile
  <2> QED  BY <2>1
<1> QED
  BY <1>7, <1>8 DEF FewDefaults

\* A new default takes the others' place.
LEMMA ProfilesCreate ==
    ASSUME ProfilesInv, UNCHANGED preset, NEW s \in Clients, Create(s)
    PROVE ProfilesInv' /\ FewDefaults
<1> DEFINE new == [id |-> lastId + 1, def |-> edit[s].to]
<1>1. /\ lastId' = lastId + 1 /\ lastId + 1 <= MaxProfiles
      /\ profiles' = (IF edit[s].to THEN Cleared ELSE profiles) \cup {new}
      /\ Edits(s, NoEdit)
  BY DEF Create, Fits
<1>2. lastId \in Nat /\ lastId' \in 0..MaxProfiles /\ lastId' >= lastId
  BY <1>1, AccountBounds DEF ProfilesInv
<1>3. edit[s].to \in BOOLEAN
  BY DEF ProfilesInv, Edit
<1>4. new \in Profile' /\ new.def = edit[s].to
  BY <1>1, <1>2, <1>3 DEF Profile
<1> HIDE DEF new
<1>5. \A p \in Profile : p \in Profile' /\ [p EXCEPT !.def = FALSE] \in Profile'
                         /\ ~[p EXCEPT !.def = FALSE].def
  <2> TAKE p \in Profile
  <2>1. p \in Profile'
    BY <1>1, <1>2 DEF Profile
  <2>2. \A q \in Profile' : /\ [q EXCEPT !.def = FALSE] \in Profile'
                            /\ [q EXCEPT !.def = FALSE].def = FALSE
    BY DEF Profile
  <2> QED  BY <2>1, <2>2
<1>6. profiles' \subseteq Profile'
  BY <1>1, <1>4, <1>5 DEF ProfilesInv, Cleared
<1>7. ProfilesInv'
  <2>1. NoEdit \in Edit'
    BY <1>2, AccountBounds DEF NoEdit, Foreign, Edit
  <2> QED  BY <1>1, <1>2, <1>6, <2>1, ProfilesWritten
<1>8. CASE edit[s].to
  <2>1. DefaultSet' \subseteq {new}
    BY <1>1, <1>5, <1>8 DEF DefaultSet, Cleared, ProfilesInv
  <2> QED  BY <1>7, <2>1 DEF FewDefaults
<1>9. CASE ~edit[s].to
  <2>1. DefaultSet' \subseteq DefaultSet
    BY <1>1, <1>4, <1>9 DEF DefaultSet
  <2> QED  BY <1>7, <2>1 DEF FewDefaults
<1> QED
  BY <1>8, <1>9

\* What a transaction on one profile leaves: no more defaults, where it clears
\* the others' or makes none that was not one.
LEMMA ProfilesSet ==
    ASSUME ProfilesInv, UNCHANGED <<preset, lastId>>, NEW s \in Clients,
           Edits(s, NoEdit), NEW id, NEW def \in BOOLEAN,
           NEW clears \in BOOLEAN, Sets(id, def, clears)
    PROVE ProfilesInv' /\ (clears \/ ~def \/ IsDefault(id) => FewDefaults)
<1> DEFINE set(p) == [p EXCEPT !.def = IF p.id = id THEN def
                                       ELSE p.def /\ ~clears]
<1>1. profiles' = profiles \/ profiles' = {set(p) : p \in profiles}
  BY DEF Sets
<1>2. lastId \in Nat /\ lastId' \in 0..MaxProfiles /\ lastId' >= lastId
  BY AccountBounds DEF ProfilesInv
<1>3. \A p \in Profile : /\ set(p) \in Profile' /\ set(p).id = p.id
                         /\ p.id = id => set(p).def = def
                         /\ p.id # id => set(p).def = (p.def /\ ~clears)
  <2> TAKE p \in Profile
  <2> DEFINE new == IF p.id = id THEN def ELSE p.def /\ ~clears
  <2>1. new \in BOOLEAN
    BY DEF Profile
  <2>2. set(p) = [p EXCEPT !.def = new]
    OBVIOUS
  <2> HIDE DEF new, set
  <2>3. set(p) \in Profile' /\ set(p).id = p.id /\ set(p).def = new
    BY <2>1, <2>2 DEF Profile
  <2> QED  BY <2>3 DEF new
<1> HIDE DEF set
<1>4. profiles' \subseteq Profile'
  BY <1>1, <1>3 DEF ProfilesInv, Profile
<1>5. ProfilesInv'
  <2>1. NoEdit \in Edit'
    BY <1>2, AccountBounds DEF NoEdit, Foreign, Edit
  <2> QED  BY <1>2, <1>4, <2>1, ProfilesWritten
<1>6. ASSUME profiles' = {set(p) : p \in profiles}, clears
      PROVE FewDefaults
  <2>1. ASSUME NEW p \in DefaultSet' PROVE p = [id |-> id, def |-> TRUE]
    <3>1. p \in Profile' /\ p.def
      BY <1>4 DEF DefaultSet
    <3>2. PICK q \in profiles : p = set(q)
      BY <1>6 DEF DefaultSet
    <3>3. q \in Profile
      BY DEF ProfilesInv
    <3>4. p.id = id
      BY <1>3, <1>6, <3>1, <3>2, <3>3
    <3> QED  BY <3>1, <3>4 DEF Profile
  <2>2. DefaultSet' \subseteq {[id |-> id, def |-> TRUE]}
    BY <2>1
  <2> QED  BY <2>2 DEF FewDefaults
<1>7. ASSUME profiles' = {set(p) : p \in profiles}, ~clears, ~def \/ IsDefault(id)
      PROVE FewDefaults
  <2>1. ASSUME NEW p \in DefaultSet' PROVE p \in DefaultSet
    <3>1. p \in Profile' /\ p.def /\ Profile' = Profile
      BY <1>4 DEF DefaultSet, Profile
    <3>2. PICK q \in profiles : p = set(q)
      BY <1>7 DEF DefaultSet
    <3>3. q \in Profile
      BY DEF ProfilesInv
    <3>4. CASE q.id = id
      <4>1. p.id = id /\ def
        BY <1>3, <3>1, <3>2, <3>3, <3>4
      <4>2. PICK x \in profiles : x.id = id /\ x.def
        BY <1>7, <4>1 DEF IsDefault
      <4>3. x \in Profile /\ p \in Profile /\ x.id = p.id /\ x.def = p.def
        <5>1. x \in Profile /\ p \in Profile
          BY <3>1 DEF ProfilesInv
        <5> QED  BY <3>1, <4>1, <4>2, <5>1 DEF Profile
      <4>4. x = p
        BY <4>3 DEF Profile
      <4> QED  BY <4>2, <4>4 DEF DefaultSet
    <3>5. CASE q.id # id
      <4>1. p.id = q.id /\ p.def = q.def
        <5>1. p.id = q.id /\ p.def = (q.def /\ ~clears)
          BY <1>3, <3>2, <3>3, <3>5
        <5>2. q.def \in BOOLEAN
          BY <3>3 DEF Profile
        <5> QED  BY <1>7, <5>1, <5>2
      <4>2. p = q
        BY <3>1, <3>3, <4>1 DEF Profile
      <4> QED  BY <3>1, <4>2 DEF DefaultSet
    <3> QED  BY <3>4, <3>5
  <2> QED  BY <2>1 DEF FewDefaults
<1>8. profiles' = profiles => FewDefaults
  BY DEF FewDefaults, DefaultSet
<1> QED
  BY <1>1, <1>5, <1>6, <1>7, <1>8

\* An update that mentions no default leaves what is there; one of the user's
\* own that sets it clears the others'.
LEMMA ProfilesUpdate ==
    ASSUME ProfilesInv, UNCHANGED preset, NEW s \in Clients, Update(s)
    PROVE ProfilesInv' /\ (edit[s].mine => FewDefaults)
<1>1. PICK e \in Edit : e = edit[s]
  BY DEF ProfilesInv
<1> DEFINE def == IF e.to = e.was THEN IsDefault(e.id) ELSE e.to
           clears == e.mine /\ e.to
<1>2. /\ UNCHANGED lastId /\ Edits(s, NoEdit) /\ Sets(e.id, def, clears)
  BY <1>1 DEF Update
<1>3. /\ def \in BOOLEAN /\ clears \in BOOLEAN
      /\ e.mine => clears \/ ~def \/ IsDefault(e.id)
  BY DEF IsDefault, Edit
<1> HIDE DEF def, clears
<1> QED
  BY <1>1, <1>2, <1>3, ProfilesSet

\* Choosing a default of one's own makes it the only one.
LEMMA ProfilesSetDefault ==
    ASSUME ProfilesInv, UNCHANGED preset, NEW s \in Clients, SetDefault(s)
    PROVE ProfilesInv' /\ (edit[s].mine => FewDefaults)
<1>1. PICK e \in Edit : e = edit[s]
  BY DEF ProfilesInv
<1> DEFINE def == e.mine \/ ~e.was \/ IsDefault(e.id)
<1>2. /\ UNCHANGED lastId /\ Edits(s, NoEdit) /\ Sets(e.id, def, e.mine)
  BY <1>1 DEF SetDefault
<1>3. def \in BOOLEAN /\ e.mine \in BOOLEAN
  BY DEF IsDefault, Edit
<1> HIDE DEF def
<1> QED
  BY <1>1, <1>2, <1>3, ProfilesSet

\* A deletion adds no default.
LEMMA ProfilesDelete ==
    ASSUME ProfilesInv, UNCHANGED preset, NEW s \in Clients, Delete(s)
    PROVE ProfilesInv' /\ FewDefaults
<1>1. /\ UNCHANGED lastId /\ profiles' \subseteq profiles
      /\ \/ Edits(s, NoEdit)
         \/ Edits(s, [NoEdit EXCEPT !.at = "choose"])
  BY DEF Delete, Others
<1>2. lastId \in Nat /\ lastId' \in 0..MaxProfiles /\ lastId' >= lastId
      /\ Edit' = Edit /\ Profile' = Profile
  BY <1>1, AccountBounds DEF ProfilesInv, Edit, Profile
<1>3. PICK e \in Edit : Edits(s, e)
  BY <1>1, <1>2, NoEditTyped
<1>4. ProfilesInv'
  <2>1. profiles' \subseteq Profile'
    BY <1>1, <1>2 DEF ProfilesInv
  <2> QED  BY <1>2, <1>3, <2>1, ProfilesWritten
<1>5. DefaultSet' \subseteq DefaultSet
  BY <1>1 DEF DefaultSet
<1> QED
  BY <1>4, <1>5 DEF FewDefaults

\* Promoting a successor where there is no default makes one.
LEMMA ProfilesPromote ==
    ASSUME ProfilesInv, UNCHANGED preset, NEW s \in Clients, Promote(s)
    PROVE ProfilesInv' /\ (DefaultSet = {} => FewDefaults)
<1>1. PICK e \in Edit : e = edit[s]
  BY DEF ProfilesInv
<1> DEFINE set(p) == [p EXCEPT !.def = p.def \/ p.id = e.id]
<1>2. /\ UNCHANGED lastId /\ Edits(s, NoEdit)
      /\ profiles' = {set(p) : p \in profiles}
  BY <1>1 DEF Promote
<1>3. lastId \in Nat /\ lastId' \in 0..MaxProfiles /\ lastId' >= lastId
  BY <1>2, AccountBounds DEF ProfilesInv
<1>4. \A p \in Profile : /\ set(p) \in Profile'
                         /\ set(p).def => p.def \/ set(p).id = e.id
  <2> TAKE p \in Profile
  <2>1. CASE p.def \/ p.id = e.id
    <3>1. set(p) = [p EXCEPT !.def = TRUE]
      BY <2>1
    <3> QED  BY <1>2, <2>1, <3>1 DEF Profile
  <2>2. CASE ~(p.def \/ p.id = e.id)
    <3>1. set(p) = [p EXCEPT !.def = FALSE]
      BY <2>2
    <3> QED  BY <1>2, <2>2, <3>1 DEF Profile
  <2> QED  BY <2>1, <2>2
<1> HIDE DEF set
<1>5. profiles' \subseteq Profile'
  BY <1>2, <1>4 DEF ProfilesInv
<1>6. ProfilesInv'
  <2>1. NoEdit \in Edit'
    BY <1>3, AccountBounds DEF NoEdit, Foreign, Edit
  <2> QED  BY <1>2, <1>3, <1>5, <2>1, ProfilesWritten
<1>7. ASSUME DefaultSet = {} PROVE FewDefaults
  <2>1. ASSUME NEW p \in DefaultSet' PROVE p = [id |-> e.id, def |-> TRUE]
    <3>1. p \in Profile' /\ p.def
      BY <1>5 DEF DefaultSet
    <3>2. PICK q \in profiles : p = set(q)
      BY <1>2 DEF DefaultSet
    <3>3. p.id = e.id
      BY <1>4, <1>7, <3>1, <3>2 DEF DefaultSet, ProfilesInv
    <3> QED  BY <3>1, <3>3 DEF Profile
  <2>2. DefaultSet' \subseteq {[id |-> e.id, def |-> TRUE]}
    BY <2>1
  <2> QED  BY <2>2 DEF FewDefaults
<1> QED
  BY <1>6, <1>7

\* Every step about profiles keeps their types, and multiplies the defaults
\* only in the three excepted ways.
LEMMA ProfilesKept ==
    ASSUME ProfilesInv, ProfilesNext \/ UNCHANGED <<preset, profileVars>>
    PROVE ProfilesInv' /\ DefaultsMultiply
<1>1. CASE UNCHANGED <<preset, profileVars>>
  <2>1. preset' = preset /\ profiles' = profiles /\ lastId' = lastId
        /\ edit' = edit
    BY <1>1 DEF profileVars
  <2>2. ProfilesInv' /\ FewDefaults
    BY <2>1 DEF ProfilesInv, Profile, Edit, FewDefaults, DefaultSet
  <2> QED  BY <2>2, FewDefaultsDoNotMultiply
<1>2. ASSUME NEW s \in Clients, ProfileStep(s), UNCHANGED preset
      PROVE ProfilesInv' /\ DefaultsMultiply
  <2>1. CASE Seed(s)
    <3>1. ProfilesInv' /\ (profiles = {} => FewDefaults)
      BY <1>2, <2>1, ProfilesSeed
    <3>2. edit[s].at = "seed" /\ edit'[s] = NoEdit
      BY <2>1 DEF Seed, Edits, ProfilesInv
    <3> QED  BY <3>1, <3>2, FewDefaultsDoNotMultiply DEF DefaultsMultiply
  <2>2. CASE Promote(s)
    <3>1. ProfilesInv' /\ (DefaultSet = {} => FewDefaults)
      BY <1>2, <2>2, ProfilesPromote
    <3>2. edit[s].at = "promote" /\ edit'[s] = NoEdit
      BY <2>2 DEF Promote, Edits, ProfilesInv
    <3>3. CASE DefaultSet = {}
      BY <3>1, <3>3, FewDefaultsDoNotMultiply
    <3>4. CASE DefaultSet # {}
      <4>1. Cardinality(DefaultSet) \in Nat /\ IsFiniteSet(DefaultSet)
        BY ProfilesFinite, AccountBounds DEF ProfilesInv, DefaultSet, Profile
      <4>2. Cardinality(DefaultSet) # 0
        BY <3>4, <4>1, FS_EmptySet
      <4>3. Defaults > 0
        <5>1. Defaults = Cardinality(DefaultSet)
          BY DEF Defaults, DefaultSet
        <5> QED  BY <4>1, <4>2, <5>1
      <4> QED  BY <3>1, <3>2, <4>3 DEF DefaultsMultiply
    <3> QED  BY <3>3, <3>4
  <2>3. CASE Update(s) \/ SetDefault(s)
    <3>1. ProfilesInv' /\ (edit[s].mine => FewDefaults)
      BY <1>2, <2>3, ProfilesUpdate, ProfilesSetDefault
    <3>2. edit[s].at \in {"update", "default"} /\ edit'[s] = NoEdit
      BY <2>3 DEF Update, SetDefault, Edits, ProfilesInv
    <3> QED  BY <3>1, <3>2, FewDefaultsDoNotMultiply DEF DefaultsMultiply
  <2>4. \/ ProfilesInv' /\ FewDefaults
        \/ Seed(s) \/ Promote(s) \/ Update(s) \/ SetDefault(s)
    BY <1>2, ProfilesRead, ProfilesCreate, ProfilesDelete DEF ProfileStep
  <2> QED  BY <2>1, <2>2, <2>3, <2>4, FewDefaultsDoNotMultiply
<1> QED
  BY <1>1, <1>2 DEF ProfilesNext

\* There are no profiles at the start.
LEMMA ProfilesInitially == ASSUME AccountsInit PROVE ProfilesInv
<1>1. NoEdit \in Edit /\ lastId = 0
  BY NoEditTyped DEF AccountsInit
<1>2. preset \in Presets
  BY DEF AccountsInit, Presets
<1>3. profiles \subseteq Profile /\ edit \in [Clients -> Edit]
  BY <1>1 DEF AccountsInit
<1> QED
  BY <1>1, <1>2, <1>3, AccountBounds DEF ProfilesInv

-----------------------------------------------------------------------------
(* All of them.                                                            *)

IInv == RowsInv /\ CodesInv /\ ProfilesInv /\ BacktestInv

\* A code has let in no more requests than there are.
LEMMA AccountsTyped ==
    ASSUME CodesInv, ProfilesInv PROVE AccountsTypeOK
<1> DEFINE T == [open : BOOLEAN, expired : BOOLEAN, used : 0..Cardinality(Clients)]
<1>1. \A n \in DOMAIN codes : codes[n] \in T
  <2> TAKE n \in DOMAIN codes
  <2>1. Cardinality(Holders(n)) \in Nat /\ Cardinality(Clients) \in Nat
    BY HoldersCount
  <2>2. codes[n] \in Code /\ codes[n].used \in Nat
        /\ codes[n].used + Cardinality(Holders(n)) <= Cardinality(Clients)
    BY CodesFacts
  <2>3. codes[n].used \in 0..Cardinality(Clients)
    BY <2>1, <2>2
  <2> QED  BY <2>2, <2>3 DEF Code
<1> HIDE DEF T
<1>2. codes \in Seq(T)
  <2>1. codes \in Seq(Code) /\ DOMAIN codes = 1..Len(codes) /\ Len(codes) \in Nat
    BY CodesFacts
  <2>2. codes \in [1..Len(codes) -> Code]
    BY <2>1, LenProperties
  <2>3. codes \in [1..Len(codes) -> T]
    BY <1>1, <2>1, <2>2
  <2> QED  BY <2>1, <2>3, SeqDef
<1>3. preset \in {<<>>, <<TRUE>>, <<FALSE, TRUE>>}
  BY DEF ProfilesInv, Presets
<1> QED
  BY <1>2, <1>3
     DEF T, CodesInv, CodesTypeOK, Login, ProfilesInv, Profile, Edit, AccountsTypeOK

\* It holds at the start.
LEMMA Initially == Init => IInv
BY RowsInitially, CodesInitially, ProfilesInitially, BacktestInitially
   DEF Init, IInv

\* A step is about one of them; the defaults multiply only as excepted.
LEMMA StepKeeps == IInv /\ [Next]_vars => IInv' /\ DefaultsMultiply
<1> SUFFICES ASSUME IInv, [Next]_vars PROVE IInv' /\ DefaultsMultiply
  OBVIOUS
<1>1. /\ RowsNext \/ UNCHANGED <<table, rowVars>>
      /\ CodesNext \/ UNCHANGED codeVars
      /\ ProfilesNext \/ UNCHANGED <<preset, profileVars>>
      /\ BacktestNext \/ UNCHANGED backtestVars
  <2>1. CASE UNCHANGED vars
    BY <2>1 DEF vars
  <2>2. CASE OfRows
    <3>1. UNCHANGED <<codeVars, preset, profileVars, backtestVars>>
      BY <2>2 DEF OfRows
    <3> QED  BY <2>2, <3>1 DEF OfRows
  <2>3. CASE OfCodes
    <3>1. UNCHANGED <<table, rowVars, preset, profileVars, backtestVars>>
      BY <2>3 DEF OfCodes
    <3> QED  BY <2>3, <3>1 DEF OfCodes
  <2>4. CASE OfProfiles
    <3>1. UNCHANGED <<table, rowVars, codeVars, backtestVars>>
      BY <2>4 DEF OfProfiles
    <3> QED  BY <2>4, <3>1 DEF OfProfiles
  <2>5. CASE OfBacktest
    <3>1. UNCHANGED <<table, rowVars, codeVars, preset, profileVars>>
      BY <2>5 DEF OfBacktest
    <3> QED  BY <2>5, <3>1 DEF OfBacktest
  <2> QED  BY <2>1, <2>2, <2>3, <2>4, <2>5 DEF Next
<1> QED
  BY <1>1, RowsKeep, CodesKept, ProfilesKept, BacktestKeeps DEF IInv

\* It holds in every reachable state.
THEOREM Invariance == Spec => []IInv
<1>1. IInv /\ [Next]_vars => IInv'
  BY StepKeeps
<1> QED
  BY <1>1, Initially, PTL DEF Spec

\* The types of every table: no code lets in more requests than there are, and
\* profiles keep ids that were given out.
THEOREM TypeCorrect == Spec => []TypeOK
<1>1. IInv => TypeOK
  BY AccountsTyped DEF IInv, RowsInv, BacktestInv, TypeOK
<1> QED
  BY <1>1, Invariance, PTL

\* For every number of requests at once, a table holds at most as many rows
\* beyond its limit as there are requests that counted before the others'
\* rows came.
THEOREM LimitIsKept == Spec => []LimitHolds
<1>1. IInv => LimitHolds
  BY DEF IInv, RowsInv
<1> QED
  BY <1>1, Invariance, PTL

\* A backtest of any length, deleted at any moment: one that is completed tells
\* what its records say.
THEOREM BacktestIsTrue == Spec => []BacktestTruth
<1>1. IInv => BacktestTruth
  BY DEF IInv, BacktestInv
<1> QED
  BY <1>1, Invariance, PTL

\* For every number of requests, codes and profiles: one code is open, one that
\* was consumed logs in only those who had looked it up, and default profiles
\* multiply in the three excepted ways only.
THEOREM AccountsAreKept == Spec => AccountsHold
<1>1. IInv /\ [Next]_vars => CodesHold' /\ DefaultsMultiply
  BY StepKeeps DEF IInv, CodesInv
<1> QED
  BY <1>1, Invariance, PTL DEF Spec, AccountsHold
=============================================================================
