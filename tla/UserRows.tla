------------------------------- MODULE UserRows -------------------------------
(***************************************************************************)
(* The rows a user owns under a limit: API tokens (token_service.py), the  *)
(* watch-list (watchlist_service.py), the scheduled tasks                  *)
(* (scheduled_service.py) and the portfolio import that also creates tasks *)
(* (portfolio_import_service.py).                                          *)
(*                                                                         *)
(* A request runs in a thread of its own.  What it reads before its first  *)
(* write is read outside any transaction, each query at its own moment;    *)
(* its writes are one transaction, and SQLite admits one writer at a time. *)
(* So the count a limit is checked against may be stale at the insert.     *)
(***************************************************************************)
EXTENDS Integers, FiniteSets

CONSTANTS
    Sessions,   \* the requests that can be served at the same time
    Keys,       \* symbols; for the tokens, their ids
    Limit       \* MAX_TOKENS_PER_USER, MAX_WATCHLIST_ITEMS, MAX_SCHEDULED_ITEMS

ASSUME SessionsAssumption == IsFiniteSet(Sessions) /\ Sessions # {}
ASSUME KeysAssumption == IsFiniteSet(Keys)
ASSUME LimitAssumption == Limit \in Nat \ {0}

VARIABLES
    table,      \* which of the tables this behaviour is about
    rows,       \* its rows, by their unique column
    positions,  \* the imported positions
    req         \* what each session is doing

rowVars == <<rows, positions, req>>

Tables == {"tokens", "watchlist", "scheduled"}
Stage == {"idle", "count", "look", "insert", "remove"}
\* todo: the symbols still to add; key: the one at hand; items: the rows read
\* and about to be deleted, those deleted by others meanwhile taken out.
Idle == [at |-> "idle", todo |-> {}, key |-> {}, items |-> {}]

\* The next symbol of a batch, or the end of the request.
NextItem(s) ==
    req' = [req EXCEPT ![s] = IF @.todo = {} THEN Idle
                              ELSE [@ EXCEPT !.at = "count", !.key = {}]]

-----------------------------------------------------------------------------
(* Adding: create_token, create_scheduled, add_watchlist_items.            *)

\* Only the watch-list takes several at once.
AskToAdd(s, todo) ==
    /\ req[s] = Idle
    /\ todo # {}
    /\ table # "watchlist" => Cardinality(todo) = 1
    /\ req' = [req EXCEPT ![s] = [Idle EXCEPT !.at = "count", !.todo = todo]]
    /\ UNCHANGED <<rows, positions>>

\* Mutant: a table that is full takes one more.
FullLate == Cardinality(rows) > Limit

Full == Cardinality(rows) >= Limit

\* The count, anew for each symbol of a batch.
Count(s) ==
    /\ req[s].at = "count"
    /\ \E k \in req[s].todo :
          LET rest == [req[s] EXCEPT !.todo = @ \ {k}] IN
          IF Full
          THEN req' = [req EXCEPT ![s] = IF rest.todo = {} THEN Idle ELSE rest]
          ELSE req' = [req EXCEPT ![s] =
                  [rest EXCEPT !.key = {k},
                      !.at = IF table = "tokens" THEN "insert" ELSE "look"]]
    /\ UNCHANGED <<rows, positions>>

\* Is the symbol there already?  Another query, at a later moment.
Look(s) ==
    /\ req[s].at = "look"
    /\ IF req[s].key \subseteq rows THEN NextItem(s)
       ELSE req' = [req EXCEPT ![s].at = "insert"]
    /\ UNCHANGED <<rows, positions>>

\* A token's id is new; a symbol that came in meanwhile violates the unique
\* constraint, which ends the whole request: only ValueError is caught.
Insert(s) ==
    /\ req[s].at = "insert"
    /\ IF table = "tokens"
       THEN /\ \E k \in Keys \ rows : rows' = rows \cup {k}
            /\ NextItem(s)
       ELSE IF req[s].key \subseteq rows
       THEN /\ req' = [req EXCEPT ![s] = Idle]
            /\ UNCHANGED rows
       ELSE /\ rows' = rows \cup req[s].key
            /\ NextItem(s)
    /\ UNCHANGED positions

-----------------------------------------------------------------------------
(* Deleting: delete_token, delete_watchlist_item, delete_scheduled and     *)
(* batch_delete_scheduled.                                                 *)

AskToDelete(s, keys) ==
    /\ req[s] = Idle
    /\ keys # {}
    /\ table # "scheduled" => Cardinality(keys) = 1
    /\ keys \cap rows # {}
    /\ req' = [req EXCEPT ![s] =
                  [Idle EXCEPT !.at = "remove", !.items = keys \cap rows]]
    /\ UNCHANGED <<rows, positions>>

\* Rows are deleted by id: one that another request deleted, and perhaps
\* added again, is not touched.
Remove(s) ==
    /\ req[s].at = "remove"
    /\ rows' = rows \ req[s].items
    /\ req' = [t \in Sessions |->
                  IF t = s THEN Idle
                  ELSE [req[t] EXCEPT !.items = @ \ req[s].items]]
    /\ UNCHANGED positions

-----------------------------------------------------------------------------
(* The import: sync_positions and ensure_scheduled_for_symbols.            *)

\* Mutant: every symbol gets a task.
EnsuredAll(symbols) == {symbols}

\* The tasks there can be for these symbols: as many new ones as there are
\* slots left.
Ensured(symbols) ==
    LET new == symbols \ rows
        slots == IF Full THEN 0 ELSE Limit - Cardinality(rows)
    IN {s \in SUBSET new :
           Cardinality(s) = IF Cardinality(new) < slots THEN Cardinality(new) ELSE slots}

\* One transaction: its first statement deletes the old positions, so the rows
\* are read with the database locked.
Sync(s, symbols, held) ==
    /\ table = "scheduled"
    /\ req[s] = Idle
    /\ symbols # {} /\ held \subseteq symbols
    /\ positions' = symbols
    /\ \E created \in Ensured(held) : rows' = rows \cup created
    /\ UNCHANGED req

Clear(s) ==
    /\ table = "scheduled"
    /\ req[s] = Idle
    /\ positions' = {}
    /\ UNCHANGED <<rows, req>>

-----------------------------------------------------------------------------
RowsInit ==
    /\ table \in Tables
    /\ rows = {} /\ positions = {}
    /\ req = [s \in Sessions |-> Idle]

RowsStep(s) ==
    \/ \E todo \in SUBSET Keys : AskToAdd(s, todo)
    \/ Count(s) \/ Look(s) \/ Insert(s)
    \/ \E keys \in SUBSET Keys : AskToDelete(s, keys)
    \/ Remove(s)
    \/ \E symbols \in SUBSET Keys, held \in SUBSET Keys : Sync(s, symbols, held)
    \/ Clear(s)

RowsNext == UNCHANGED table /\ \E s \in Sessions : RowsStep(s)

-----------------------------------------------------------------------------
(* Properties.                                                             *)

RowsTypeOK ==
    /\ table \in Tables
    /\ rows \subseteq Keys /\ positions \subseteq Keys
    /\ req \in [Sessions -> [at : Stage, todo : SUBSET Keys, key : SUBSET Keys,
                             items : SUBSET Keys]]

\* The requests that have passed the count and not inserted yet.
Pending == {s \in Sessions : req[s].at \in {"look", "insert"}}

\* The limit of a table is exceeded only by requests that counted at the same
\* time, so never by more than their number less one; a batch or an import,
\* however long, adds nothing to that.
LimitHolds ==
    Cardinality(rows) + Cardinality(Pending) <= Limit + Cardinality(Sessions) - 1
=============================================================================
