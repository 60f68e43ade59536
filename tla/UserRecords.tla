----------------------------- MODULE UserRecords -----------------------------
(***************************************************************************)
(* What a user's requests leave behind, table by table: rows under a limit *)
(* (UserRows), login codes and model profiles (Accounts) and backtests     *)
(* (Backtest).  No request touches two of these, so a behaviour is about   *)
(* one of them, chosen at the start.                                       *)
(***************************************************************************)
EXTENDS UserRows, Accounts, Backtest

VARIABLE focus   \* what this behaviour is about

vars == <<focus, table, rowVars, codeVars, preset, profileVars, backtestVars>>

OfRows == focus = "rows" /\ RowsNext
          /\ UNCHANGED <<codeVars, preset, profileVars, backtestVars>>
OfCodes == focus = "codes" /\ CodesNext
          /\ UNCHANGED <<table, rowVars, preset, profileVars, backtestVars>>
OfProfiles == focus = "profiles" /\ ProfilesNext
          /\ UNCHANGED <<table, rowVars, codeVars, backtestVars>>
OfBacktest == focus = "backtest" /\ BacktestNext
          /\ UNCHANGED <<table, rowVars, codeVars, preset, profileVars>>

\* The choices of the tables that are not in focus do not matter.
Init ==
    /\ focus \in {"rows", "codes", "profiles", "backtest"}
    /\ RowsInit /\ AccountsInit /\ BacktestInit
    /\ focus # "rows" => table = "tokens"
    /\ focus # "codes" => known
    /\ focus # "profiles" => preset = <<>>
    /\ focus # "backtest" => range.kind = "invalid"

Next == UNCHANGED focus /\ (OfRows \/ OfCodes \/ OfProfiles \/ OfBacktest)

Spec == Init /\ [][Next]_vars

-----------------------------------------------------------------------------
\* Every variable stays in its range.
TypeOK == RowsTypeOK /\ AccountsTypeOK /\ BacktestTypeOK

\* The login codes and the profiles of Accounts, after and in every step: one
\* open code and no login from a consumed one, one default profile but for the
\* three ways to a second.
AccountsHold == [][CodesHold' /\ DefaultsMultiply]_vars
=============================================================================
