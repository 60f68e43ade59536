--------------------------- MODULE MCDataCollector ---------------------------
(* Instances of DataCollector for TLC.                                      *)
EXTENDS DataCollector
=============================================================================
