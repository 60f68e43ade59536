---------------------------- MODULE MCUserRecords ----------------------------
(* Instances of UserRecords for TLC.                                         *)
EXTENDS UserRecords
=============================================================================
