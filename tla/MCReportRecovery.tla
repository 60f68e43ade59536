-------------------------- MODULE MCReportRecovery --------------------------
(* Instances of ReportRecovery for TLC.                                     *)
EXTENDS ReportRecovery
=============================================================================
