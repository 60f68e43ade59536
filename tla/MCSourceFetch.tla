---------------------------- MODULE MCSourceFetch ----------------------------
(* Instances of SourceFetch for TLC: the scheduler's process with agents'     *)
(* calls beside a collection, and the API's with the tracking board.          *)
EXTENDS SourceFetch, TLC

MCPool == <<"a", "b">>
MCSetups ==
  { [scheduler |-> TRUE,
     source |-> "a" :> "stock" @@ "b" :> "global" @@ "x" :> "indicator" @@ "y" :> "indicator"],
    [scheduler |-> FALSE,
     source |-> "a" :> "insider" @@ "b" :> "mood" @@ "x" :> "quotes" @@ "y" :> "report"] }
=============================================================================
