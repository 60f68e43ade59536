--------------------------- MODULE MCJobLifecycle ---------------------------
(* Instances of JobLifecycle for TLC.  One job is the whole state; the two   *)
(* limits matter by being 0 or not and by how they compare, so 0..2 has      *)
(* every case.                                                               *)
EXTENDS JobLifecycle

AnyJob == [origin : {"api", "scheduler"}, route : {"intent", "stream"},
           soft : 0..2, hard : 0..2, ttlOvertakes : BOOLEAN]

\* An API job with a soft limit, the TTL as configured.
SoftJob == [origin : {"api"}, route : {"intent"}, soft : {1}, hard : {2},
            ttlOvertakes : {FALSE}]
==============================================================================
