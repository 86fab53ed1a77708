------------------------------ MODULE MCLogFetch ------------------------------
(* Instances of LogFetch for TLC.                                          *)
EXTENDS LogFetch, TLC

CONSTANTS t1, t2

OneTask == {t1}
TwoTasks == {t1, t2}

\* The limits of the endpoints.
LimitsOneTask == 0 :> 2 @@ 1 :> 1
LimitsComplete == 0 :> 1 @@ 1 :> 2
LimitsStuck == 0 :> 4 @@ 1 :> 2

StuckFirst == {0}
=============================================================================
