--------------------------- MODULE MCHealthManager ---------------------------
(* Small instances of HealthManager: where each instance runs.             *)
EXTENDS HealthManager, TLC

CONSTANTS g1, g2, g3

Alone == g1 :> 0
Apart == (g1 :> 0) @@ (g2 :> 1)
Together == (g1 :> 0) @@ (g2 :> 0)
Three == Together @@ (g3 :> 0)
=============================================================================
