--------------------------- MODULE MCAlertSender ---------------------------
(***************************************************************************)
(* AlertSender on small instances: one process with one goroutine, or two  *)
(* processes with one goroutine each.                                      *)
(***************************************************************************)
EXTENDS AlertSender, TLC

CONSTANTS p1, p2, t1, t2

OneAlert  == {1}
TwoAlerts == {1, 2}

Replicas   == t1 :> p1 @@ t2 :> p2
=============================================================================
