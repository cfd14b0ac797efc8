-------------------------- MODULE MCAlertFollowUp --------------------------
(* A purchase, whose lookup always fails, and a sale on one market; for the
   drift, the older alert waits for a trade and the younger has no token. *)
EXTENDS PriceDrift

MCAlerts == {1, 2}
MCMarkets == {"m"}
MCMarketOf == [a \in MCAlerts |-> "m"]
MCLabels == {"Yes"}
MCBet == [a \in MCAlerts |-> [side |-> IF a = 1 THEN "BUY" ELSE "SELL", label |-> "Yes"]]
MCPlan == [a \in MCAlerts |-> IF a = 1 THEN "none" ELSE "success"]
MCEndDate == [m \in MCMarkets |-> 1]
=============================================================================
