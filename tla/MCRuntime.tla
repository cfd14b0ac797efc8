------------------------------ MODULE MCRuntime ------------------------------
(***************************************************************************)
(* One process from its start to its end, and two of the workers it runs:  *)
(* its parts and the life of its loops and its stream (StartUp, Runtime),  *)
(* the detection workers that lease trades (DetectionQueue), and the       *)
(* consumer that turns events of the stream into rows of the realtime work *)
(* queue (RealtimeTriggers).  What Runtime says of a loop is when it runs; *)
(* what the loop does is in a module of its own, and they share no state.  *)
(* So a behaviour follows one of them, its part.                           *)
(*                                                                         *)
(* One trade of one market in two processes with a goroutine each; events  *)
(* of one market; and the whole process under every setting of its         *)
(* switches that StartUp bounds.                                           *)
(***************************************************************************)
EXTENDS StartUp, RealtimeTriggers, DetectionQueue, TLC

VARIABLE part   \* model: what this behaviour is about

mcVars == <<allVars, triggerVars, detectionVars, part>>

One(S) == CHOOSE x \in S : TRUE

\* What stands still has one set of switches, whichever.
MCInit ==
    /\ part \in {"process", "triggers", "detection"}
    /\ BootInit /\ (part # "process" => settings = One(Settings))
    /\ TriggersInit
    /\ DetectionInit

InProcess(A) == part = "process" /\ A /\ UNCHANGED <<triggerVars, detectionVars, part>>
InTriggers(A) == part = "triggers" /\ A /\ UNCHANGED <<allVars, detectionVars, part>>
InDetection(A) == part = "detection" /\ A /\ UNCHANGED <<allVars, triggerVars, part>>

MCNext == InProcess(BootNext) \/ InTriggers(TriggersNext) \/ InDetection(DetectionNext)

\* The fairness of FairBoot, which asks nothing of a process that has not
\* started, and that of FairDetection; RealtimeTriggers has none.
MCSpec ==
    /\ MCInit /\ [][MCNext]_mcVars
    /\ BootFairness
    /\ \A p \in Procs : WF_mcVars(InDetection(Run(p)))
    /\ \A g \in Threads : WF_mcVars(InDetection(Work(g)))
    /\ WF_mcVars(InDetection(Clock))

-----------------------------------------------------------------------------
(* The instance *)

CONSTANTS p1, p2, g1, g2, m1, k1

\* Mids of 10, 11 and 13: two steps that each stay below a fifth, one that does
\* not; a change that carries only a price; a trade; an event without a market.
MCEvents ==
    [kind : {"book"}, market : {"m"}, mid : {10, 11, 13}, price : {0}]
        \cup {[kind |-> "price_change", market |-> "m", mid |-> 0, price |-> 13],
              [kind |-> "last_trade_price", market |-> "m", mid |-> 0, price |-> 13],
              [kind |-> "market_resolved", market |-> NoMarket, mid |-> 0, price |-> 0]}

MCCooldown == [price_move |-> 2, book_change |-> 4]

OneTrade == {1}

OneMarket == [t \in Trades |-> m1]
OneKey    == [t \in Trades |-> k1]

Replicas == g1 :> p1 @@ g2 :> p2
=============================================================================
