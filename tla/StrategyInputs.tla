---------------------------- MODULE StrategyInputs ----------------------------
(***************************************************************************)
(* The shadow strategies' producers and readers together.  The hook runs   *)
(* the strategies one after another and none reads what another one keeps, *)
(* so a behaviour is about one of them, chosen at the start.  What an      *)
(* alert says of its wallet and market (AlertContext) is one more lane:    *)
(* its tables are the same, its reads are none of the strategies'.  So is  *)
(* the choice of the markets that are watched (MarketSelection).           *)
(***************************************************************************)
EXTENDS WalletGraph, ThesisLines, RiskScores, RepricingWindows, HolderSnapshots,
        BookBars, SignalConflicts, CatalystWindows, AlertContext, MarketSelection

inputsVars == <<stagedVars, edges, links, lines, scoreVars, windowVars, holderVars,
                barVars, decided, catalysts, contextVars, selectionVars>>

InputsInit ==
    /\ StagedInit
    /\ GraphInit
    /\ LinksInit /\ LinesInit
    /\ ScoresInit
    /\ WindowsInit
    /\ HoldersInit
    /\ BarsInit /\ (lane # "bars" => book = [bid |-> Min(Depths), ask |-> Min(Depths)])
    /\ ConflictsInit
    /\ CatalystsInit
    /\ ContextInit
    /\ SelectionInit

\* The variables of every other strategy stay as they are.
Others(mine) ==
    /\ mine # "cohort" => UNCHANGED edges
    /\ mine # "thesis" => UNCHANGED lines
    /\ mine \notin {"thesis", "lag"} => UNCHANGED links
    /\ mine # "tail" => UNCHANGED scoreVars
    /\ mine # "lag" => UNCHANGED windowVars
    /\ mine # "holders" => UNCHANGED holderVars
    /\ mine # "bars" => UNCHANGED barVars
    /\ mine # "conflict" => UNCHANGED decided
    /\ mine # "catalyst" => UNCHANGED catalysts
    /\ mine \notin {"context", "ring"} => UNCHANGED contextVars
    /\ mine # "watch" => UNCHANGED selectionVars

InputsNext ==
    \/ lane = "cohort" /\ GraphNext /\ Others("cohort")
    \/ lane = "thesis" /\ LinesNext /\ Others("thesis")
    \/ lane = "tail" /\ ScoresNext /\ Others("tail")
    \/ lane = "lag" /\ WindowsNext /\ Others("lag")
    \/ lane = "holders" /\ HoldersNext /\ Others("holders")
    \/ lane = "bars" /\ BarsNext /\ Others("bars")
    \/ lane = "conflict" /\ ConflictsNext /\ Others("conflict")
    \/ lane = "catalyst" /\ CatalystsNext /\ Others("catalyst")
    \/ lane = "context" /\ ContextNext /\ Others("context")
    \/ lane = "ring" /\ RingNext /\ Others("ring")
    \/ lane = "watch" /\ SelectionNext /\ Others("watch")

InputsSpec == InputsInit /\ [][InputsNext]_inputsVars

(***************************************************************************)
(* The risk worker's ticker keeps ticking, and not every tick of it loses  *)
(* a write.  The hook need not ask, and no trade or catalyst need come.    *)
(***************************************************************************)
CleanTick == lane = "tail" /\ ScoreTick({}) /\ Others("tail")

FairInputs == InputsSpec /\ SF_inputsVars(CleanTick)

(***************************************************************************)
(* Properties of the strategies together                                   *)
(***************************************************************************)

\* A wallet that did not buy is not taken for an accumulator because others
\* left: holderdelta does not fire on two snapshots between which the wallet's
\* shares did not grow while the open interest fell by more than a twentieth.
LeaversMakeNoBuyer ==
    (row # NoRow /\ row.by = "holderdelta" /\ row.fired) =>
        \/ row.on[1].shares > row.on[2].shares
        \/ 20 * row.on[1].oi >= 19 * row.on[2].oi

\* A verdict of the hook is backed by the tables its strategy reads, and they
\* by the trades, whatever writes failed and however old the cached answers
\* were: two wallets of an edge did trade together, a thesis was traded,
\* a cheap tail's market is clear, an alert is counted to the right catalyst,
\* the two sides of a market are set against each other when they should be,
\* leaving holders make no buyer, an alert says of its wallet and market what
\* the trades say, and the markets that are watched are the ones that should.
RowsAreBacked ==
    /\ EdgeIsShared /\ ThesisWasTraded /\ TailIsClear /\ CatalystsTellAhead
    /\ ConflictIsNoticed /\ LeaversMakeNoBuyer /\ AlertsTellTheTrades
    /\ WatchIsFair

\* The risk worker's batches reach everyone: again and again every live
\* market has a score, however many there are for a batch, whichever writes
\* fail, whatever markets come back, and however the rows of an older score
\* version crowd the order.
EveryMarketScored ==
    []<>(lane = "tail" => \A m \in live : \E i \in DOMAIN scores : scores[i].market = m)

=============================================================================
