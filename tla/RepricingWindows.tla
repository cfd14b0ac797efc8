--------------------------- MODULE RepricingWindows ---------------------------
(***************************************************************************)
(* usecase/repricing with the adapters of strategy_phase_c.go, and the     *)
(* repricinglag strategy.  A tick opens a window for every catalyst of its *)
(* lookback, again in every tick, and then closes the windows that are     *)
(* due, the longest due first and no more than MaxOpenWindows.  The        *)
(* adapters know no condition for a catalyst: every window is about the    *)
(* empty one, which no trade is about, so every window is closed as stale  *)
(* and the hook, which asks by condition, never finds one.                 *)
(*                                                                         *)
(* A window is kept as the time left until it is due, negative when it is  *)
(* overdue; windows of one time left are counted, as nothing else tells    *)
(* them apart.                                                             *)
(***************************************************************************)
EXTENDS ThesisLines, SequencesExt

CONSTANTS
    TriggerIds,      \* the catalysts there may be
    MaxLead,         \* bound: how far ahead a catalyst is announced
    OpenLookback,    \* REPRICING_WORKER_LOOKBACK, in units
    CloseAfter,      \* REPRICING_WORKER_CLOSE_AFTER, in units
    MaxOpenWindows,  \* REPRICING_WORKER_MAX_OPEN
    MaxOverdue,      \* bound: time overdue from which on it is not counted
    MaxAlike,        \* bound: how many windows of one time left are counted
    PriceLookback,   \* the hour over which a price is looked for, in units
    LagFloor,        \* the worker's 0.03, in cents
    MinLagCents,     \* REPRICING_LAG_MIN_CENTS
    PeerMinCount     \* REPRICING_LAG_PEER_MIN_COUNT

ASSUME LagAssumption == \A t \in Prints["lag"] : t.market # 0

VARIABLES
    triggers,  \* active or expected catalysts: id -> time until expected
    open,      \* open windows: time left -> how many
    closed     \* the closed windows the hook could find

windowVars == <<triggers, open, closed>>

Left == -MaxOverdue .. MaxLead + CloseAfter

WindowsInit ==
    /\ triggers = << >>
    /\ open = [l \in Left |-> 0]
    /\ closed = {}

NoCondition == 0

\* The condition the sink stores with a window.
SinkCondition == NoCondition

\* The catalysts of the lookback, the latest expected first, at most
\* MaxOpenWindows of them.
NewTriggers ==
    LET recent == {c \in DOMAIN triggers : triggers[c] >= -OpenLookback}
        list == SetToSortSeq(recent, LAMBDA c, d : \/ triggers[c] > triggers[d]
                                                   \/ triggers[c] = triggers[d] /\ c < d)
    IN  SubSeq(list, 1, Min({MaxOpenWindows, Len(list)}))

\* When the window of a catalyst is due: CloseAfter after it, now at once
\* when that has passed.
ClosesIn(c) == Max({0, triggers[c] + CloseAfter})

\* The counts once the windows of the listed catalysts have been opened.
Opened(list) ==
    [l \in Left |-> Min({MaxAlike,
        open[l] + Cardinality({i \in DOMAIN list : ClosesIn(list[i]) = l})})]

\* How many windows the close phase takes that are due in l: the limit, less
\* those due before.
Taken(counts, l) ==
    LET before == MapThenSumSet(LAMBDA k : counts[k], {k \in Left : k < l})
    IN  IF l > 0 THEN 0 ELSE Min({counts[l], Max({0, MaxOpenWindows - before})})

\* The first price of a condition within the hour, if it was traded.
FirstPrice(m) ==
    LET mine == {i \in DOMAIN tape : tape[i].market = m /\ tape[i].age <= PriceLookback}
    IN  IF mine = {} THEN {} ELSE {tape[Min(mine)].price}

\* The median price of the linked markets that were traded, in half cents,
\* and how many there are; none without an anchor.
PeerMedian(anchor) ==
    LET peers == {m \in PeersOf(anchor) : FirstPrice(m) # {}}
        PriceAt(m) == CHOOSE p \in FirstPrice(m) : TRUE
        list == SetToSortSeq(peers, LAMBDA l, m : PriceAt(l) < PriceAt(m)
                                                  \/ (PriceAt(l) = PriceAt(m) /\ l < m))
        n == Len(list)
    IN  IF anchor = NoCondition \/ peers = {} THEN [twice |-> 0, n |-> 0]
        ELSE [twice |-> PriceAt(list[(n + 2) \div 2]) + PriceAt(list[(n + 1) \div 2]), n |-> n]

\* The row of a closed window of a condition: its status and, twice over in
\* hundredths of a dollar, the move of its price and that of its peers.  The
\* baseline both are measured from is never set.
Closing(m) ==
    LET price == CHOOSE p \in FirstPrice(m) : TRUE
        peer == PeerMedian(m)
        Closed(status, observed, moved) ==
            [condition |-> m, status |-> status, observed |-> observed, peer |-> moved]
    IN  CASE FirstPrice(m) = {} -> Closed("stale_missing_price", 0, 0)
          [] FirstPrice(m) # {} /\ peer.n = 0 ->
                 Closed("stale_missing_peers", 2 * price, 0)
          [] OTHER ->
                 Closed(IF peer.twice - 2 * price >= 2 * LagFloor
                        THEN "closed_lag_detected" ELSE "closed_no_lag",
                        2 * price, peer.twice)

\* One tick: the windows of the catalysts in `lost` are not opened, and of
\* the windows due in an l of `stuck`, one of those taken is not closed.
WindowsTick(lost, stuck) ==
    LET counts == Opened(SelectSeq(NewTriggers, LAMBDA c : c \notin lost))
        done == [l \in Left |-> Max({0, Taken(counts, l) - (IF l \in stuck THEN 1 ELSE 0)})]
    IN  /\ open' = [l \in Left |-> counts[l] - done[l]]
        /\ closed' = closed \cup (IF \E l \in Left : done[l] > 0
                                  THEN {Closing(SinkCondition)} ELSE {})
        /\ Background
        /\ UNCHANGED <<triggers, links>>

\* The importer announces a catalyst; it is cancelled or done.
Announced(c, lead) ==
    /\ c \notin DOMAIN triggers
    /\ triggers' = [d \in DOMAIN triggers \cup {c} |-> IF d = c THEN lead ELSE triggers[d]]
    /\ Background
    /\ UNCHANGED <<open, closed, links>>

Over(c) ==
    /\ c \in DOMAIN triggers
    /\ triggers' = [d \in DOMAIN triggers \ {c} |-> triggers[d]]
    /\ Background
    /\ UNCHANGED <<open, closed, links>>

\* The windows of a condition that were closed with a move measured.
ClosedWindows(m) == {w \in closed : w.condition = m
                                    /\ w.status \in {"closed_lag_detected", "closed_no_lag"}}

ClosedRepricingWindowsForCondition(m) == Reads(<<"rw", m>>, ClosedWindows(m), {})

\* repricinglag's verdict: the move and the only peer move it is given are
\* dollars, the floor is cents.
LagFires(observed, moves) ==
    LET expected == Max({0} \cup moves)
        far == 2 * 100 * MinLagCents
    IN  /\ Cardinality(moves) >= PeerMinCount
        /\ expected - observed >= far \/ observed - expected >= far

\* The hook asks about an alert on market m and looks at one window.
AskLag(m) ==
    /\ \E r \in ClosedRepricingWindowsForCondition(m) :
           Concludes(r, Verdict("repricinglag",
                                r.rows # {} /\ LET w == CHOOSE w \in r.rows : TRUE
                                               IN  LagFires(w.observed, {w.peer}),
                                r.failed, m))
    /\ UNCHANGED <<links, triggers, open, closed>>

\* A unit passes: everything is due a unit earlier.
WindowsElapse ==
    /\ FrameElapses
    /\ triggers' = [c \in {c \in DOMAIN triggers : triggers[c] >= -OpenLookback} |->
                        triggers[c] - 1]
    /\ open' = [l \in Left |-> Min({MaxAlike,
                    (IF l = -MaxOverdue THEN open[l] ELSE 0)
                    + (IF l + 1 \in Left THEN open[l + 1] ELSE 0)})]
    /\ UNCHANGED <<closed, links>>

WindowsNext ==
    \/ \E t \in Prints["lag"] : Traded(t) /\ UNCHANGED <<links, triggers, open, closed>>
    \/ \E lost \in SUBSET TriggerIds, stuck \in SUBSET {l \in Left : l <= 0} : WindowsTick(lost, stuck)
    \/ \E c \in TriggerIds, lead \in 0 .. MaxLead : Announced(c, lead)
    \/ \E c \in TriggerIds : Over(c)
    \/ \E t \in Prints["lag"] : AskLag(t.market)
    \/ WindowsElapse

=============================================================================
