----------------------------- MODULE AlertContext -----------------------------
(***************************************************************************)
(* What detect.Loop says about a trade it alerts on, beyond that it is     *)
(* large: whether the wallet makes the market rather than bets on it       *)
(* (mmfilter, which silences the alert), whether the market was quiet      *)
(* before (quietmarket), whether the wallet is new or comes back after     *)
(* long (the wallet boosters), and what part of the outcome it holds (the  *)
(* ownership fusion).                                                      *)
(*                                                                         *)
(* All of it is read from polymarket_trades and polymarket_traders, after  *)
(* the trade itself was stored and while the collector and the backfill    *)
(* store more; any lookup may fail, and no failure stops the alert.  The   *)
(* baselines are read first (Observe), the rest when the alert is put      *)
(* together (emitTradeAnomaly), which is one step here.                    *)
(*                                                                         *)
(* Without a database there is no such context, and the market's baseline  *)
(* is a reservoir in memory (analytics/baseline), a ring of the last       *)
(* trades heard of.                                                        *)
(*                                                                         *)
(* One market and one outcome, trades of one share each.  The trades of a  *)
(* unit of time carry one timestamp.                                       *)
(***************************************************************************)
EXTENDS StagedInputs

CONSTANTS
    Sorts,         \* the trades that may come: records [wallet, side, usd]
    MaxStored,     \* bound: how many come
    PastAges,      \* the ages of the trades a backfill brings
    LiveAlertMaxLag, \* LIVE_ALERT_MAX_LAG
    BaselineWindow, TraderWindow, \* BASELINE_WINDOW, TRADER_BASELINE_WINDOW
    LineWindow,    \* ACCUMULATION_WINDOW
    MM,            \* MM_*: [lookback, perSide, tolerance], the last in percent
    Quiet,         \* QUIET_MARKET_*: [trades, usd, idle, minUsd, multiplier]
    New,           \* NEW_WALLET_*: [age, trades]
    Dormant,       \* DORMANT_WALLET_*: [idle, minUsd]
    Failures,      \* the sets of lookups that may fail in one alert
    RingCap,       \* Config.MaxSamples of the reservoir
    MaxHeard       \* bound: how many trades the reservoir hears of

\* What is looked up for one alert, each in statements of its own: the
\* wallet's two sides, the line's market baseline, the market's last trade,
\* the wallet's row, its last trade, the outcome's shares.
Lookups == {"sides", "stats", "last", "first", "before", "shares"}

\* From this age on a trade or a row of a wallet is in no window.
Horizon == Max({BaselineWindow, TraderWindow, MM.lookback, New.age, LiveAlertMaxLag + Dormant.idle,
                LiveAlertMaxLag + Quiet.idle}) + 1

ASSUME FailuresAssumption == Failures \subseteq SUBSET Lookups
ASSUME WindowsAssumption ==
    /\ BaselineWindow \in Nat /\ TraderWindow \in Nat /\ LiveAlertMaxLag \in Nat
    /\ MM.lookback \in Nat /\ New.age \in Nat /\ Dormant.idle \in Nat /\ Quiet.idle \in Nat
    /\ PastAges \subseteq 1 .. Horizon
ASSUME ContextAssumption ==
    /\ MM.perSide \in Nat \ {0} /\ New.trades \in Nat /\ RingCap \in Nat \ {0}
    /\ \A s \in Sorts : s.usd \in Nat

VARIABLES
    stored,   \* polymarket_trades: <<sort, age>> -> how many there are
    known,    \* polymarket_traders: wallet -> the age of first_seen_at
    asked,    \* the trade in hand, with the baselines read for it
    ring,     \* the reservoir: its buffer, head, size and sum
    heard     \* history: the trades it was told of, in that order

tableVars == <<stored, known, asked>>
ringVars == <<ring, heard>>
contextVars == <<tableVars, ringVars>>

Nothing == [of |-> << >>]

EmptyRing == [buf |-> [i \in 0 .. RingCap - 1 |-> << >>], head |-> 0, size |-> 0, sum |-> 0]

ContextInit ==
    /\ stored = << >> /\ known = << >> /\ asked = Nothing
    /\ ring = EmptyRing /\ heard = << >>

-----------------------------------------------------------------------------
(* The statements *)

CountOf(kinds) == Total(stored, kinds)
UsdOf(kinds) == Total([k \in kinds |-> stored[k] * k[1].usd], kinds)

Trades == DOMAIN stored
TradesOf(w) == {k \in Trades : k[1].wallet = w}
Within(kinds, window) == {k \in kinds : k[2] <= window}
OnSide(kinds, side) == {k \in kinds : k[1].side = side}

\* MAX(traded_at) strictly before a moment of age a: the age of the last
\* trade then, as a set of at most one.
LastBefore(kinds, a) ==
    LET earlier == {k[2] : k \in {k \in kinds : k[2] > a}}
    IN  IF earlier = {} THEN {} ELSE {Min(earlier)}

Span(kinds) == IF kinds = {} THEN 0 ELSE Max({k[2] : k \in kinds}) - Min({k[2] : k \in kinds})

MarketLast(a) == LastBefore(Trades, a)
WalletLast(w, a) == LastBefore(TradesOf(w), a)

\* What a wallet did on either side of late.
BothSides(w) ==
    LET recent == Within(TradesOf(w), MM.lookback)
    IN  [side \in {"BUY", "SELL"} |->
             [count |-> CountOf(OnSide(recent, side)), usd |-> UsdOf(OnSide(recent, side))]]

\* The shares a wallet bought and did not sell, and all that were ever bought.
NetBought(w) == CountOf(OnSide(TradesOf(w), "BUY")) - CountOf(OnSide(TradesOf(w), "SELL"))
EverBought == CountOf(OnSide(Trades, "BUY"))

\* A wallet's row is as old as the wallet is known here, not as its trades.
Seen(w) == [v \in DOMAIN known \cup {w} |-> IF v \in DOMAIN known THEN known[v] ELSE 0]
KnownFor(w) == known[w]

\* PERCENTILE_CONT(0.5) of the notionals, twice.
MedianTwice(kinds) ==
    LET n == CountOf(kinds)
        Ranked(r) == Min({k[1].usd : k \in {k \in kinds :
                              CountOf({l \in kinds : l[1].usd <= k[1].usd}) >= r}})
    IN  IF n = 0 THEN 0 ELSE Ranked((n + 1) \div 2) + Ranked(n \div 2 + 1)

\* dbbaseline.Provider.Stats; a market it cannot resolve has no history.
NoStats == [count |-> 0, usd |-> 0, span |-> 0, medianTwice |-> 0]

MarketStats ==
    LET kinds == Within(Trades, BaselineWindow)
    IN  [count |-> CountOf(kinds), usd |-> UsdOf(kinds), span |-> Span(kinds),
         medianTwice |-> MedianTwice(kinds)]

\* traderbaseline.Provider.Stats: the count is all the boosters use.
History(w) == CountOf(Within(TradesOf(w), TraderWindow))

-----------------------------------------------------------------------------
(* The detectors *)

\* mmfilter.Decide: enough trades on both sides, and their sums close.
\* Whatever it cannot read lets the alert through.
TwoSided(w, lost) ==
    LET sums == {BothSides(w)["BUY"].usd, BothSides(w)["SELL"].usd}
    IN  /\ "sides" \notin lost
        /\ BothSides(w)["BUY"].count >= MM.perSide /\ BothSides(w)["SELL"].count >= MM.perSide
        /\ 100 * (Max(sums) - Min(sums)) <= MM.tolerance * Max(sums)

\* stampQuietMarket: a lookup that fails counts as a market that never traded
\* before.
LastKnown(a, lost) == IF "last" \notin lost THEN MarketLast(a) ELSE {}

\* quietmarket.Decide, for an event of `usd` at age a.
WasQuiet(stats, usd, a, lost) ==
    /\ stats.count >= 1 /\ stats.span > 0
    /\ usd >= Quiet.minUsd
    /\ stats.count <= Quiet.trades * stats.span
    /\ stats.usd <= Quiet.usd * stats.span
    /\ \A l \in LastKnown(a, lost) : l - a >= Quiet.idle
    /\ 2 * usd >= Quiet.multiplier * stats.medianTwice

\* newWalletRef: a young row or a short history.
IsNew(w, history, lost) ==
    /\ "first" \notin lost
    /\ KnownFor(w) <= New.age \/ history <= New.trades

\* Mutant: the wallet's first trade in place of its last.
BackSinceFirst(w, usd, a, isNew, lost) ==
    /\ ~isNew /\ usd >= Dormant.minUsd
    /\ "before" \notin lost
    /\ \E k \in TradesOf(w) : k[2] - a >= Dormant.idle

\* dormantWalletRef: not for a wallet that counts as new.
BackAfterLong(w, usd, a, isNew, lost) ==
    /\ ~isNew /\ usd >= Dormant.minUsd
    /\ "before" \notin lost
    /\ \E l \in WalletLast(w, a) : l - a >= Dormant.idle

\* ownershipFusionRef: what the wallet holds of all that was ever bought, in
\* percent; 0 for no claim.
Share(w, lost) ==
    IF "shares" \notin lost /\ NetBought(w) > 0 THEN (100 * NetBought(w)) \div EverBought ELSE 0

-----------------------------------------------------------------------------
(* The steps *)

\* The collector or a backfill stores a trade, the wallet's row first.
Arrives(s, a) ==
    /\ CountOf(Trades) < MaxStored
    /\ stored' = [k \in Trades \cup {<<s, a>>} |-> (IF k \in Trades THEN stored[k] ELSE 0)
                                                + (IF k = <<s, a>> THEN 1 ELSE 0)]
    /\ known' = Seen(s.wallet)
    /\ asked' = IF asked # Nothing /\ asked.of[1].wallet = s.wallet
                THEN [asked EXCEPT !.since = @ + 1] ELSE asked
    /\ Background

\* Observe: the trade is fresh enough, and its baselines are read.  A history
\* that cannot be read is taken for none; nor can the market be resolved
\* every time.
Observed(k) ==
    /\ asked = Nothing
    /\ k \in Trades /\ k[2] <= LiveAlertMaxLag
    /\ \E history \in {History(k[1].wallet), 0}, stats \in {MarketStats, NoStats} :
           asked' = [of |-> k, history |-> history, stats |-> stats, since |-> 0,
                     failed |-> history = 0 \/ stats = NoStats]
    /\ UNCHANGED <<stored, known>> /\ Background

\* The alert, or the silence, about the trade in hand.
Says(by, silenced, quiet, new, dormant, share, a, lost) ==
    /\ row' = Verdict(by, ~silenced, asked.failed \/ lost # {},
                      [wallet |-> asked.of[1].wallet, at |-> a, since |-> asked.since,
                       quiet |-> quiet, new |-> new, dormant |-> dormant, share |-> share,
                       lost |-> lost])
    /\ asked' = Nothing
    /\ UNCHANGED <<stored, known, lane, live, tape, cache>>

\* emitTradeAnomaly
SingleAlert(lost) ==
    /\ asked # Nothing
    /\ LET s == asked.of[1]  a == asked.of[2]
           isNew == IsNew(s.wallet, asked.history, lost)
       IN  IF TwoSided(s.wallet, lost)
           THEN Says("single", TRUE, FALSE, FALSE, FALSE, 0, a, lost)
           ELSE Says("single", FALSE, WasQuiet(asked.stats, s.usd, a, lost), isNew,
                     BackAfterLong(s.wallet, s.usd, a, isNew, lost), Share(s.wallet, lost), a, lost)

\* evaluateAccumulationWindow, for the recent line of the wallet on its side:
\* quiet is judged from the line's first trade and by a baseline of its own,
\* in whose place the line itself stands when there is none.
LineAlert(lost) ==
    /\ asked # Nothing
    /\ LET s == asked.of[1]
           line == Within(OnSide(TradesOf(s.wallet), s.side), LineWindow)
           a == Max({k[2] : k \in line})
           own == [count |-> CountOf(line), usd |-> 0, span |-> Span(line), medianTwice |-> 0]
           stats == IF "stats" \in lost THEN own ELSE MarketStats
       IN  /\ line # {} /\ ~TwoSided(s.wallet, lost)
           /\ Says("line", FALSE, WasQuiet(stats, UsdOf(line), a, lost),
                   IsNew(s.wallet, asked.history, lost), FALSE, 0, a, lost)

\* Detection is done within the unit.
ContextElapses ==
    /\ asked = Nothing
    /\ \/ \E k \in Trades : k[2] < Horizon
       \/ \E w \in DOMAIN known : known[w] < Horizon
    /\ FrameElapses
    /\ LET Aged(k) == <<k[1], Older(k[2], Horizon)>>
       IN  stored' = [j \in {Aged(k) : k \in Trades} |-> CountOf({k \in Trades : Aged(k) = j})]
    /\ known' = [w \in DOMAIN known |-> Older(known[w], Horizon)]
    /\ UNCHANGED asked

ContextNext ==
    /\ UNCHANGED ringVars
    /\ \/ \E s \in Sorts : Arrives(s, 0)
       \/ \E s \in Sorts, a \in PastAges : Arrives(s, a)
       \/ \E k \in Trades : Observed(k)
       \/ \E lost \in Failures : SingleAlert(lost) \/ LineAlert(lost)
       \/ ContextElapses

-----------------------------------------------------------------------------
(* The reservoir *)

\* The i-th oldest sample of a ring.
Sample(r, i) == r.buf[(r.head + i) % RingCap]

SumOf(r, n) == Total([i \in 0 .. n - 1 |-> Sample(r, i).usd], 0 .. n - 1)

\* ring.trim: from the head on, and only as far as the samples are old: one
\* that came late stays behind a younger one.
Trimmed(r) ==
    LET n == Min({n \in 0 .. r.size : n = r.size \/ Sample(r, n).age <= BaselineWindow})
    IN  [r EXCEPT !.head = (@ + n) % RingCap, !.size = @ - n, !.sum = @ - SumOf(r, n)]

\* Mutant: the sample written over stays in the sum.
PushedOver(r, s) ==
    IF r.size < RingCap
    THEN [r EXCEPT !.buf[(r.head + r.size) % RingCap] = s, !.size = @ + 1, !.sum = @ + s.usd]
    ELSE [r EXCEPT !.buf[r.head] = s, !.head = (@ + 1) % RingCap, !.sum = @ + s.usd]

\* ring.push: a full ring loses its oldest sample.
Pushed(r, s) ==
    IF r.size < RingCap
    THEN [r EXCEPT !.buf[(r.head + r.size) % RingCap] = s, !.size = @ + 1, !.sum = @ + s.usd]
    ELSE [r EXCEPT !.buf[r.head] = s, !.head = (@ + 1) % RingCap,
                   !.sum = @ - r.buf[r.head].usd + s.usd]

\* Baseline.Stats
RingStats(r) ==
    LET ages == {Sample(r, i).age : i \in 0 .. r.size - 1}
    IN  [count |-> r.size, usd |-> r.sum, span |-> IF ages = {} THEN 0 ELSE Max(ages) - Min(ages)]

\* readBaseline without a Baseliner: the trade is judged by what came before
\* it, and then it is one of them.
HeardOf(s, a) ==
    /\ Len(heard) < MaxHeard
    /\ row' = Verdict("ring", TRUE, FALSE, RingStats(Trimmed(ring)))
    /\ ring' = Pushed(Trimmed(ring), [usd |-> s.usd, age |-> a])
    /\ heard' = Append(heard, [usd |-> s.usd, age |-> a])
    /\ UNCHANGED <<lane, live, tape, cache>>

\* A place that was never written stays empty.
AgedBuffer(buf) ==
    [i \in DOMAIN buf |-> IF buf[i] = << >> THEN buf[i] ELSE [buf[i] EXCEPT !.age = Older(@, Horizon)]]

RingElapses ==
    /\ \E i \in DOMAIN heard : heard[i].age < Horizon
    /\ FrameElapses
    /\ ring' = [ring EXCEPT !.buf = AgedBuffer(@)]
    /\ heard' = [i \in DOMAIN heard |-> [heard[i] EXCEPT !.age = Older(@, Horizon)]]

RingNext ==
    /\ UNCHANGED tableVars
    /\ \/ \E s \in Sorts, a \in {0} \cup PastAges : HeardOf(s, a)
       \/ RingElapses

-----------------------------------------------------------------------------
(* Properties *)

\* Nobody traded in the moments of `idle` before one of age a.
StillBefore(kinds, a, idle) == ~ \E k \in kinds : a < k[2] /\ k[2] < a + idle

\* What an alert says about the wallet and the market is so in the tables,
\* whatever was stored between its reads and whichever of them failed: who is
\* silenced has traded both ways; who is said to come back after long was
\* known before, has not traded for that long and is not called new; who is
\* called new is young to us or had a short history when it was read, or that
\* read failed; a market said to have woken up was still, unless the lookup
\* failed; nobody holds more than there is.
ContextIsTrue ==
    (row # NoRow /\ row.by \in {"single", "line"}) =>
        LET o == row.on  mine == TradesOf(o.wallet) IN
        /\ ~row.fired => OnSide(mine, "BUY") # {} /\ OnSide(mine, "SELL") # {}
        /\ o.dormant =>
               /\ ~o.new
               /\ StillBefore(mine, o.at, Dormant.idle)
               /\ \E k \in mine : k[2] >= o.at + Dormant.idle
               /\ "first" \notin o.lost => known[o.wallet] > New.age
        /\ o.new => \/ known[o.wallet] <= New.age \/ row.failed
                    \/ CountOf(Within(mine, TraderWindow)) - o.since <= New.trades
        /\ (o.quiet /\ "last" \notin o.lost) => StillBefore(Trades, o.at, Quiet.idle)
        /\ o.share <= 100
        /\ o.share > 0 => CountOf(OnSide(mine, "BUY")) > CountOf(OnSide(mine, "SELL"))

\* What the reservoir says of a trade is the sum and the span of some last
\* trades before it, none left out that is in the window and was not pushed
\* out by RingCap later ones, and none counted that is too old unless it came
\* after one that is not.
RingTellsTheLast ==
    (row # NoRow /\ row.by = "ring") =>
        LET before == Len(heard) - 1
            counted == before - row.on.count + 1 .. before
            Ages == {heard[i].age : i \in counted}
        IN  /\ row.on.usd = Total([i \in counted |-> heard[i].usd], counted)
            /\ row.on.span = IF Ages = {} THEN 0 ELSE Max(Ages) - Min(Ages)
            /\ \A i \in 1 .. before : heard[i].age <= BaselineWindow =>
                   i \in counted \/ i <= before - RingCap
            /\ \A i \in counted : heard[i].age > BaselineWindow =>
                   \E j \in counted : j < i /\ heard[j].age <= BaselineWindow

\* What an alert is judged by and what it says is so.
AlertsTellTheTrades == ContextIsTrue /\ RingTellsTheLast

=============================================================================
