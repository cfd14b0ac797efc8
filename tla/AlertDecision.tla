--------------------------- MODULE AlertDecision ---------------------------
(***************************************************************************)
(* detect.Loop: what the handlers of stored trades turn into alert rows.   *)
(* A handler goes through five surfaces in a fixed order: the category     *)
(* watch, the single trade, the wallet's recent line, its ownership, its   *)
(* lifetime line.  On each it composes a finding, asks the concentration   *)
(* gate (which reads the alerts already sent) and inserts the row, whose   *)
(* key is unique.  Handlers of other trades work at the same time and the  *)
(* sender turns rows into `sent` behind them.                              *)
(* One event, category and outcome, all trades buys; severities are ranks. *)
(***************************************************************************)
EXTENDS Integers, FiniteSets, Sequences

CONSTANTS
    Trades, Wallet, Notional, At,   \* of a trade: who, how much, when
    Early,          \* trades before the lifecycle gate opens
    Hot,            \* trades in the hot part of the lifecycle
    Grade,          \* highest tier whose absolute and payoff floors a trade passes
    Giants,         \* trades above the absolute floors of critical
    Baselines,      \* what the baseline may say: [ready, tail], tail the highest tier its ratios pass
    Makers,         \* wallets with balanced two-sided activity
    Nothing,
    Workers,        \* handlers at a time
    MaxLag,         \* LiveAlertMaxLag
    Window, Cooldown, MinTrades, MinWallets,     \* cluster.Config
    LineMin, Floor, MinProfit, Gain, LineWindow, Bucket,  \* accumulation: tierMinTrades, tier floors, odds - 1
    Share, MinPosition,                          \* ownership.Config
    Limit, EventWindow, WalletWindow, Factor,    \* concentration.Config, one factor for both rules
    MaxTime,        \* model bound on the clock
    Mishaps         \* model bound: crashes, failed reads and failed inserts

Info == 1
Warning == 2
Critical == 3
Hard == 4
Tiers == Info .. Critical

ASSUME TradesAssumption ==
    /\ IsFiniteSet(Trades) /\ Nothing \notin Trades
    /\ Notional \in [Trades -> Nat \ {0}] /\ At \in [Trades -> Nat]
    /\ Grade \in [Trades -> 0 .. Critical]
    /\ Early \cup Hot \cup Giants \subseteq Trades
    /\ Baselines \subseteq [ready : BOOLEAN, tail : 0 .. Critical] /\ Baselines # {}
ASSUME RulesAssumption ==
    /\ {Workers, MaxLag, Window, Cooldown, MinTrades, MinWallets, Gain, LineWindow, Bucket,
        MinPosition, Limit, EventWindow, WalletWindow, Factor, MaxTime, Mishaps} \subseteq Nat
    /\ {LineMin, Floor, MinProfit, Share} \subseteq [Tiers -> Nat]
    /\ Workers > 0 /\ Bucket > 0 /\ Cooldown > 0 /\ Limit > 0

VARIABLES
    now,
    stage, hand,        \* of a trade: the surface its handler is at, the finding it is about to insert
    score,              \* of a trade: the severity it fired with, 0 for none
    alerts, sent,       \* the rows, and the keys of those the sender has sent
    entries, lastFire,  \* the cluster detector's memory: trades in order of arrival, -1 for never
    lost, opened, full, \* history: see the actions that set them
    mishaps

handlers == <<stage, hand, score>>
table    == <<alerts, sent>>
cluster  == <<entries, lastFire>>
decisionHistory  == <<lost, opened, full>>
decisionVars     == <<now, handlers, table, cluster, decisionHistory, mishaps>>

DecisionInit ==
    /\ now = 0
    /\ stage = [t \in Trades |-> "new"]
    /\ hand = [t \in Trades |-> Nothing]
    /\ score = [t \in Trades |-> 0]
    /\ alerts = {} /\ sent = {}
    /\ entries = <<>> /\ lastFire = -1
    /\ lost = {} /\ opened = {} /\ full = Nothing
    /\ mishaps = Mishaps

Mishap == mishaps > 0 /\ mishaps' = mishaps - 1

Resting == {"new", "stored", "done"}
Stored == {t \in Trades : stage[t] # "new"}

\* The surface after a surface.
After == [watch |-> "single", single |-> "recent", recent |-> "lifetime",
          owner |-> "lifetime", lifetime |-> "done"]

-----------------------------------------------------------------------------
(* The rules, as functions of what was read *)

\* score.Score with its low-baseline cap: without a ready market baseline the
\* ratios are not asked, and only a giant keeps more than info.
Score(t, b) ==
    IF b.ready THEN IF Grade[t] < b.tail THEN Grade[t] ELSE b.tail
    ELSE IF t \in Giants \/ Grade[t] = 0 THEN Grade[t] ELSE Info

Sum[S \in SUBSET Trades] ==
    IF S = {} THEN 0 ELSE LET u == CHOOSE u \in S : TRUE IN Notional[u] + Sum[S \ {u}]

\* PERCENTILE_CONT(0.5), twice: the middle pair, or the middle one counted twice.
MedianTwice(S) ==
    LET below(u) == Cardinality({v \in S : Notional[v] < Notional[u]})
        upto(u)  == Cardinality({v \in S : Notional[v] <= Notional[u]})
        n == Cardinality(S)
        rank(k) == Notional[CHOOSE u \in S : below(u) < k /\ k <= upto(u)] IN
    rank((n + 1) \div 2) + rank(n \div 2 + 1)

\* passesNonSize and passesSize of accumulation.Decide; the tail ratios of a
\* line are not asked, as without a ready baseline.
Passes(S, tier) ==
    /\ Cardinality(S) >= LineMin[tier]
    /\ Sum[S] * Gain >= MinProfit[tier]
    /\ \/ Sum[S] >= 4 * Floor[tier]
       \/ Sum[S] >= 2 * Floor[tier] /\ 10 * MedianTwice(S) >= 12 * Floor[tier]

Highest(S) == CHOOSE x \in S \cup {0} : \A y \in S : y <= x

\* accumulation.Decide for the line S that trade t extended.
LineTier(S, t) ==
    LET tier == IF S = {} THEN 0 ELSE Highest({x \in Tiers : Passes(S, x)}) IN
    IF tier = Critical /\ t \in Hot /\ Sum[S] >= 3 * Floor[Critical] THEN Hard ELSE tier

\* ownership.Decide: the wallet's part of all buys, in percent.
OwnerTier(w) ==
    LET mine == Sum[{t \in Stored : Wallet[t] = w}] IN
    IF mine < MinPosition THEN 0
    ELSE Highest({x \in Tiers : 100 * mine >= Share[x] * Sum[Stored]})

Line(w, since) == {t \in Stored : Wallet[t] = w /\ At[t] >= since}

\* Mutant: rows the sender has not sent yet count as well.
CountsPending(t, since) == {r \in alerts : r.at > since}

\* RecentAlertsForEvent: only sent rows, from the trade's time backwards.
Recent(t, since) == {r \in alerts : r.key \in sent /\ r.at > since}

\* Mutant: one alert too many passes the cap.
CapLate(t) ==
    LET prior == Recent(t, At[t] - EventWindow) IN
    Cardinality(prior) > Limit /\ \E r \in prior : Notional[t] < Factor * r.usd

\* Rule 1: the wallet's own alerts on the event.
Repeats(t) ==
    \E r \in Recent(t, At[t] - WalletWindow) : r.wallet = Wallet[t] /\ Notional[t] < Factor * r.usd

\* Rule 2: the event's alerts.
Capped(t) ==
    LET prior == Recent(t, At[t] - EventWindow) IN
    Cardinality(prior) >= Limit /\ \E r \in prior : Notional[t] < Factor * r.usd

\* concentration.Gate.Evaluate: warning and above always pass.
Suppressed(t, sev) == sev = Info /\ (Repeats(t) \/ Capped(t))

\* Mutant: a line is told once, whatever its tier.
OnceALine(t, sev) == <<"lifetime", Wallet[t], 0>>

LifetimeKey(t, sev) == <<"lifetime", Wallet[t], sev>>
RecentKey(t) == <<"recent", Wallet[t], now \div Bucket>>
WatchKey == <<"cluster", "all", now \div Cooldown>>
SingleKey(t) == <<"single", "trade", t>>
OwnerKey(t, sev) == <<"owner", Wallet[t], sev>>

Finding(t, key, sev, usd) == [key |-> key, sev |-> sev, by |-> t, wallet |-> Wallet[t], usd |-> usd, at |-> 0]

\* emitCategoryWatch: its payload names no trade, so the gate sees no wallet and no amount.
Watch(t) == [Finding(t, WatchKey, Hard, 0) EXCEPT !.wallet = Nothing]

\* mmfilter.Decide: enough trades on both sides, of nearly equal worth.
TwoSided(t) == Wallet[t] \in Makers

-----------------------------------------------------------------------------
SecondPasses ==
    /\ now < MaxTime
    /\ now' = now + 1
    /\ UNCHANGED <<handlers, table, cluster, decisionHistory, mishaps>>

\* The trade's row is in polymarket_trades, at its time or later.
Store(t) ==
    /\ stage[t] = "new" /\ At[t] <= now
    /\ stage' = [stage EXCEPT ![t] = "stored"]
    /\ UNCHANGED <<now, hand, score, table, cluster, decisionHistory, mishaps>>

\* trimBefore: only from the front.
Trim(s, cutoff) ==
    LET keep == {i \in 1 .. Len(s) : At[s[i]] >= cutoff} IN
    IF keep = {} THEN <<>>
    ELSE SubSeq(s, CHOOSE i \in keep : \A j \in keep : i <= j, Len(s))

\* cluster.Detector.Observe on the entries with the new one.
Clusters(s) ==
    /\ Len(s) >= MinTrades
    /\ Cardinality({Wallet[s[i]] : i \in 1 .. Len(s)}) >= MinWallets
    /\ lastFire = -1 \/ now - lastFire >= Cooldown

\* Observe, up to the first finding.  A baseline that cannot be read ends the
\* single trade's part, not the lines'.
BeginTrade(t) ==
    /\ stage[t] = "stored"
    /\ Cardinality({u \in Trades : stage[u] \notin Resting}) < Workers
    /\ \/ /\ t \in Early \/ now - At[t] > MaxLag
          /\ stage' = [stage EXCEPT ![t] = "done"]
          /\ lost' = lost \cup {t}
          /\ UNCHANGED <<hand, score, cluster, mishaps>>
       \/ /\ t \notin Early /\ now - At[t] <= MaxLag
          /\ \E b \in Baselines : LET s == Append(Trim(entries, now - Window), t) IN
                IF Score(t, b) = 0
                THEN /\ stage' = [stage EXCEPT ![t] = "recent"]
                     /\ UNCHANGED <<hand, score, cluster>>
                ELSE /\ score' = [score EXCEPT ![t] = Score(t, b)]
                     /\ entries' = s
                     /\ lastFire' = IF Clusters(s) THEN now ELSE lastFire
                     /\ stage' = [stage EXCEPT ![t] = IF Clusters(s) THEN "watch" ELSE "single"]
                     /\ hand' = IF Clusters(s)
                                THEN [hand EXCEPT ![t] = Watch(t)]
                                ELSE hand
          /\ UNCHANGED <<lost, mishaps>>
       \/ /\ t \notin Early /\ now - At[t] <= MaxLag
          /\ Mishap
          /\ stage' = [stage EXCEPT ![t] = "recent"]
          /\ lost' = lost \cup {t}
          /\ UNCHANGED <<hand, score, cluster>>
    /\ UNCHANGED <<now, table, opened, full>>

\* A finding of the surface at hand, if any: the market-maker filter, then the
\* gate.  Either one that cannot read lets the finding pass.
Offer(t, sev, finding, filtered) ==
    \/ /\ sev = 0 \/ (filtered /\ TwoSided(t)) \/ Suppressed(t, sev)
       /\ stage' = [stage EXCEPT ![t] = After[stage[t]]]
       /\ UNCHANGED <<hand, lost, opened, mishaps>>
    \/ /\ sev # 0 /\ ~(filtered /\ TwoSided(t)) /\ ~Suppressed(t, sev)
       /\ hand' = [hand EXCEPT ![t] = finding]
       /\ UNCHANGED <<stage, lost, opened, mishaps>>
    \/ /\ sev # 0 /\ ((filtered /\ TwoSided(t)) \/ Suppressed(t, sev))
       /\ Mishap
       /\ hand' = [hand EXCEPT ![t] = finding]
       /\ opened' = opened \cup {t}
       /\ UNCHANGED <<stage, lost>>

\* The line, the shares or the trader's id could not be read.
Unread(t) ==
    /\ Mishap
    /\ stage' = [stage EXCEPT ![t] = After[stage[t]]]
    /\ lost' = lost \cup {t}
    /\ UNCHANGED <<hand, opened>>

Ready(t, s) == stage[t] = s /\ hand[t] = Nothing
Rest == UNCHANGED <<now, score, table, cluster, full>>

\* emitTradeAnomaly
Single(t) ==
    /\ Ready(t, "single")
    /\ Offer(t, score[t], Finding(t, SingleKey(t), score[t], Notional[t]), TRUE)
    /\ Rest

\* evaluateAccumulationWindow, recent.
RecentLine(t) ==
    /\ Ready(t, "recent")
    /\ LET S == Line(Wallet[t], now - LineWindow)
           sev == LineTier(S, t) IN
       Offer(t, sev, Finding(t, RecentKey(t), sev, Sum[S]), TRUE) \/ Unread(t)
    /\ Rest

\* evaluateOwnership
Owner(t) ==
    /\ Ready(t, "owner")
    /\ LET sev == OwnerTier(Wallet[t])
           usd == Sum[{u \in Stored : Wallet[u] = Wallet[t]}] IN
       Offer(t, sev, Finding(t, OwnerKey(t, sev), sev, usd), FALSE) \/ Unread(t)
    /\ Rest

\* evaluateAccumulationWindow, lifetime.
LifetimeLine(t) ==
    /\ Ready(t, "lifetime")
    /\ LET S == Line(Wallet[t], 0)
           sev == LineTier(S, t) IN
       Offer(t, sev, Finding(t, LifetimeKey(t, sev), sev, Sum[S]), TRUE) \/ Unread(t)
    /\ Rest

\* TryCreatePending: ON CONFLICT (dedup_key) DO NOTHING.  Only a recent line
\* whose row is new goes on to the ownership check; a failed insert is logged.
Insert(t) ==
    /\ hand[t] # Nothing
    /\ LET taken == \E r \in alerts : r.key = hand[t].key IN
       \/ /\ alerts' = IF taken THEN alerts ELSE alerts \cup {[hand[t] EXCEPT !.at = now]}
          /\ stage' = [stage EXCEPT ![t] = IF @ = "recent" /\ ~taken THEN "owner" ELSE After[@]]
          /\ UNCHANGED <<lost, mishaps>>
       \/ /\ Mishap
          /\ stage' = [stage EXCEPT ![t] = After[@]]
          /\ lost' = lost \cup {t}
          /\ UNCHANGED alerts
    /\ hand' = [hand EXCEPT ![t] = Nothing]
    /\ UNCHANGED <<now, score, sent, cluster, opened, full>>

InFlight == {hand[t].key : t \in {u \in Trades : hand[u] # Nothing}}

\* A drain of the alert sender, whose batch holds all that is pending.  When the
\* event's cap is reached, `full` keeps what was sent and what was past the gate.
SenderDrains ==
    LET keys == {r.key : r \in alerts} IN
    /\ sent # keys
    /\ sent' = keys
    /\ full' = IF full = Nothing /\ Cardinality(keys) >= Limit
               THEN [rows |-> alerts, ahead |-> keys \cup InFlight]
               ELSE full
    /\ UNCHANGED <<now, handlers, alerts, cluster, lost, opened, mishaps>>

\* The process dies: its trades are claimed again, the cluster's memory is gone.
HandlersDie ==
    /\ \E t \in Trades : stage[t] \notin Resting
    /\ Mishap
    /\ stage' = [t \in Trades |-> IF stage[t] \in Resting THEN stage[t] ELSE "stored"]
    /\ hand' = [t \in Trades |-> Nothing]
    /\ score' = [t \in Trades |-> IF stage[t] \in Resting THEN score[t] ELSE 0]
    /\ entries' = <<>> /\ lastFire' = -1
    /\ UNCHANGED <<now, table, decisionHistory>>

Observe(t) == BeginTrade(t) \/ Single(t) \/ RecentLine(t) \/ Owner(t) \/ LifetimeLine(t) \/ Insert(t)

DecisionNext == \/ SecondPasses
                \/ \E t \in Trades : Store(t) \/ Observe(t)
                \/ SenderDrains
                \/ HandlersDie

DecisionSpec == DecisionInit /\ [][DecisionNext]_decisionVars

-----------------------------------------------------------------------------
(* Properties *)

\* The rows' keys are unique, and a finding in hand belongs to a running handler.
DecisionTypeOK ==
    /\ now \in 0 .. MaxTime
    /\ stage \in [Trades -> Resting \cup DOMAIN After]
    /\ score \in [Trades -> 0 .. Critical]
    /\ \A t \in Trades : hand[t] # Nothing => stage[t] \notin Resting /\ hand[t].by = t
    /\ \A r, s \in alerts : r.key = s.key => r = s
    /\ sent \subseteq {r.key : r \in alerts}
    /\ lastFire \in -1 .. MaxTime
    /\ lost \cup opened \subseteq Trades /\ mishaps \in Nat

\* A trade that fired and has no row of its own was kept back for a reason that
\* is still to be seen: its wallet is a maker's, or sent rows of the wallet or of
\* the event that the gate counts; otherwise a statement failed.
SilenceHasCause ==
    \A t \in Trades : stage[t] = "done" /\ score[t] # 0 /\ t \notin lost =>
        \/ \E r \in alerts : r.key = SingleKey(t)
        \/ Wallet[t] \in Makers
        \/ score[t] = Info /\ \/ \E r \in alerts : r.key \in sent /\ r.at > At[t] - WalletWindow
                                                   /\ r.wallet = Wallet[t] /\ Notional[t] < Factor * r.usd
                              \/ /\ Cardinality({r \in alerts : r.key \in sent /\ r.at > At[t] - EventWindow}) >= Limit
                                 /\ \E r \in alerts : r.at > At[t] - EventWindow /\ Notional[t] < Factor * r.usd

\* When no handler runs, a wallet's line that stands at warning or above has been
\* told at that tier, although no handler need have read the line when its trades
\* were stored, and each read it on its own: the last to read saw all of it.
LineIsTold ==
    (\A t \in Trades : stage[t] \in {"new", "done"}) =>
        \A t \in Stored :
            LET S == Line(Wallet[t], 0)
                tier == Highest({x \in Tiers : Passes(S, x)}) IN
            S \cap lost = {} /\ Wallet[t] \notin Makers /\ tier >= Warning =>
                \E r \in alerts : /\ r.key[1] = "lifetime" /\ r.wallet = Wallet[t]
                                  /\ r.sev = tier \/ (tier = Critical /\ r.sev = Hard)

\* Once the cap's worth of alerts has reached the operator, an info alert that was
\* not already past the gate is let through only when its trade is larger by the
\* factor than all of them, unless the gate could not read.
OverCapWasInFlight ==
    full # Nothing =>
        \A r \in alerts :
            /\ r.sev = Info /\ r.key \notin full.ahead /\ r.by \notin opened
            /\ \A x \in full.rows : x.at > At[r.by] - EventWindow
            => \A x \in full.rows : Notional[r.by] >= Factor * x.usd
=============================================================================
