--------------------------- MODULE StrategyShadow ---------------------------
(***************************************************************************)
(* The strategies that run in the shadow of an alert.  Behind every new    *)
(* alert row the hook of detect.Loop asks the enabled strategies in a      *)
(* fixed order and the bus records what they say; a row is live only when  *)
(* the promotion gate lets its strategy through.  Three workers follow:    *)
(* one fills the price moves after a row, one turns the moves into reviews *)
(* and the reviews into the gate, one copies the verdict on the alert.     *)
(* All alerts are of one market.  Windows 1 .. 4 are 15m, 1h, 6h and 24h.  *)
(***************************************************************************)
EXTENDS Integers, FiniteSets, Sequences

CONSTANTS
    Alerts, Side,       \* of an alert: the side of its trade, "BUY" or "SELL"
    Winner,             \* the label of the outcome that wins
    Level,              \* of an alert and a strategy: the decision level the strategy gives it
    Enabled,            \* strategies the configuration enables
    ShadowOnly,         \* those it keeps in the shadow
    Facts,              \* of an alert: what holds of its question, its trade and the staged rows
    None,
    Most,               \* ShadowMaxDecisionsPerTrade
    Loose,              \* by time, the price of a trade stored without an outcome token
    Delta,              \* the length of a window
    ValueBatch,
    MinSample, MinMove, MaxReversal, MaxPerDay, Lookback, Day,  \* promotion thresholds
    OutcomeBatch, StandaloneBatch,
    MaxTime,            \* model bound on the clock
    Budgets             \* model bounds: how often a behaviour may do what it names

\* recordStrategyShadow, with the staged readers enabled.
Order == <<"rulesrisk", "catalystwindow", "walletcohort", "conflictresolve", "cheaptail",
           "repricinglag", "thesisaccum", "holderdelta", "bookvacuum">>

Windows == 1 .. 4
SixHours == 3

\* A row, and what is decided about it before it is written.
RowType == [version : Nat, live : BOOLEAN, asked : Nat, at : Nat, clv : [Windows -> Int],
            outcome : {"null", "resolved_correct", "resolved_wrong", "unknown", "unavailable"}]
HandType == [live : BOOLEAN, asked : Nat]

\* New alerts, promotion ticks, judged alerts, new configurations, failures.
Budget == [alerts : Nat, ticks : Nat, verdicts : Nat, versions : Nat, faults : Nat]

ASSUME AlertsAssumption ==
    /\ IsFiniteSet(Alerts) /\ Side \in [Alerts -> {"BUY", "SELL"}]
    /\ Facts \in [Alerts -> SUBSET {"marked", "ambiguous", "wallet", "token", "catalyst", "cohort",
                                    "tail", "lag", "links", "lines", "holders", "vacuum"}]
    /\ \A a \in Alerts : "ambiguous" \in Facts[a] => "marked" \in Facts[a]
    /\ ShadowOnly \subseteq Enabled /\ Enabled \subseteq {Order[i] : i \in 1 .. Len(Order)}
    /\ DOMAIN Level = Alerts \X Enabled
    /\ None \notin RowType /\ None \notin HandType
ASSUME LimitsAssumption ==
    /\ {Most, ValueBatch, MinSample, Lookback, Day, OutcomeBatch, StandaloneBatch} \subseteq Nat \ {0}
    /\ {MaxReversal, MaxPerDay, MaxTime} \subseteq Nat
    /\ DOMAIN Loose \subseteq Nat /\ \A t \in DOMAIN Loose : Loose[t] \in Nat \ {0}
    /\ MinMove \in Int /\ Delta \in [Windows -> Nat]
    /\ Budgets \subseteq Budget

VARIABLES
    now, version,       \* the clock and the configured StrategyVersion
    stage, hand,        \* of an alert's hook: its place in Order, the row it is about to write
    count, blocked,     \* rows written for it; alerts whose hook holds a high ambiguity
    rows,               \* polymarket_strategy_shadow_decisions
    gate, promo,        \* Worker.state and its tick: the strategies it lets through
    reviews, ticks,     \* polymarket_strategy_promotion_reviews
    verdict, winner,    \* of an alert: outcome_status; whether it names the winner by its
                        \* token ("token"), by token and label ("labelled") or not at all
    job,                \* the outcome worker's tick
    slipped,            \* history: rows only its second list had, or whose first copy failed
    left                \* what is left of the budget

hook      == <<stage, hand, count, blocked>>
promotion == <<gate, promo, reviews, ticks>>
outcomes  == <<verdict, winner, job, slipped>>
vars      == <<now, version, hook, rows, promotion, outcomes, left>>

\* The place of the next enabled strategy after i, past the end when there is none.
After(i) ==
    LET rest == {j \in i + 1 .. Len(Order) : Order[j] \in Enabled} IN
    IF rest = {} THEN Len(Order) + 1 ELSE CHOOSE j \in rest : \A k \in rest : j <= k

Ids == Alerts \X Enabled
Kept == {r \in Ids : rows[r] # None}

Closed == [open |-> {}, tick |-> 0]
Resting == [phase |-> "rest", todo |-> {}, new |-> {}]
Idle == [phase |-> "rest", linked |-> {}, resolved |-> {}]

Init ==
    /\ now = 0 /\ version = 0
    /\ stage = [a \in Alerts |-> 0]
    /\ hand = [a \in Alerts |-> None]
    /\ count = [a \in Alerts |-> 0]
    /\ blocked = {}
    /\ rows = [r \in Ids |-> None]
    /\ gate = Closed /\ promo = Resting
    /\ reviews = {} /\ ticks = 0
    /\ verdict = [a \in Alerts |-> "pending"]
    /\ winner = [a \in Alerts |-> "none"]
    /\ job = Idle /\ slipped = {}
    /\ left \in Budgets

Spend(what) == left[what] > 0 /\ left' = [left EXCEPT ![what] = @ - 1]
Fault == Spend("faults")

-----------------------------------------------------------------------------
(* The hook and the bus *)

Tick ==
    /\ now < MaxTime
    /\ now' = now + 1
    /\ UNCHANGED <<version, hook, rows, promotion, outcomes, left>>

\* TryCreatePending won: the hook runs once for the row.
Fire(a) ==
    /\ stage[a] = 0 /\ Spend("alerts")
    /\ stage' = [stage EXCEPT ![a] = After(0)]
    /\ UNCHANGED <<now, version, hand, count, blocked, rows, promotion, outcomes>>

Running(a) == stage[a] \in 1 .. Len(Order)

\* The score the hook carries on reaches the cutoff.
Blocks(a) == a \in blocked

Has(a, facts) == facts \subseteq Facts[a]

\* What each detector asks of the alert, its staged rows being readable.
RulesRisk(a)      == Has(a, {"marked"})
CatalystWindow(a) == Has(a, {"catalyst"})
WalletCohort(a)   == Has(a, {"wallet", "cohort"})
\* Rows of both sides on the market, whichever strategy wrote them.
ConflictResolve   == {Side[r[1]] : r \in Kept} = {"BUY", "SELL"}
CheapTail(a)      == Has(a, {"tail"}) /\ ~Blocks(a)
RepricingLag(a)   == Has(a, {"lag"}) /\ ~Blocks(a)
ThesisAccum(a)    == Has(a, {"links", "wallet", "lines"})
HolderDelta(a)    == Has(a, {"wallet", "token", "holders"})
BookVacuum(a)     == Has(a, {"token", "vacuum"})

Asks(a, s) ==
    /\ count[a] < Most
    /\ [rulesrisk |-> RulesRisk(a), catalystwindow |-> CatalystWindow(a), walletcohort |-> WalletCohort(a),
        conflictresolve |-> ConflictResolve, cheaptail |-> CheapTail(a), repricinglag |-> RepricingLag(a),
        thesisaccum |-> ThesisAccum(a), holderdelta |-> HolderDelta(a), bookvacuum |-> BookVacuum(a)][s]

\* Bus.Record up to the insert: the gate is asked now, the row written later.
Decide(a) ==
    /\ Running(a) /\ hand[a] = None
    /\ LET s == Order[stage[a]] IN
       \/ /\ Asks(a, s)
          /\ hand' = [hand EXCEPT ![a] =
                         [live |-> s \notin ShadowOnly /\ s \in gate.open, asked |-> gate.tick]]
          /\ blocked' = IF s = "rulesrisk" /\ Has(a, {"ambiguous"}) THEN blocked \cup {a} ELSE blocked
          /\ UNCHANGED <<stage, left>>
       \/ /\ ~Asks(a, s)
          /\ stage' = [stage EXCEPT ![a] = After(@)]
          /\ UNCHANGED <<hand, blocked, left>>
       \/ /\ Asks(a, s) /\ s # "rulesrisk"
          /\ Fault
          /\ stage' = [stage EXCEPT ![a] = After(@)]
          /\ UNCHANGED <<hand, blocked>>
    /\ UNCHANGED <<now, version, count, rows, promotion, outcomes>>

\* writeShadow: a failed insert counts as no row, the hook goes on.
Write(a) ==
    /\ hand[a] # None
    /\ \/ /\ rows' = [rows EXCEPT ![<<a, Order[stage[a]]>>] =
                         [version |-> version, live |-> hand[a].live, asked |-> hand[a].asked, at |-> now,
                          clv |-> [w \in Windows |-> 0], outcome |-> "null"]]
          /\ count' = [count EXCEPT ![a] = @ + 1]
          /\ UNCHANGED left
       \/ /\ Fault
          /\ UNCHANGED <<rows, count>>
    /\ stage' = [stage EXCEPT ![a] = After(@)]
    /\ hand' = [hand EXCEPT ![a] = None]
    /\ UNCHANGED <<now, version, blocked, promotion, outcomes>>

-----------------------------------------------------------------------------
(* strategyvalue.Worker *)

\* ListPendingValueRows: ORDER BY fired_at LIMIT n, the row at the front of the batch.
InBatch(r) ==
    LET pending == {x \in Kept : 0 \in {rows[x].clv[w] : w \in Windows}} IN
    /\ r \in pending
    /\ Cardinality({x \in pending : rows[x].at < rows[r].at}) < ValueBatch

\* The first trade at or after t; 0 when there is none.
PriceFrom(t) ==
    LET later == {x \in DOMAIN Loose : t <= x /\ x <= now} IN
    IF later = {} THEN 0 ELSE Loose[CHOOSE x \in later : \A y \in later : x <= y]

\* handleOne: the list carries neither the token nor the price of the row, so the
\* trades are those without a token and the move is taken from 0.  0 is NULL.
Value(r) ==
    /\ InBatch(r)
    /\ LET end(w) == rows[r].at + Delta[w]
           move(w) == IF now < end(w) THEN 0
                      ELSE IF Side[r[1]] = "SELL" THEN -PriceFrom(end(w)) ELSE PriceFrom(end(w))
           clv == [w \in Windows |-> IF rows[r].clv[w] = 0 THEN move(w) ELSE rows[r].clv[w]] IN
       /\ clv # rows[r].clv
       /\ rows' = [rows EXCEPT ![r].clv = clv]
    /\ UNCHANGED <<now, version, hook, promotion, outcomes, left>>

-----------------------------------------------------------------------------
(* strategypromotion.Worker *)

\* PERCENTILE_CONT(0.5) of the 6h moves, twice.
MedianTwice(S) ==
    LET move(r) == rows[r].clv[SixHours]
        n == Cardinality(S)
        rank(k) == move(CHOOSE r \in S : /\ Cardinality({x \in S : move(x) < move(r)}) < k
                                         /\ k <= Cardinality({x \in S : move(x) <= move(r)})) IN
    rank((n + 1) \div 2) + rank(n \div 2 + 1)

Reversed(r) == rows[r].clv[1] > 0 /\ rows[r].clv[2] < 0

\* Days since the oldest row of S, at least one.
Days(S) ==
    LET age == now - rows[CHOOSE r \in S : \A x \in S : rows[r].at <= rows[x].at].at IN
    IF age < Day THEN 1 ELSE age \div Day

\* AggregatePromotionSamples, one group: rows of the lookback that have a 6h move.
Sample(s, v) ==
    {r \in Kept : /\ r[2] = s /\ rows[r].version = v
                  /\ rows[r].at >= now - Lookback /\ rows[r].clv[SixHours] # 0}

\* evaluate; a bucket is judged by the same criteria.
Passes(S) ==
    /\ Cardinality(S) >= MinSample
    /\ MedianTwice(S) >= 2 * MinMove
    /\ MaxReversal > 0 => 100 * Cardinality({r \in S : Reversed(r)}) <= MaxReversal * Cardinality(S)
    /\ MaxPerDay > 0 => Cardinality(S) <= MaxPerDay * Days(S)

\* The names and versions that have a sample.
Groups == {g \in Enabled \X (0 .. version) : Sample(g[1], g[2]) # {}}

\* Tick: the aggregates per name and version.
ListSamples ==
    /\ promo.phase = "rest" /\ Spend("ticks")
    /\ promo' = [phase |-> "buckets", new |-> {},
                 todo |-> {[name |-> g[1], version |-> g[2], ok |-> Passes(Sample(g[1], g[2]))] : g \in Groups}]
    /\ UNCHANGED <<now, version, hook, rows, gate, reviews, ticks, outcomes>>

\* The buckets of a sample: one per decision level, and `linked`, which is all of
\* it, every row being linked to an alert.
Buckets(S) == {S} \cup {{r \in S : Level[r] = Level[x]} : x \in S}

\* The buckets are read later, in one read here: what has no bucket that passes is
\* vetoed.  A read that fails, or finds no bucket of any strategy, is no veto.
ListBuckets ==
    /\ promo.phase = "buckets"
    /\ \/ /\ promo' = [promo EXCEPT !.phase = "write",
                          !.todo = {[e EXCEPT !.ok = /\ @
                                                     /\ \/ Groups = {}
                                                        \/ \E S \in Buckets(Sample(e.name, e.version)) : Passes(S)] :
                                       e \in @}]
          /\ UNCHANGED left
       \/ /\ Fault
          /\ promo' = [promo EXCEPT !.phase = "write"]
    /\ UNCHANGED <<now, version, hook, rows, gate, reviews, ticks, outcomes>>

\* Mutant: the new state is filled whether or not the review could be written.
NotedAnyway(e, written) == IF e.ok THEN promo.new \cup {e.name} ELSE promo.new \ {e.name}

\* newState, by name: the version listed last decides.
Noted(e, written) ==
    IF ~written THEN promo.new
    ELSE IF e.ok THEN promo.new \cup {e.name} ELSE promo.new \ {e.name}

Review(e) ==
    /\ promo.phase = "write" /\ e \in promo.todo
    /\ \/ /\ reviews' = reviews \cup {[name |-> e.name, version |-> e.version, eligible |-> e.ok, tick |-> ticks + 1]}
          /\ promo' = [promo EXCEPT !.todo = @ \ {e}, !.new = Noted(e, TRUE)]
          /\ UNCHANGED left
       \/ /\ Fault
          /\ promo' = [promo EXCEPT !.todo = @ \ {e}, !.new = Noted(e, FALSE)]
          /\ UNCHANGED reviews
    /\ UNCHANGED <<now, version, hook, rows, gate, ticks, outcomes>>

Swap ==
    /\ promo.phase = "write" /\ promo.todo = {}
    /\ gate' = [open |-> promo.new, tick |-> ticks + 1]
    /\ ticks' = ticks + 1
    /\ promo' = Resting
    /\ UNCHANGED <<now, version, hook, rows, reviews, outcomes, left>>

-----------------------------------------------------------------------------
(* strategyoutcome.Worker *)

\* outcomes.Worker judges a sent alert of the closed market once.  Without a market
\* it is `unavailable`; without a winning price `unknown`.  The winner is named before
\* the payload is read, as far as Gamma's two lists go, so an `unknown` of an
\* unreadable payload or an empty label has one beside it.
Judge(a) ==
    /\ stage[a] # 0 /\ verdict[a] = "pending" /\ Spend("verdicts")
    /\ \E v \in {"resolved_correct", "resolved_wrong", "unknown", "unavailable"}, w \in {"none", "token", "labelled"} :
          /\ v = "unavailable" => w = "none"
          /\ w = "token" => v = "unknown"     \* a verdict needs the label
          /\ verdict' = [verdict EXCEPT ![a] = v]
          /\ winner' = [winner EXCEPT ![a] = w]
    /\ UNCHANGED <<now, version, hook, rows, promotion, job, slipped>>

\* Mutant: only alerts with a winner.
LinkedToWinner == {r \in Kept : rows[r].outcome = "null" /\ winner[r[1]] # "none"}

\* ListShadowRowsForOutcomeBackfill
Linked == {r \in Kept : rows[r].outcome = "null" /\ verdict[r[1]] # "pending"}

\* ListStandaloneResolvedAlertOutcomes
Resolved == {r \in Kept : rows[r].outcome = "null" /\ winner[r[1]] # "none"}

\* LIMIT n without an order.
Some(n, S) == {T \in SUBSET S : IF Cardinality(S) <= n THEN T = S ELSE Cardinality(T) = n}

\* The list of rows whose alert is judged ...
ListLinked ==
    /\ job.phase = "rest" /\ Linked # {}
    /\ \E L \in Some(OutcomeBatch, Linked) : job' = [job EXCEPT !.phase = "resolved", !.linked = L]
    /\ UNCHANGED <<now, version, hook, rows, promotion, verdict, winner, slipped, left>>

\* ... and, a statement later, of those whose alert has the winner's token, less
\* those without its label, which still count against the limit.
ListResolved ==
    /\ job.phase = "resolved"
    /\ \/ /\ \E L \in Some(StandaloneBatch, Resolved) : \E R \in {{r \in L : winner[r[1]] = "labelled"}} :
                /\ job' = [job EXCEPT !.phase = "write", !.resolved = R]
                /\ slipped' = slipped \cup (R \ job.linked)
          /\ UNCHANGED left
       \/ /\ Fault
          /\ job' = [job EXCEPT !.phase = "write"]
          /\ UNCHANGED slipped
    /\ UNCHANGED <<now, version, hook, rows, promotion, verdict, winner>>

\* The row's side is that of a trade, the winner a label such as "Yes".
SideSays(a) == IF Winner = Side[a] THEN "resolved_correct" ELSE "resolved_wrong"

\* Mutant: the second list is written first.
SecondListed(r) == r \in job.linked /\ job.resolved = {}

\* The rows of the first list go first.
FirstListed(r) == r \in job.linked

\* UpdateShadowOutcomeStatus, WHERE outcome_status IS NULL.
Copy(r) ==
    /\ job.phase = "write"
    /\ \/ /\ FirstListed(r)
          /\ job' = [job EXCEPT !.linked = @ \ {r}]
       \/ /\ \A x \in job.linked : ~FirstListed(x)
          /\ r \in job.resolved
          /\ job' = [job EXCEPT !.resolved = @ \ {r}]
    /\ LET says == IF FirstListed(r) THEN verdict[r[1]] ELSE SideSays(r[1]) IN
       \/ /\ rows' = IF rows[r].outcome = "null" THEN [rows EXCEPT ![r].outcome = says] ELSE rows
          /\ UNCHANGED <<slipped, left>>
       \/ /\ Fault
          /\ slipped' = IF FirstListed(r) THEN slipped \cup {r} ELSE slipped
          /\ UNCHANGED rows
    /\ UNCHANGED <<now, version, hook, promotion, verdict, winner>>

EndCopies ==
    /\ job.phase = "write" /\ job.linked = {} /\ job.resolved = {}
    /\ job' = Idle
    /\ UNCHANGED <<now, version, hook, rows, promotion, verdict, winner, slipped, left>>

-----------------------------------------------------------------------------
\* The process ends, in a crash or to start with another version: hooks are not
\* run again (their alert rows are no longer new), the gate is closed until the
\* first tick.
Restart ==
    /\ \/ Fault /\ UNCHANGED version
       \/ Spend("versions") /\ version' = version + 1
    /\ stage' = [a \in Alerts |-> IF Running(a) THEN Len(Order) + 1 ELSE stage[a]]
    /\ hand' = [a \in Alerts |-> None]
    /\ gate' = Closed /\ promo' = Resting /\ job' = Idle
    /\ UNCHANGED <<now, count, blocked, rows, reviews, ticks, verdict, winner, slipped>>

Hook(a) == Decide(a) \/ Write(a)
Promote == ListSamples \/ ListBuckets \/ (\E e \in promo.todo : Review(e)) \/ Swap
Backfill == ListLinked \/ ListResolved \/ (\E r \in Ids : Copy(r)) \/ EndCopies

Next == \/ Tick
        \/ \E a \in Alerts : Fire(a) \/ Hook(a) \/ Judge(a)
        \/ \E r \in Ids : Value(r)
        \/ Promote
        \/ Backfill
        \/ Restart

Spec == Init /\ [][Next]_vars

\* The outcome worker's ticker keeps it going.
Fairness == WF_vars(Backfill)
FairSpec == Spec /\ Fairness

-----------------------------------------------------------------------------
(* Properties *)

TypeOK ==
    /\ now \in Nat /\ version \in Nat /\ ticks \in Nat
    /\ left \in Budget
    /\ stage \in [Alerts -> Nat] /\ count \in [Alerts -> Nat] /\ blocked \subseteq Alerts
    /\ hand \in [Alerts -> HandType \cup {None}]
    /\ rows \in [Ids -> RowType \cup {None}]
    /\ gate \in [open : SUBSET Enabled, tick : Nat]
    /\ promo \in [phase : {"rest", "buckets", "write"}, new : SUBSET Enabled,
                  todo : SUBSET [name : Enabled, version : Nat, ok : BOOLEAN]]
    /\ reviews \subseteq [name : Enabled, version : Nat, eligible : BOOLEAN, tick : Nat]
    /\ verdict \in [Alerts -> {"pending", "resolved_correct", "resolved_wrong", "unknown", "unavailable"}]
    /\ winner \in [Alerts -> {"none", "token", "labelled"}]
    /\ job \in [phase : {"rest", "resolved", "write"}, linked : SUBSET Ids, resolved : SUBSET Ids]
    /\ slipped \subseteq Ids

\* A live row stands on a review: the last tick that had ended, in the same life
\* of the process, when the bus asked for it wrote an eligible review of its
\* strategy, however failed reads and writes, restarts and the gap between the
\* question and the insert fall.  (Of the strategy, not of the row's version.)
LiveRowHasReview ==
    \A r \in Kept : rows[r].live =>
        \E v \in reviews : v.name = r[2] /\ v.eligible /\ v.tick = rows[r].asked

\* Every row of a judged alert gets an outcome in the end, in batches without an
\* order, past failed statements and restarts.
RowsGetOutcome ==
    <>[](\A r \in Kept : verdict[r[1]] # "pending" => rows[r].outcome # "null")

\* A row has its alert's outcome whenever the first list had it and could write it.
\* The others are matched by the side of a trade against the winning label beside the
\* alert: that makes them wrong whatever the alert's outcome is, `unknown` included,
\* unless the label itself reads BUY or SELL.
MismatchHasCause ==
    \A r \in Kept : rows[r].outcome \notin {"null", verdict[r[1]]} =>
        /\ winner[r[1]] = "labelled"
        /\ rows[r].outcome = SideSays(r[1])
        /\ r \in slipped
=============================================================================
