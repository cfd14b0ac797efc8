# Specifications of the watchtower

TLA+ models of the polymarket watchtower: one Go process that pulls trades from
Polymarket, scores them, writes alerts to Postgres, delivers them to Telegram
and follows them up. Postgres is the source of truth. Almost everything is a
ticker loop that reads rows, does something slow outside the database, and
writes rows back; what is hard lies between those steps, where another
goroutine, another process, a restart, a lost answer or a timeout gets in.

Paths below are relative to `src/`; `usecase/` is `internal/app/usecase/` and
`infra/` is `internal/infra/`. Every `map` entry of `PROJECT.json` names the
lines a definition stands for.

1. [The system](#1-the-system)
2. [Plan](#2-plan)
3. [The modules](#3-the-modules)
4. [Runs and what they show](#4-runs-and-what-they-show)
5. [Fairness](#5-fairness)
6. [What is proved](#6-what-is-proved)
7. [Where the code and its documentation differ](#7-where-the-code-and-its-documentation-differ)
8. [What is not modelled](#8-what-is-not-modelled)

To run: `tlc -config sender.cfg MCAlertSender`, and so on for each `.cfg` (the
pairs are in `PROJECT.json`); `tlapm AlertSenderProofs.tla` for the proofs.

## 1. The system

### How data flows

```
Gamma API --> discover --> polymarket_markets <-- sanity, backfill status
                 |  (market cache, in memory)
Data API  --> collect (tail) --+--> persist.Sink --> polymarket_trades
          --> backfill (history)+                        |
                                                detection workers
                                                         |  detect.Loop.Observe
                                                polymarket_alerts (UNIQUE dedup_key)
                                                         |
                                                alert sender --> router --> guard --> Telegram
                                                         |
                       outcomes, reactions, drift, postmortems, close reviews
CLOB websocket --> realtime --> polymarket_ws_events, live state, work queue
event pages, news --> importer, newsintel, strategies --> prompts, shadow ledger
```

`internal/app/app.go` builds every part and hands each `Run` to
`shutdown.Graceful`, one goroutine each. `deploy/docker-compose.yml` runs one
container with `restart: unless-stopped`, but the two queues are written for
more (their claims skip locked rows so that concurrent workers see disjoint
batches), and a rolling restart overlaps two processes. The models of what lives
in the database therefore have several processes; those of what lives in one
process's memory have one, which may restart.

### Components

Each entry: the state kept, the operations, what is hard, what makes it right.

**Alert sender** (`usecase/alertsender`, queries in `db/queries/alerts.sql`).
Rows `pending -> sending -> sent | failed`, with `send_attempts`,
`next_retry_at`, `updated_at`. A drain resets stale `sending` rows, starts
`Concurrency` goroutines and waits; each claims one batch (`FOR UPDATE SKIP
LOCKED`), sends row by row, marks. Hard: Telegram's answer may be lost after
acceptance; a batch may outlive `StaleSendingAfter`; marks may fail; the retry
is computed from the row as it was at claim time. Right when batches are
disjoint, every duplicate has an unavoidable cause, closed rows say what
happened, the retry budget holds, and every alert closes. *Modelled.*

**Detection queue** (`usecase/detection`, `db/queries/trades.sql`,
`usecase/detect/detect.go` 595-1092 for what Observe does to rows). Rows
`pending -> analyzed | skipped | failed`, a lease `detection_claimed_at`. A tick
frees expired leases, starts goroutines and waits; a goroutine claims until a
claim is empty. Hard: leases that run out under their holder, a stamp that asks
for nothing but the id, the alert row and the verdict in two statements, a cache
that is empty after a restart, two readings of the clock against one threshold.
Right when second looks are explained, no alert is lost between insert and
stamp, verdicts are final, and every trade gets one. *Modelled.*

**Market lifecycle** (`usecase/discover`, `marketcache`, `sanity`, `backfill`,
`db/queries/markets.sql`). Columns `active`, `deleted_at`, `purged_at`,
`backfill_status`; the in-memory cache. Discover replaces the cache, upserts
what it saw and marks the rest inactive; sanity re-queues or purges rows that
were soft-deleted long enough; backfill moves `pending -> running -> completed |
partial | failed`. Hard: three loops over one row with unguarded statements; the
cache ahead of the table; a listing that changes under all of them; `running`
rows whose worker died. Right when no row is left where no loop looks for it,
nothing still listed is purged, one walk per market, final statuses stay.
*Modelled.*

**Trade ingestion** (`usecase/collect`, `persist`, backfill's pages,
`infra/polymarket/dataapi`, `trade_repository.go`). The listing of a market,
newest first, read by offset; rows with a unique key; the cursor
`last_collect_traded_at` moved by its own statement. Hard: pages are separate
requests of a growing list, failures between rows and cursor, the offset cap,
whole-second timestamps. Right when nothing behind the cursor is missing, walks
have no gaps, keys are unique, and trades land. *Modelled.*

**Process runtime** (`infra/shutdown`, `App.Run`, `app.New`). Loops, their
errors, the fade-out, the pool; before that the blocks of `New`, which build
parts and hand them to each other under some fifty switches. Right when the pool
outlives its users, no error is lost, a signal ends the process, and no part
lacks what it calls. *Modelled:* `Runtime`, `StartUp`.

**Realtime** (`infra/polymarket/ws`, `usecase/realtime`, `workerbudget`,
`db/queries/websocket_realtime.sql`). The connection with its goroutines and
channel; the live row per market, the work queue, cooldowns; the choice of the
markets to watch. Hard: a dead peer, a closed channel; the trigger compares with
the row the same handler overwrites next, the cooldown is stamped even if the
enqueue failed, memory and table disagree after a restart; the LIMIT is applied
before it is known which markets can be subscribed to. Right when there is one
connection, a jump reaches the queue, moves are spaced, and nobody watched is
gone. *Modelled:* `Runtime`, `RealtimeTriggers`, `MarketSelection`.

**Scoring and decision** (`usecase/detect`, `analytics/*`, `concentration`).
Cluster windows, lines, ownership shares, baselines in SQL or in memory; the
concentration gate over alerts already sent; one row per key. Hard: handlers of
other trades between a read and the insert, the gate counting what the sender
has not sent yet, first-seen stamps moved by the trade itself. Right when a
handler stays silent for a cause only, a line at warning is told, the cap is
passed by what was in flight only, and an alert says of its wallet what the
table says. *Modelled:* `AlertDecision`, `AlertContext`; the ladders' weights are
small numbers.

**Alert enrichment and Telegram** (`usecase/aianalysis`, `eventpagecontext`,
`infra/polymarket/eventpage`, `infra/telegram`). The versions of an alert's
analyst note and the attribution row, the pages of events with their build id
and aliases, the route of a surface to a chat and the guard below it. Hard: the
send runs anew on every retry, pays before it stores, and reads the note it
prints in a statement of its own; a deploy or a rename between two requests of
one refresh. Right when a second paid answer has a cause, the stored verdict is
that of the note in the message, a summary does not pretend to be younger than
its rows, and reports stay with the admins. *Modelled:* `AlertAnalysis`,
`EventPages`, `TelegramRoute`.

**After the send** (`usecase/outcomes`, `drift`, `outcomeai`,
`marketclosereview`). Columns `outcome_status`, `reaction_status`,
`drift_status` and `clv_*`, one postmortem row per alert. Hard: four loops and
two processes on one row and one Telegram message, lists ordered so that some
rows starve, a crash between the insert of the postmortem and its delivery,
windows that are never stamped. Right when verdicts are true and stay, the emoji
is the verdict's, numbers are backed, and nothing is owed in the end.
*Modelled:* `AlertFollowUp`, `PriceDrift`.

**AI spend and surfaces** (`infra/aibudget`, `ai/openai`, `usecase/newsintel`,
`marketclosereview`, `eventcatalyst/importer`). Counters per bucket and day, a
ledger per client, review rows, news items, catalysts. Hard: Allow and Charge
apart, parallel callers, midnight, errors that cost money, a message sent before
its mark. Right when the bill is bounded, no review is bought twice and no
catalyst blocks an alert it should not. *Modelled:* `AISurfaces`,
`CatalystWindows`.

**Strategy bus and promotion** (`usecase/strategybus`, `strategypromotion`,
`analytics/shadowdecisions`, `strategyvalue`, `strategyoutcome`). Shadow rows,
values, outcomes, promotion reviews, the gate in memory. Right when nothing
leaves the shadow without an eligible review, every row gets an outcome, and a
wrong one has a cause. *Modelled:* `StrategyShadow`.

**Strategy inputs** (`holdersync`, `riskscore`, `repricing`, `walletgraph`,
`marketlinks`, `bookbars`, `thesislines`, `conflictresolve`, `stagedinputs`).
Producers write tables, the hook reads them through a cache. Hard: failed writes
halfway, rows nobody removes, answers as old as the cache allows, versions. Right
when what a strategy fires on was really traded, shared, scored or announced.
*Modelled:* nine modules under `StrategyInputs`.

**Plumbing** (`httpx`, `ratelimit`, `workerguard`, `sqlc`, `metrics`,
`cmd/cli`). *Not modelled; see section 8.*

`PROJECT.json` lists the hazards of this code with their lines and the properties
that watch each.

## 2. Plan

| order | modules | composed by | status |
|---|---|---|---|
| 1 | `AlertSender`, implements `WorkQueue` | rows that `AlertDecision` inserts | checked, proved |
| 2 | `DetectionQueue` | rows that `TradeIngest` stores, the cache of `MarketLifecycle`; `MCRuntime` | checked, proved |
| 3 | `MarketLifecycle` | | checked, proved |
| 4 | `TradeIngest` | the row of `MarketLifecycle` | checked, proved |
| 5 | `StartUp`, extends `Runtime` | all loops, the realtime stream; `MCRuntime` | checked, proved |
| 6 | `PriceDrift`, extends `AlertFollowUp` | rows that `AlertSender` leaves `sent` | checked, proved |
| 7 | `AISurfaces` | `MCAlertEnrichment` | checked, proved |
| 8 | `RealtimeTriggers` | the stream of `Runtime`; `MCRuntime` | checked, proved |
| 9 | `StrategyShadow` | what the inputs say of an alert | checked, proved |
| 10 | `AlertDecision` | the decision `DetectionQueue` leaves open | checked, proved |
| 11 | `WalletGraph`, `ThesisLines`, `RiskScores`, `RepricingWindows`, `HolderSnapshots`, `BookBars`, `SignalConflicts`, `CatalystWindows`, `AlertContext`, `MarketSelection`, all over `StagedInputs` | `StrategyInputs` | checked, proved |
| 12 | `EventPages`, `TelegramRoute`, `AlertAnalysis` | `MCAlertEnrichment` | checked, proved |

*Left.* Every invariant a run checks is proved. Modules not written: the news
items' gating (`newsgating`) beyond what `AISurfaces` has of it, and the request
loop of `httpx` with its rate limiter.

## 3. The modules

Time is relative where rows age: a row carries its age, or the time left, up to
one past the only threshold the code compares, so that time is unbounded and
the state space is not (`TradeIngest`, whose timestamps are data, has a clock up
to `MaxTime`). Variables marked *history* in a module record what happened for
the properties to name; they do not decide what the code does next. The only
guards that are not the code's are the named bounds.

### AlertSender (and WorkQueue)

| state | code |
|---|---|
| `status`, `attempts`, `retry`, `age` | `status`, `send_attempts`, `next_retry_at - now`, `now - updated_at` of an alert row |
| `mode[p]` | whether `drain` runs; `stopping`: ctx cancelled |
| `pc`, `batch`, `snap`, `cur` of a goroutine | where `claimAndSend`/`send` is, the claimed rows and `send_attempts` as claimed, the row in hand |
| `delivered`, `muted` | what Telegram accepted; what router or guard swallowed |

`Create` is `TryCreatePendingAlert`. `Drain` is the reset and the start of the
goroutines, `EndDrain` the `Wait`; `Claim`, `Leave` and `ClaimFails` are the
three ends of the claim. `Begin` takes the next row; an unreadable payload goes
straight to its permanent failure. `Accept`, `Acknowledge`, `Suppress`,
`Refuse`, `Abandon` are Telegram's acceptance, the answer's arrival, a dropped
message, an error answer, and a cancelled or timed-out request, with or without
acceptance. `MarkSent`, `MarkFailed`, `MarkLost` are the statements with their
`status = 'sending'` guard, and their failure. `Stop` cancels, `Crash` kills
between any two steps, `Start` is the supervisor. The backoff is the set
`Delays(n)` of what initial delay, doubling, cap and jitter allow.

`WorkQueue` is the abstract table: absent, ready, out, closed. `ImplementsQueue`
maps a row to its stage; `failed` with a retry time is ready, without it closed.

### DetectionQueue

| state | code |
|---|---|
| `verdict`, `lease`, `old` | `detection_status` with its reason, age of `detection_claimed_at`, `now - traded_at` |
| `stored[k]` | alert rows with that `dedup_key` |
| `cache[p]`, `known`, `listed` | the market cache; markets persisted; markets of the last sweep |
| `late[g]` | rows older than `StaleThreshold` by the worker's reading of the clock at claim time |
| `looks`, `gated`, `wanted`, `lostStamps`, `unstored`, `overrun` | history |

`StartTick` frees expired leases and starts the goroutines; `Claim` takes the newest
claimable rows; `Take` looks the market up and decides on the way; `Observe`
is `detect.Loop.Observe` up to the alert (the decision is open: any trade may
raise one or not, and the trades in `Poison` may panic); `Insert` is
`TryCreatePending` with its unique key; `Stamp` is the verdict; `StampLost` its
failure. `Sweep` is discover as seen from here.

### MarketLifecycle

`Discover(p)` = `Sweep` (fetch, replace the cache), `Upsert` per market,
`MarkInactive`, or `PersistFails`. `Sanity(p)` = `ListRipe`, `Ask` (the cache's
answer), `Resume` or `Purge`, or `SanityFails`. `Backfill(p)` = `BackfillTick`
(re-queue stale rows), `ListJobs`, `Begin`, `Finish` in any of the three
verdicts, `Abandon`, `EndTick`. `world` is the upstream listing, which `Change`
alters at will; a market is `shown` when it has no whitelisted category.
`Ask` and the statement after it are two steps, as in the code.

### TradeIngest

One market. `Pull(p)` = `StartPull` (cursor or `BootstrapLookback`), `FetchPage`
until a short page, an older trade or the offset cap, `Persist` (or
`NotPersisted` when the market's row is not there), `PersistFails` with any
prefix, `AdvanceCursor`, `PullFails`. `Walk(p)` = `BeginWalk`, `WalkPage` (fetch,
store, go on), `WalkFails`. `Publish` puts a trade in the listing, in its place
by timestamp, late ones included; `Close` ends trading. `DedupKey` is
`DedupKeyForTrade`: upstream id, or market, second and fill. `skipped` collects
the ways a trade can fall behind the cursor that the code accepts: it was listed
late, or beyond the cap, or the pull began above it. `CursorCovers` then says
that there is no other way. `WalkKeeps` rests on a listing that only grows.

### StartUp and Runtime

`StartUp` is `app.New`: `Load` is `LoadConfig` with its checks across settings,
then one step per block of `New` (`Build`), which sets up the block's parts when
their switches are on and records in `wired` who was given whom; `StoreFails` and
`Refused` are the ways it returns an error; `Launch` hands over to `App.Run`. The
configurations are a constant. Only the one with every switch on is followed
beyond the start, since a loop that is switched off is simply no member of
`Loops`; the store, which every part of a run with Postgres has, is left out of
`wired`.

In `Runtime`, `Graceful` = `Wait`, `Collect`, `Return`, then `ClosePool`;
`FadeOut` is its timer. A loop may stop once ctx is cancelled, or fail at any
time. The realtime worker runs `Select`, starts client, consumer and refresher,
and unwinds in the order of its calls: client, close of the channel, consumer.
The client is `Dial`, `Read`, `ReadFails`, `Unwind`, `Retry`, `Quit`; the writer
leaves only on ctx or a failed write. The refresher is not waited for by anyone,
and the pool's `Close` waits for its query.

`MCRuntime` has the process with two of the workers it runs, `DetectionQueue` and
`RealtimeTriggers`. `Runtime` says when a loop runs, they what it does; they share
no state, so a behaviour follows one of the three (`part`).

### AlertFollowUp and PriceDrift

| state | code |
|---|---|
| `outcome`, `turn`, `reaction`, `post` | `outcome_status`, the rank by `outcome_checked_at`, `reaction_status`, the postmortem row |
| `fate`, `due` | what Gamma says of a market; what the table says of its end |
| `shown`, `told` | the bot's emoji on the message; notices of the resolution |
| `todo`, `seen`, `view`, `job`, `basis` | what a tick listed, and what of it is as old as the list |

`ListChecks`, `Judge`, `Record` are the verdict pass (ask Gamma, then write),
`ListReactions`, `React`, `RecordReaction` the emoji pass; `ListPosts`, `Advance`
(`Persist`, `Tell`, `MarkSwapped`, `Mark`) the postmortem worker; `ReviewReacts`
the close review's reactions. `Fault` is a failed statement or a lost answer of
Telegram, which may or may not have been carried out. `PriceDrift` is a worker of
its own over the same alerts: `List`, `Take`, `Look` (a window at a time, each on
its own clock reading), `Stamp`. It shares no column that changes with the
others, and `side` picks per behaviour which of the two runs.

### AlertDecision and AlertContext

A handler's `stage` goes through the five surfaces in the code's order: `Watch`,
`Single`, `RecentLine`, `Owner`, `LifetimeLine`; each composes a finding, asks
the concentration gate (`Suppressed`, over `sent` rows) and leaves it in `hand`,
which `Insert` turns into a row unless its key is there. `BeginTrade` scores the trade
and updates the cluster memory; `Unread` is a failed read, after which the
surface is passed over. `SenderDrains` is the sender, `HandlersDie` the end of the
process, `mishaps` the budget of both and of failed statements. `InFlight` names the findings that
passed the gate and are not sent yet.

`AlertContext` is what an alert says beside its size: the market-maker filter,
the quiet market, the wallet boosters, the ownership fusion, all read after the
trade was stored; each chain of lookups may fail on its own. The lookups of one
alert are one step, the baselines one before. The `ring` lane is the in-memory
reservoir used without a database.

### AlertAnalysis, EventPages, TelegramRoute

`AlertAnalysis` refines one attempt of `AlertSender` down to its statements:
`Pick` (what `WorkQueue` promises of claim and batch), `ReadLatest`,
`TakeToken`/`AskModel`, `Answer` with its charge, `LatestVersion`, `Insert`,
`LatestText`, `WriteAttribution`, `Deliver`. `past` counts what happened to an
alert, `purse` bounds faults, refusals, stalls, deaths and hours. Two senders may
have one alert only after a stall, as in `AlertSender`.

`EventPages` is `Provider.Load` down to the requests: the fetch is begun
(`Acquire`) or found under way, the build id is resolved in one flight or a
forced one, a request is answered with the page, a redirect (followed once), a
stale build or nothing; then snapshot, rows and mark are stored by separate
statements, and the rows are read back. The site is the environment: `Deploy`
and `Rename` at any time. Ages are in units of the refresh interval. Each slug
has at most one other name (`Renamed`); that is a bound of the model. The event
metadata kept in memory is left out.

`TelegramRoute` is Router and Guard. A body is the set of marks the guard looks
for, whichever text carries them. `MCAlertEnrichment` runs the three
beside `AISurfaces`; a behaviour has one page, one note, one report, or the workers
that buy answers.

### AISurfaces and CatalystWindows

`AISurfaces` has the Manager's ledger, the clients' own ledgers, the importer's
goroutines (`LoadEvent`, `AskForEvent`, `CallForEvent`, `AnswerEvent`,
`SaveEvent`), the close review (`ListClosed` .. `TellReview`) and the news cycle
(`StartNews` .. `MarkItem`), each call with its failure, `Restart` between any
two. `CatalystWindows` has what the importer makes of an answer, which catalyst
blocks an alert, and the strategy of that name; there a whole import cycle is one
step of one importer, and drafts of equal confidence come in one order.

### RealtimeTriggers and MarketSelection

One goroutine: `Receive`, `Persist` (the audit row), `ReadLive` (compare with the
live row), `Enqueue` per due trigger, `Upsert` (overwrite the live row);
`Restart` forgets the cooldowns and keeps the tables. The work queue has no
reader in the program.

`MarketSelection` has the two choices of what is watched. The tables they read
are marks the environment sets and clears (up to `MaxNotes` times); a LIMIT
without ORDER BY may keep any subset of that size.

### StrategyShadow

`stage[a]` is the place of an alert's hook in `Order`, the strategies as the bus
runs them; `hand` is the row about to be written. `Promote` is the promotion tick:
`ListSamples`, `ListBuckets`, `Review` per strategy, `Swap` of the gate;
`Value(r)` the value worker; `Judge`, `ListLinked`, `ListResolved`, `Copy` the
outcome backfill with its two lists. `Judge` stores the winner apart from the
verdict, as `classify` does: it names the winner before it reads the payload, so an
`unknown` alert may have one, and the second list selects on the winner. `Buckets`
are the samples per decision level and per linkage, one of which must pass. What holds of an alert (`Facts`) is any set
of the facts the strategies ask for: that includes more than the producers can
give. `ConflictResolve` reads the alert's stored rows directly.

### StrategyInputs

Each producer is a module over `StagedInputs` (the trades, the clock, the cached
reader): `WalletGraph` (edges, cohorts), `ThesisLines` (links and lines),
`RiskScores`, `RepricingWindows`, `HolderSnapshots`, `BookBars`,
`SignalConflicts`, `CatalystWindows`; with them `AlertContext` and
`MarketSelection`, which read the same tables. No producer reads what another
writes but for the links, so a behaviour is about one of them: `lane` picks it.
The constants `Listed`, `Prints` and `MaxTape` are per lane. `StagedInputs` has the
three ways in which all of them handle rows: `InOrder` (ORDER BY, `sort.Slice`;
ties in one fixed order), `Kept` (WHERE, a filtering loop) and `Total` (SUM).

## 4. Runs and what they show

| run | instance | distinct states |
|---|---|---|
| `sender` | 2 alerts (one unreadable), 2 processes of 1 goroutine, `MaxAttempts` 2, `Faults` 1, `Slow` 1 | 280 k |
| `markets` | 1 market, all loops of one process and backfill of another, `Faults` 1, `Slow` 1 | 479 k |
| `ingest` | 3 trades in 2 seconds, two of them twins, pages of 1, reach of 2 pages, 1 walk, `Faults` 2 | 225 k |
| `runtime` | every configuration with at most two switches off, 2 loops, buffer of 2; 1 trade that may panic, 2 processes of 1 goroutine, `Faults` 2, `Slow` 1; 3 events over 5 time units, 2 faults or restarts | 494 k |
| `followup` | 2 processes, 2 alerts, 1 fault; or 3 drift windows | 1.05 M |
| `decision` | 2 trades of a wallet and one from before the gate, 2 handlers, 1 fault | 3.8 M |
| `strategy` | 3 alerts, 2 strategies, 2 decision levels, budgets per kind of trouble | 1.85 M |
| `inputs` | 11 lanes, each with two or three markets, wallets, holders or catalysts | 1.04 M |
| `enrich` | 2 callers and 2 slugs; 2 senders and 1 alert; every report under every toggle; 2 importer goroutines, 2 events, 1 market, 2 news items, 2 days | 5.5 M |
| `soonest`, `burst`, `vacuum` | one lane of `inputs` each; three wallets in `burst` | violated |

### Properties

*sender.* `Exclusive`: a row no reset took from a working goroutine has one
holder and is `sending`. `DuplicateHasCause`: a second copy means a lost
acceptance or a batch that outlived `StaleSendingAfter`, nothing else.
`ClosedRowsAreTrue`: `sent` was accepted or deliberately dropped, `failed` for
good was never seen, but for the same causes. `RetryBudget`: attempts that are
counted stay within `MaxAttempts` although computed from a copy.
`ImplementsQueue`: the table is a work queue. `EveryAlertCloses`.

*markets.* `NoLimbo`: every row is live, marked or purged, whatever the order of
four unguarded statements; `OneWalk`; `TrackedComesLive`, `BackfillEnds`.

*ingest.* `CursorCovers`: what the cursor has passed is stored, unless it was not
listed or out of reach when the pull set out; `WalkKeeps`; `TradesLand`.

*runtime.* `ShutdownInOrder`: pool and channel are closed after their last user;
`NobodyIsLeftOut`: a part has what it calls, trades have one way to the detector
and alerts one to Telegram, only three named buyers of answers do without the
Manager, and a strategy starves only with a switch as the cause;
`StopsUnlessStreaming`, `DeadPeerReplaced`. Of the detection workers:
`SecondLookHasCause`: a trade is looked at twice only after a lost verdict or an
expired lease; `AnalyzedTellsTheAlert`: an analysed trade that was to alert has its
alert row unless the insert itself failed; `EveryTradeDecided`. Of the triggers:
`JumpIsQueued`: a jump of the stored mid has a row in the queue, its own or one no
older than cooldown and bucket, also across restarts, unless an enqueue failed
within the cooldown; `MovesAreSpaced`.

*followup.* `VerdictIsTrue`: `correct` and `wrong` agree with how the market
ended, however long ago Gamma was asked; `ReactionTellsTheVerdict`: an emoji the
row calls applied is in the chat and the verdict's; `NumbersAreBacked`: every
drift number has a trade behind it; `NothingOwed`: in the end no row is pending.

*decision.* `SilenceHasCause`: a trade that scored is told, or gated, filtered,
capped or repeated, or a statement failed; `LineIsTold`: a line at warning
reaches the table however its handlers interleave; `OverCapWasInFlight`: once
the cap's worth was sent, an info alert that had not passed the gate before needs
to be larger by the factor.

*strategy.* `LiveRowHasReview`: what goes live stands on an eligible review of
its strategy; `MismatchHasCause`: a row's outcome differs from its alert's only by
the second list, and then it is wrong whatever the alert's is, `unknown` included; `RowsGetOutcome`.

*inputs.* `RowsAreBacked` is the conjunction, lane by lane, of what a strategy
fires on: `EdgeIsShared`, `ThesisWasTraded`, `TailIsClear`, `CatalystsTellAhead`,
`ConflictIsNoticed`, `LeaversMakeNoBuyer`, `AlertsTellTheTrades`, `WatchIsFair`;
`EveryMarketScored`. Three runs over the same modules state what a comment of the
repository promises and the code does not keep; TLC finds each violated (section
7). `soonest`: `SoonestWins`, of two catalysts ahead the nearer one is picked;
`burst`: `BurstFires`, fresh wallets that converge on a market make `walletcohort`
fire; `vacuum`: `DepthIsConsumed`, a collapse of the depth is handed to
`bookvacuum`.

*enrich.* `PagesKeepTheirWord`: a summary's age is its rows' age
(`SummaryIsAsOldAsItSays`) and a fetch with no trouble at the site succeeds with
one retry at most (`QuietFetchSucceeds`); `SecondAnswerHasCause`: an alert is paid
for twice only after an answer, an insert or a sender was lost, an hour passed or
two senders shared it; `VerdictIsOfTheNote`; `MessagesFindTheirChat`: reports
stay with the admins and what counts as sent was seen, unless its own wording
dropped it. Of the workers that buy answers: `BillIsBounded`: money paid stays
within lives times the caps, plus the answers nobody charged;
`SecondReviewHasCause`.

Each property of a run that passes has a mutant (operators marked *Mutant*, or a variant beside the
definition): the code with a guard dropped, a bound off by one or two steps
swapped, for which the same run finds the property violated.

### Bounds, and why they are enough

- `Faults` counts crashes, stops, lost answers and failed statements of a
  behaviour. One fault reaches every single failure at every point; two, where
  they fit, a failure during the recovery from a failure. Faults are bounded
  because the liveness properties hold only once faults stop.
- `Slow` counts the times a reset or lease expiry hits a row whose holder still
  works on it. The first one gives two holders, which is the case.
- `Sweepers`, `Reapers`, `Walkers` name whose loops act: discover and sanity
  talk through one process's cache, so they run in the same one, and a second
  process adds the race of two walks.
- `MaxTime`, `Walks` in `TradeIngest`: three seconds give a cursor below, at and
  above a trade's second; pages of one trade make every pull that finds two
  trades a pull of several requests; `MaxOffset` 1 lets the third trade push the
  first behind the cap.
- Two alerts give an order within a batch, and a slow first row that holds up
  the second; one trade is enough in `DetectionQueue`, because rows share nothing but
  the dedup key, and the unique key is exercised by the second look at the same
  trade.
- `EventBuffer` 2: empty, part full, full.
- `Budgets`, `PageBudgets`, `MCNoteBudgets` and the like bound how often each
  kind of trouble happens, per lane: a failure, and one while recovering from it. The
  note's are any two of a fault, a stall and an hour beside a refusal, and all three
  without one.
- `MaxEvents` 3 in `RealtimeTriggers`: a first mid, a jump, and a second jump within
  the cooldown of the first or after it.
- `GraphBatch` equals the largest tape, since two wallets need two shared events,
  which are four trades, and a longer tape does not fit the run. So no run
  reaches the cut of that batch; theorem `BackedThm` covers it.
- `MaxRows` cuts a reader's answer where the code has a LIMIT, in
  `SignalConflicts` and `CatalystWindows`; elsewhere the instance is smaller than
  the limit.
- `UpToTwoOff`: a part misses something because of one switch, or because of two
  that each alone do no harm.
- Symmetry (`AlikeSlots`) in `enrich` only: the importer's goroutines are alike, and
  every property there is an invariant. Elsewhere processes play
  different parts or a property is about liveness, for which it is not sound.

The safety theorems of section 6 do not depend on any of these numbers.

`CHECK_DEADLOCK FALSE` stands where the system may really stop: `ingest` (the
market closes, time ends), `runtime` (the process ends), `followup`, `decision`,
`strategy`, `inputs` with the three runs beside it, `enrich` (the work of an
instance is done and its budgets and time are used up). In `sender` and `markets`
the loops tick for ever, and deadlock is checked.

## 5. Fairness

Weak fairness of a goroutine's next step is what the Go scheduler gives a
goroutine that can run; of a ticker loop, what `time.Ticker` gives; of `Start`
and `Restart`, what `restart: unless-stopped` gives; of `Tick`, `Clock` and
`FadeOut`, that time passes and timers fire. A goroutine's steps are one conjunct
(`WF_vars(Work(t))`): where a request may succeed or fail, fairness does not
choose. Nothing makes a fault, a signal, a frame from the peer, a change of the
listing or the market's closing happen: these have no fairness, and properties
say what they assume of them (`<>[](world[m] = "tracked")`,
`<>[](socket # "up")`). Sweeps in `DetectionQueue` have none either: a trade is
decided with or without its market. In `TradeIngest`, `Discover` is fair because
a trade cannot be stored before its market is.

`PriceDrift` (`FairAll`): the outcome and drift loops of each process, and that
trades age. `StrategyShadow` (`FairSpec`): the backfill's ticker alone.
`StrategyInputs` (`FairInputs`): strong fairness of `CleanTick`, a risk-score tick
that loses no write: its ticker does not stop and not every tick meets a failing
database. `StartUp` (`FairBoot`): the runtime's fairness once the process runs;
`New` is straight-line code and no property needs it to end. `MCSpec` of
`MCRuntime` has that fairness (`BootFairness`) and the one of `FairDetection`; the
triggers have none. `AlertDecision` and `MCAlertEnrichment` are checked for safety
only and state none.

## 6. What is proved

Eight modules hold the proofs, ending in theorems `Spec => []...` for all values
of the constants that meet the named assumptions (finite sets of rows, positive
limits, natural bounds). `RuntimeProofs` is by far the longest: `tlapm` takes
about twelve minutes for it from nothing.

**AlertSenderProofs.** `IInv` is `TypeOK`, `RestsEmpty` (no goroutine of a
process holds a row between drains), `Exclusive`, `FreshSnapshots` (the claimed
attempt count is the row's), `AttemptsLeft`, `Recorded` (a delivered copy is
recorded or about to be), `Evidence` (a confirmation has something to confirm).
`DuplicateHasCause` follows from `Recorded`; `RetryBudget` from `AttemptsLeft`,
and that needs `FreshSnapshots`, which is why stale copies are the hazard they
are; `OwnDrainNeverOverruns` from `RestsEmpty`. `Implementation` proves the
refinement: every step takes, gives back, puts, closes, or stutters.

For `AlertDecision` the base is `Decided`: types, `FindingsOK` (a finding in hand is
of the handler at its surface, and its key tells which) and `TableOK`.
`SilenceInv` adds that an unscored trade has score 0 and that a reason, once a
handler is past the single trade's surface, is there and stays (`ReasonsStay`:
rows never change and sent ones never become unsent, so what the gate counted is
still counted). `LineInv` is the argument behind handlers that read a line each on
its own: whenever a line matters and is not told, one of its trades' handlers has
it still to read or carries it at the tier it stands at *now*; a trade stored in
between starts that over, and a crash sends its handler back to the start. `CapInv`
carries `Outgrows` for the rows and for the findings in hand, since a finding
passes the gate in one step and becomes a row in a later one; that the gate still
sees the cap's rows (`GateHolds`) needs finitely many rows. `CapIsKept` needs that
a line's worth is a number; `Sum` is a recursive function, and `LeastNat` (every
set of naturals that is not empty has a least element, from the well-foundedness of
`<`) stands in for induction: `SumSolvable` shows that the recursive equation has a
solution, `SumNat` and `SumIsTheTotal` what it computes.

**DetectionQueueProofs.** `IInv` is `DetectionOK`, `RestsEmpty`, `Exclusive`,
`LateIsOld` (what was too old at claim time still is, so the gate's later clock
agrees), `LooksCounted`, `StampHasGround` (what a goroutine about to stamp has
behind it), and the two properties they carry.

**MarketLifecycleProofs.** `IInv` is `TypeOK`, `NoLimbo`, `OneWalk`, `CacheTells`
(what a cache says of a market whose listing has not changed since the sweep is
so). `PurgedWasGone` and `StatusSticks` follow step by step from it.

**TradeIngestProofs.** `IInv` is `TypeOK`, `OneRowPerKey`, `Vouched` (what a pull
set out to read is behind the cursor, in its batch, or ahead of its offset),
`Landed` (at the cursor's statement the batch is stored), `CursorCovers`,
`Owing` (the same for a walk), `WalkKeeps`. The lemmas `RankGrows`, `RankOrder`
and `ShortPage` are the arithmetic of offsets in a list that only grows: a
trade's rank never falls, so an offset passes no trade unread.

**RuntimeProofs.** The shutdown's invariant orders the goroutines: `Nested` (who
may run while whom waits), `AfterSignal`, `OneConnection`, `Accounted` (every
failed loop's error is queued or collected), `Drained`, `ClosedLast`. For
`New`, `BootOK` says that each part and each wire is a function of the place
reached and of the settings (`StoreParts`, `ChatParts`, `StoreWires`,
`ChatWires`, one clause per block), from which `EverybodyIsWired` proves
`NobodyIsLeftOut` for every set of configurations: the run tries those with two
switches off, the theorem all of them. `BootRuns` carries the shutdown's results
over. For the triggers, `RowsStamped`, `DueRested`, `StampHasRow` and `HandIsLast`
tie the cooldowns in memory to rows of the queue; `EveryJumpQueued` and
`RowsSpaced` follow.

The inputs of the strategies are in the same module, for they share its lemmas
about sums, sorted lists and folds (`TotalAdd`, `TotalSame`, `ListShape` and their
neighbours). `InputsInv` is one invariant per lane; `InputsStep` shows that a step
of a lane keeps its own and starts no other, `InputsBacked` that together they give
`RowsAreBacked`. What each adds to its property:

- *thesis*: a line is backed by its trades (`LinesAddUp`), also in a kept answer,
  whose trades can only have become more; two lines of one group are one row, or
  the liquidity would count twice.
- *tail*: a kept score is the one its text has; a kept "none" was true when it was
  kept, since every score of the market is younger than the answer (`TailKept`). So
  a clear market is clear, however stale the answer.
- *conflict*: an answer names only sides that stood in the window when it was read,
  and names each row that did, unless the LIMIT cut it off (`AnswerHolds`): the rows
  are in the order of their age, so a cut takes the oldest.
- *catalyst*: the table is finite and typed; `Primary` is the first in the prompt's
  order and the strategy's pick is the best of what the reader gave it
  (`PrimaryIs`, `PickIs`), both shown about folds over lists.
- *context*: what a handler read of a wallet's history, together with the trades
  that came since, is at least what the wallet has now (`HandHolds`): trades age out
  of the window but never come in by it.
- *ring*: the reservoir holds the last trades it heard, in order, with their sum
  (`RingHolds`), through wrap-around, eviction and ageing; what is no longer in it
  is too old or was pushed out by `RingCap` later ones. The running sum is right
  because what `Push` and `Evict` subtract is the first term of that sum
  (`PushedHolds`, `SumCut`).
- *cohort*: an edge's events are in the tape and the tape only grows, so what was
  shared stays shared; that `walletcohort` never fires needs nothing remembered.
  *lag*, *bars*: no closed window names a condition and no bar says how its depth
  has changed, nor does a kept answer, so these strategies cannot fire. That is part
  of the invariant only, and no property asks for it (section 7).
- *holders*: nobody in a snapshot, stored or kept, holds nothing; hence a share that
  rose although its holder bought nothing, while the others left, is an artifact.
- *watch*: `WatchIsFair` is a fact about one selection, whatever the tables say; the
  lane remembers nothing.

**AlertFollowUpProofs.** `FollowInv`: a row that is not contested has one judge,
and is pending until he writes (`OneJudge`); what a tick or a postmortem listed
is still what the row says (`Current`); so every emoji that is set is the
verdict's (`ShownFits`). `Truth` rests on Gamma's winner labels being final.
`VerdictsStay` is the action property behind it: no write turns a verdict into its
opposite, and it changes at all only when two processes listed the row together.
For the drift, what was found was traded and the last trade only moves on
(`FoundIsBacked`).

**StrategyShadowProofs.** Whoever the gate lets through has an eligible review of
the tick that filled it (`GateHasReviews`), whoever the running tick will let
through likewise (`NewHasReviews`), a live row in hand has its review
(`HandHasReview`), and reviews are only added. For the outcomes, the hook never
returns to a strategy whose row is stored (`StoredAreBehind`), and a row on the
second list has slipped, is still on the first, or has an outcome
(`BatchHasCause`).

**AISurfacesProofs.** The bill is at most (lives - 1) times the room, plus the
unseen, plus what the ledger shows; what the ledger shows and what is in flight
(`MaxCost` per asking worker) fit the room; the same with the client's own ledger.
Reviews bought are at most the wasted ones and one; messages told about an item
at most the lost marks and one (`RepeatsExplained`, which no run states).

For the event pages, `PagesInv`: one caller fetches a slug at a time (`OneFetch`),
a page in hand is no older than its fetch (`ReadInTime`), rows that stayed whole
are no older than the date beside them (`KeptRows`), and that date only gets
younger while somebody shows it (`DatedRows`, `ShownRows`). `Lucky` is the other
half: a fetch nobody disturbed fails only if it began with a build id and a name
that were both out of date, by the step it has reached; `NamesFit` says what its
names can be. Assumed: each slug has at most one other name.

For the analyst note, `NotesInv`. Counting answers is not inductive by itself:
`AnswersLeft` says how many may still be paid for - one for every sender that is
on its way to the model, and one more when nobody is and no fresh note is there -
and a fresh note cancels those that have only come to look. It needs the
cardinality of the set of such senders, hence finitely many senders. `OneSend`
(an alert that was never shared has one sender) makes two reads and two writes
consistent: what that sender carries is of the latest note (`CarriesLatest`).
`SentWasSeen` is inductive with `NotesExist`, since notes stay and a body only
depends on its note; `RouteInv` carries `ReportsStayInside`, given valid
configurations whose chats are not the model's `Nobody`.

*Only model-checked.* The liveness properties, `EveryMarketScored` among them: the
prover has no rules for fairness. The thresholds themselves (`Passes`,
`MedianTwice`, `Highest`) are opaque in the proofs: what the theorems say holds for
any ladder.

*Instead of induction.* The library's induction theorems take an operator, which
the provers cannot instantiate. Where a recursive function or a fold must be
reasoned about (`Sum`, `PriceFrom`, `Total`, the batches of `RiskScores` and
`CatalystWindows`), the proofs take a least counterexample, or the least number of
rows that has one, from the well-foundedness of `<`.

*Assumed of the inputs* (named in their modules; TLC evaluates them in `inputs`):
finite sets of markets, holders, drafts and text marks; a lane lists and prints
only markets there are; amounts, prices, windows and limits are natural numbers, as
`config.go` validates them. Positive, because nothing would work at zero and the
code sees to it: the per-side allowance of the market-maker filter
(`mmfilter/filter.go` 106 puts 4 for anything below 1), the reservoir's capacity
(`baseline.go` 89 puts its default), the score batch, the prompt's items and the
least collapse of a book.

## 7. Where the code and its documentation differ

Met while modelling. The models follow the code. Three of them, of the strategies'
inputs, have a run whose property is the comment's promise and which TLC finds
violated (`findings` in `PROJECT.json`); the rest are listed here only.

*Queues and markets.* `alertsender/worker.go` 81-82, "hard cap on total send
attempts": a request that ends in a deadline is not counted.
`detection/worker.go` 14, "on restart, pending rows resume": rows claimed before
the first sweep are given up for an empty cache; and claims take the newest
first, so old rows wait for as long as new ones come (`trades.sql` 172).
`markets.sql` 164-166, a purge "re-checks ... against the latest discover
sweep": a fresh process has none, and purges (`PurgesAreJustified` is about one
that has). `trade_repository.go` 690-691, nanoseconds "disambiguate" trades:
upstream gives whole seconds, so two equal fills of one second are one row.
`collect.go` 209 takes a failed cursor read for "never seen"; a pull before the
market's row is stored drops its batch (`persist.go` 170). `doc/architecture.md`
79-82 still derives the cursor from `MAX(traded_at)`, which migration 00009
replaced; `markets.sql` 10-11 says a returning market's backfill status is
re-stamped `pending`, and the upsert's callers do not; `backfill/worker.go` 97-99
("only one worker advances a given market") is contradicted by 219-223;
`marketcache/cache.go` 10-17 says Replace comes after the row has been persisted
and that callers fall back to the repository on a miss, and neither is so.

*Runtime.* `ws/client.go` 47-48, "a missed PONG trips this ... the client
reconnects": the reader waits for a writer that does not leave. `graceful.go`
23-25, "waits up to fadeOutDuration": it waits for every loop.
`realtime/worker.go` 253-257 writes `ws_connected = FALSE` with a cancelled
context. The realtime work queue is written and never read; a market has one mid
although the tokens of both outcomes are subscribed.

*Decision and context.* The package comment of `concentration` says "The (N+1)th
alert" is held back; the count has sent rows only. In `detect.go` a failed read of
the wallet's baseline makes it "new"; the baselines include the trade itself;
`first_seen_at` is when the row was inserted, not the first trade; the market
maker filter lets everything through when its read fails. The in-memory ring
keeps an old sample that came late, although `Config.Window` says old samples are
dropped on access.

*After the send.* `drift/worker.go` 24-31 says later windows are stamped when
they elapse, but a row leaves the list with its first number.
`outcomeai/worker.go` 205: two processes that listed the same alert both deliver
the postmortem.

*AI.* `budget.go` 14-21 says every call is charged; the importer's error path
returns before `Charge`, and alert analysis and news never ask the Manager.
`config.go` 795-801 says that every analyzer call short-circuits with
`AI_ANALYSIS_ENABLED=false`; importer, news and close review go on buying.
`InsertRunning` says upsert and is an insert. A news item whose message failed is
marked processed all the same, one whose mark failed is told again.

*Event pages.* After an alias is followed, rows are stored under the canonical
slug while marks and summary use the original, so the state says fresh and the
summary "unavailable" (`provider.go` 286-420). A failed fetch sets
`last_fetched_at` too, contrary to 243-244. "Avoids stampedes" (273) and "issues
exactly one HTML fetch" (`buildid.go` 23-25): those who lose the race do not wait,
and a forced resolve that joins an older flight gets the old id.

*Telegram.* `guard.go` 203-218 calls a false positive on a flow alert
structurally impossible, but the body carries the model's free text: "state: "
and an arrow anywhere drop the alert, and the row is marked sent. With
`TELEGRAM_ALLOW_SAME_CHAT_FOR_ADMIN` the quality report is swallowed likewise.

*Catalysts and strategies.* 11 of the 16 catalyst kinds the importer accepts have
no window and never match, and the "generic" window belongs to none.
`catalystwindow/detector.go` 74-77: "the one closest to (or just past) the signal
time wins"; of two ahead, 113-115 prefer the larger lead (run `soonest`).
`strategy_config.go` 329-332: the walletcohort booster fires when enough fresh
wallets converge; the hook hands the detector no members
(`strategy_shadow.go` 311-318), so it counts nobody (run `burst`).
`strategy_phase_f.go` 10: bookvacuum "can now consume real top-N depth"; the sink
leaves the changes of the depth out, and the detector reads only these (run
`vacuum`). So in this wiring walletcohort and bookvacuum never fire, nor do
repricinglag and cheaptail at its default. Link and edge versions are configurable
for the producers and hard-coded 1 for the readers (`strategy_shadow.go` 276, 560).

`strategyoutcome/worker.go` 6-8 calls the alerts' `outcome_status` the source of
truth. But `strategy_phase_c.go` 279-296 compares the winning label with BUY or SELL,
so rows that only the second list handles come out `resolved_wrong`; and since
`outcomes/worker.go` 370-391 names the winner before it knows whether it can
classify, that happens beside alerts that stay `unknown` too (`MismatchHasCause` is
what remains true). `strategy_phase_b.go` 155-167 sets no outcome token and no
baseline, so those rows are never valued.

*Selection and wiring.* The stream's LIMIT comes before the join with the page
snapshots, so markets without one take places for nothing; the bucket of markets
linked to a fired alert does not look at `deleted_at`. With Telegram off and
Postgres on, pending alerts wait for ever.

## 8. What is not modelled

- Message texts, prompts, formatting, splitting, link building, metrics and logs:
  no property is about them. Where wording decides (the guard), it is a set of
  marks.
- What HTTP clients do inside one call (retries, rate limits): a call is one
  answer, or none.
- Generated queries: the models translate the SQL they are generated from.
- Configuration: intervals, sizes and thresholds are copied and are constants
  here; the switches are in `StartUp`.
- Parts without a caller in the program: `aipreflight`, `eventflow`,
  `outcomemapping`, `SafeSplitForTelegram`, `thesisaccum.Detector`, the readers of
  the realtime work queue.
- The command line, migrations, the reports' tables (bounded reads that keep no
  state).
- Postgres below the statement: a statement is atomic, reads its own snapshot,
  and `FOR UPDATE SKIP LOCKED` gives concurrent claims disjoint rows. A failed
  statement did nothing, but for the batch upsert, which is many statements and
  leaves any prefix.
- `PROJECT.json` gives the reason at each component.
