--------------------------- MODULE MarketLifecycle ---------------------------
(***************************************************************************)
(* The life of a market row.  Each process runs three loops over the one   *)
(* polymarket_markets table: discover sweeps the upstream listing into its *)
(* own cache and then into the table; the sanity worker retires rows that  *)
(* have been soft-deleted long enough, after asking that cache; and the    *)
(* backfill worker walks the history of every live market.  No loop waits  *)
(* for another, and no statement is guarded by what an earlier one read.   *)
(*                                                                         *)
(* Ages are relative and stop one past the last threshold compared.  A     *)
(* stop is a Crash: the loops notice a cancelled ctx between two           *)
(* statements and leave their rows as they are.                            *)
(***************************************************************************)
EXTENDS Integers, FiniteSets

CONSTANTS
    Markets, Procs,
    Retention, PurgeLimit,                \* sanity.Config
    StaleAfter, RetryAfter,               \* backfill.Config (PartialRetryAfter)
    BatchSize, Concurrency,
    Sweepers, Reapers, Walkers,           \* model bound: whose discover, sanity, backfill acts
    Faults,          \* model bound: crashes, failed statements and sweeps
    Slow,            \* model bound: rows re-queued while a goroutine walks them
    None

ASSUME MarketsAssumption == IsFiniteSet(Markets) /\ None \notin Markets
ASSUME LoopsAssumption   == Sweepers \cup Reapers \cup Walkers \subseteq Procs
ASSUME LimitsAssumption  == /\ Retention \in Nat /\ StaleAfter \in Nat /\ RetryAfter \in Nat
                            /\ PurgeLimit \in Nat \ {0} /\ BatchSize \in Nat \ {0}
                            /\ Concurrency \in Nat \ {0}
                            /\ Faults \in Nat /\ Slow \in Nat

Present == -1    \* deleted_at IS NULL

VARIABLES
    world,                          \* upstream: "absent", "shown", or "tracked" (whitelisted too)
    stored, active, gone, purged,   \* the row: there, active, age of deleted_at, purged_at set
    status, age,                    \* backfill_status, and how long it has been so
    up, cache,                      \* a process and its market cache
    seen, todo, sweeping,           \* discover: the sweep being persisted
    listed, asked, answer,          \* sanity: candidates, the one in hand, what the cache said
    stage, jobs, walks,             \* backfill: the tick, markets waiting, markets being walked
    swept, fresh,                   \* history: processes that have swept, and the markets whose
                                    \* listing has not changed since their last sweep, or start
    shared,                         \* history: markets two walks may have written
    faults, slow

market   == <<stored, active, gone, purged>>
discover == <<seen, todo, sweeping>>
sanity   == <<listed, asked, answer>>
backfill == <<stage, jobs, walks>>
history  == <<swept, fresh, shared>>
bounds   == <<faults, slow>>
vars     == <<world, market, status, age, up, cache, discover, sanity, backfill,
              history, bounds>>

Init ==
    /\ world \in [Markets -> {"absent", "shown", "tracked"}]
    /\ stored = {} /\ active = {} /\ purged = {}
    /\ gone = [m \in Markets |-> Present]
    /\ status = [m \in Markets |-> "pending"]
    /\ age = [m \in Markets |-> 0]
    /\ up = Procs
    /\ cache = [p \in Procs |-> {}]
    /\ seen = [p \in Procs |-> {}]
    /\ todo = [p \in Procs |-> {}]
    /\ sweeping = {}
    /\ listed = [p \in Procs |-> {}]
    /\ asked = [p \in Procs |-> None]
    /\ answer = [p \in Procs |-> "none"]
    /\ stage = [p \in Procs |-> "idle"]
    /\ jobs = [p \in Procs |-> {}]
    /\ walks = [p \in Procs |-> {}]
    /\ swept = {}
    /\ fresh = [p \in Procs |-> Markets]
    /\ shared = {}
    /\ faults = Faults
    /\ slow = Slow

Fault == faults > 0 /\ faults' = faults - 1

\* Rows S go back to the backfill queue; those somebody still walks are shared from then on.
Requeued(S) ==
    LET W == {m \in S : \E p \in Procs : m \in walks[p]} IN
    /\ shared' = shared \cup W
    /\ IF W # {} THEN slow > 0 /\ slow' = slow - 1 ELSE UNCHANGED slow

\* LIMIT n.
Some(n, S) == {T \in SUBSET S : Cardinality(T) = IF Cardinality(S) <= n THEN Cardinality(S) ELSE n}

-----------------------------------------------------------------------------
(* discover *)

\* The listing changes under everyone.
Change(m, w) ==
    /\ world[m] # w
    /\ world' = [world EXCEPT ![m] = w]
    /\ fresh' = [p \in Procs |-> fresh[p] \ {m}]
    /\ UNCHANGED <<market, status, age, up, cache, discover, sanity, backfill, swept, shared, bounds>>

\* tick: the fetched listing replaces the cache before anything is persisted;
\* with an error nothing happens until the next tick.  PersistDiscovery keeps
\* the markets with a whitelisted category.  The market sanity has in hand was
\* asked about before.
Sweep(p) ==
    /\ p \in up \ sweeping
    /\ sweeping' = sweeping \cup {p}
    /\ cache' = [cache EXCEPT ![p] = {m \in Markets : world[m] # "absent"}]
    /\ seen' = [seen EXCEPT ![p] = {m \in Markets : world[m] = "tracked"}]
    /\ todo' = [todo EXCEPT ![p] = {m \in Markets : world[m] = "tracked"}]
    /\ swept' = swept \cup {p}
    /\ fresh' = [fresh EXCEPT ![p] = Markets \ {asked[p]}]
    /\ UNCHANGED <<world, market, status, age, up, sanity, backfill, shared, bounds>>

\* Mutant: the upsert leaves deleted_at as it was.
KeepDeleted(m) == gone

\* deleted_at = NULL.
Undeleted(m) == [gone EXCEPT ![m] = Present]

\* Mutant: active is left out of the ON CONFLICT clause.
OnlyNew(m) == IF m \in stored THEN active ELSE active \cup {m}

\* active = TRUE, on insert and on conflict.
Revived(m) == active \cup {m}

\* UpsertMarket, one transaction per market; a new row starts `pending`, an old
\* one keeps its backfill state and its purged_at.
Upsert(p, m) ==
    /\ p \in sweeping /\ m \in todo[p]
    /\ todo' = [todo EXCEPT ![p] = @ \ {m}]
    /\ stored' = stored \cup {m}
    /\ active' = Revived(m)
    /\ gone' = Undeleted(m)
    /\ UNCHANGED <<world, purged, status, age, up, cache, seen, sweeping, sanity, backfill,
                   history, bounds>>

EndSweep(p) ==
    /\ sweeping' = sweeping \ {p}
    /\ seen' = [seen EXCEPT ![p] = {}]
    /\ todo' = [todo EXCEPT ![p] = {}]

\* active, and not among the conditions of this sweep.
Missing(p) == active \ seen[p]

\* MarkMarketsInactiveNotIn, the last statement of a sweep.
MarkInactive(p) ==
    /\ p \in sweeping /\ todo[p] = {}
    /\ active' = active \ Missing(p)
    /\ gone' = [m \in Markets |-> IF m \in Missing(p) THEN 0 ELSE gone[m]]
    /\ EndSweep(p)
    /\ UNCHANGED <<world, stored, purged, status, age, up, cache, sanity, backfill, history, bounds>>

\* A statement fails: the rest of the sweep is dropped, the cache stays.
PersistFails(p) ==
    /\ p \in sweeping
    /\ Fault
    /\ EndSweep(p)
    /\ UNCHANGED <<world, market, status, age, up, cache, sanity, backfill, history, slow>>

Discover(p) == Sweep(p) \/ (\E m \in Markets : Upsert(p, m)) \/ MarkInactive(p) \/ PersistFails(p)

-----------------------------------------------------------------------------
(* sanity *)

\* ListSoftDeletedForPurge.
Ripe == {m \in stored \ purged : gone[m] >= Retention}

ListRipe(p) ==
    /\ p \in up /\ listed[p] = {} /\ asked[p] = None
    /\ \E S \in Some(PurgeLimit, Ripe) : listed' = [listed EXCEPT ![p] = S]
    /\ UNCHANGED <<world, market, status, age, up, cache, discover, asked, answer, backfill,
                   history, bounds>>

\* IsActiveUpstream: a cache miss is taken for an ended market.
Upstream(p, m) == IF m \in cache[p] THEN "resumed" ELSE "ended"

Ask(p, m) ==
    /\ asked[p] = None /\ m \in listed[p]
    /\ listed' = [listed EXCEPT ![p] = @ \ {m}]
    /\ asked' = [asked EXCEPT ![p] = m]
    /\ answer' = [answer EXCEPT ![p] = Upstream(p, m)]
    /\ UNCHANGED <<world, market, status, age, up, cache, discover, backfill, history, bounds>>

\* The candidate in hand is dealt with.
Answered(p, a) ==
    /\ answer[p] = a
    /\ asked' = [asked EXCEPT ![p] = None]
    /\ answer' = [answer EXCEPT ![p] = "none"]

\* RequeueResumedMarket, whatever deleted_at and the backfill have become.
Resume(p) ==
    /\ Answered(p, "resumed")
    /\ active' = Revived(asked[p])
    /\ gone' = Undeleted(asked[p])
    /\ status' = [status EXCEPT ![asked[p]] = "pending"]
    /\ age' = [age EXCEPT ![asked[p]] = 0]
    /\ Requeued({asked[p]})
    /\ UNCHANGED <<world, stored, purged, up, cache, discover, listed, backfill, swept, fresh, faults>>

\* MarkMarketPurged: WHERE purged_at IS NULL, whatever deleted_at has become.
Purge(p) ==
    /\ Answered(p, "ended")
    /\ purged' = purged \cup {asked[p]}
    /\ active' = IF asked[p] \in purged THEN active ELSE active \ {asked[p]}
    /\ UNCHANGED <<world, stored, gone, status, age, up, cache, discover, listed, backfill,
                   history, bounds>>

\* The statement fails, and the next candidate has its turn.
SanityFails(p) ==
    /\ \E a \in {"resumed", "ended"} : Answered(p, a)
    /\ Fault
    /\ UNCHANGED <<world, market, status, age, up, cache, discover, listed, backfill, history, slow>>

Sanity(p) == \/ ListRipe(p) \/ (\E m \in Markets : Ask(p, m))
             \/ Resume(p) \/ Purge(p) \/ SanityFails(p)

-----------------------------------------------------------------------------
(* backfill *)

\* Mutant: nothing returns from `running`.
NeverStuck == {}

\* WHERE backfill_status = 'running' AND backfill_started_at < cutoff.
Stuck == {m \in stored : status[m] = "running" /\ age[m] > StaleAfter}

\* tick: ResetStaleRunning, whose failure is only logged.
BackfillTick(p) ==
    /\ p \in up /\ stage[p] = "idle"
    /\ stage' = [stage EXCEPT ![p] = "list"]
    /\ \/ /\ status' = [m \in Markets |-> IF m \in Stuck THEN "pending" ELSE status[m]]
          /\ age' = [m \in Markets |-> IF m \in Stuck THEN 0 ELSE age[m]]
          /\ Requeued(Stuck)
          /\ UNCHANGED faults
       \/ Fault /\ UNCHANGED <<status, age, shared, slow>>
    /\ UNCHANGED <<world, market, up, cache, discover, sanity, jobs, walks, swept, fresh>>

\* ListActiveMarketsForBackfill.
Due == {m \in active \ purged :
            /\ gone[m] = Present
            /\ \/ status[m] = "pending"
               \/ status[m] = "partial" /\ age[m] > RetryAfter}

ListJobs(p) ==
    /\ stage[p] = "list"
    /\ \/ /\ \E S \in Some(BatchSize, Due) : jobs' = [jobs EXCEPT ![p] = S]
          /\ stage' = [stage EXCEPT ![p] = "walk"]
          /\ UNCHANGED faults
       \/ Fault /\ stage' = [stage EXCEPT ![p] = "idle"] /\ UNCHANGED jobs
    /\ UNCHANGED <<world, market, status, age, up, cache, discover, sanity, walks, history, slow>>

\* Mutant: BeginMarketBackfill without its condition.
AnyStatus(m) == TRUE

\* WHERE backfill_status IN ('pending', 'partial_api_limit').
Startable(m) == status[m] \in {"pending", "partial"}

\* BeginBackfill, as soon as the semaphore lets a goroutine in.  The number of
\* rows it changed is not looked at: the walk begins all the same.
Begin(p, m) ==
    /\ m \in jobs[p] /\ Cardinality(walks[p]) < Concurrency
    /\ jobs' = [jobs EXCEPT ![p] = @ \ {m}]
    /\ \/ /\ walks' = [walks EXCEPT ![p] = @ \cup {m}]
          /\ status' = [status EXCEPT ![m] = IF Startable(m) THEN "running" ELSE @]
          /\ age' = [age EXCEPT ![m] = IF Startable(m) THEN 0 ELSE @]
          /\ shared' = IF Startable(m) THEN shared ELSE shared \cup {m}
          /\ UNCHANGED faults
       \/ Fault /\ UNCHANGED <<walks, status, age, shared>>
    /\ UNCHANGED <<world, market, up, cache, discover, sanity, stage, swept, fresh, slow>>

\* runPages ends: CompleteBackfill or FailBackfill, by id alone.
Finish(p, m, end) ==
    /\ m \in walks[p]
    /\ walks' = [walks EXCEPT ![p] = @ \ {m}]
    /\ status' = [status EXCEPT ![m] = end]
    /\ age' = [age EXCEPT ![m] = 0]
    /\ UNCHANGED <<world, market, up, cache, discover, sanity, stage, jobs, history, bounds>>

\* Canceled, DeadlineExceeded, or the final statement fails: the row stays as it is.
Abandon(p, m) ==
    /\ m \in walks[p]
    /\ Fault
    /\ walks' = [walks EXCEPT ![p] = @ \ {m}]
    /\ UNCHANGED <<world, market, status, age, up, cache, discover, sanity, stage, jobs, history, slow>>

\* wg.Wait returns.
EndTick(p) ==
    /\ stage[p] = "walk" /\ jobs[p] = {} /\ walks[p] = {}
    /\ stage' = [stage EXCEPT ![p] = "idle"]
    /\ UNCHANGED <<world, market, status, age, up, cache, discover, sanity, jobs, walks, history, bounds>>

Backfill(p) ==
    \/ BackfillTick(p) \/ ListJobs(p) \/ EndTick(p)
    \/ \E m \in Markets : Begin(p, m) \/ Abandon(p, m)
    \/ \E m \in Markets, end \in {"completed", "partial", "failed"} : Finish(p, m, end)

-----------------------------------------------------------------------------
(* Processes and time *)

Crash(p) ==
    /\ p \in up
    /\ Fault
    /\ up' = up \ {p}
    /\ cache' = [cache EXCEPT ![p] = {}]
    /\ EndSweep(p)
    /\ listed' = [listed EXCEPT ![p] = {}]
    /\ asked' = [asked EXCEPT ![p] = None]
    /\ answer' = [answer EXCEPT ![p] = "none"]
    /\ stage' = [stage EXCEPT ![p] = "idle"]
    /\ jobs' = [jobs EXCEPT ![p] = {}]
    /\ walks' = [walks EXCEPT ![p] = {}]
    /\ swept' = swept \ {p}
    /\ fresh' = [fresh EXCEPT ![p] = {}]
    /\ UNCHANGED <<world, market, status, age, shared, slow>>

\* The supervisor restarts it; Run starts every loop at once, on an empty cache.
Restart(p) ==
    /\ p \notin up
    /\ up' = up \cup {p}
    /\ fresh' = [fresh EXCEPT ![p] = Markets]
    /\ UNCHANGED <<world, market, status, age, cache, discover, sanity, backfill, swept, shared, bounds>>

Waiting(m) == gone[m] # Present /\ gone[m] < Retention
Timed(m)   == \/ status[m] = "running" /\ age[m] <= StaleAfter
              \/ status[m] = "partial" /\ age[m] <= RetryAfter

Tick ==
    /\ \E m \in Markets : Waiting(m) \/ Timed(m)
    /\ gone' = [m \in Markets |-> IF Waiting(m) THEN gone[m] + 1 ELSE gone[m]]
    /\ age' = [m \in Markets |-> IF Timed(m) THEN age[m] + 1 ELSE age[m]]
    /\ UNCHANGED <<world, stored, active, purged, status, up, cache, discover, sanity, backfill,
                   history, bounds>>

Next == \/ \E p \in Sweepers : Discover(p)
        \/ \E p \in Reapers : Sanity(p)
        \/ \E p \in Walkers : Backfill(p)
        \/ \E p \in Procs : Crash(p) \/ Restart(p)
        \/ \E m \in Markets, w \in {"absent", "shown", "tracked"} : Change(m, w)
        \/ Tick

Spec == Init /\ [][Next]_vars

\* Three tickers, three goroutines; a dead process is restarted; time passes.
FairSpec == /\ Spec
            /\ \A p \in Sweepers : WF_vars(Discover(p))
            /\ \A p \in Reapers : WF_vars(Sanity(p))
            /\ \A p \in Walkers : WF_vars(Backfill(p))
            /\ \A p \in Procs : WF_vars(Restart(p))
            /\ WF_vars(Tick)

-----------------------------------------------------------------------------
(* Properties *)

RowsOK ==
    /\ stored \subseteq Markets /\ active \subseteq stored /\ purged \subseteq stored
    /\ gone \in [Markets -> Nat \cup {Present}]
    /\ status \in [Markets -> {"pending", "running", "completed", "partial", "failed"}]
    /\ age \in [Markets -> Nat]

LoopsOK ==
    /\ up \subseteq Procs /\ sweeping \subseteq up
    /\ cache \in [Procs -> SUBSET Markets]
    /\ seen \in [Procs -> SUBSET Markets] /\ todo \in [Procs -> SUBSET Markets]
    /\ listed \in [Procs -> SUBSET stored]
    /\ asked \in [Procs -> stored \cup {None}]
    /\ answer \in [Procs -> {"none", "resumed", "ended"}]
    /\ \A p \in Procs : asked[p] = None <=> answer[p] = "none"
    /\ stage \in [Procs -> {"idle", "list", "walk"}]
    /\ jobs \in [Procs -> SUBSET stored] /\ walks \in [Procs -> SUBSET stored]

HistoryOK ==
    /\ world \in [Markets -> {"absent", "shown", "tracked"}]
    /\ swept \subseteq up /\ fresh \in [Procs -> SUBSET Markets] /\ shared \subseteq Markets
    /\ faults \in Nat /\ slow \in Nat

TypeOK == RowsOK /\ LoopsOK /\ HistoryOK

\* No row is in limbo: it is live, or marked for the sanity worker to find, or
\* purged; and no live row carries the mark, so none is purged for an old absence.
\* Four statements of two loops write these columns, none of them guarded.
NoLimbo ==
    \A m \in stored :
        IF m \in active THEN gone[m] = Present ELSE gone[m] # Present \/ m \in purged

\* A process that has swept purges a listed market only if the listing changed
\* since the sweep it asked about: no market that simply went on being listed is lost.
StillGone(p) ==
    asked[p] \in fresh[p] /\ asked'[p] = None /\ asked[p] \in purged' \ purged
        => world[asked[p]] = "absent"

PurgedWasGone == [][\A p \in swept : StillGone(p)]_vars

\* Only one walk advances a market, and the row says `running` as long as it does,
\* unless it was re-queued under the walk or BeginBackfill's refusal was ignored.
OneWalk ==
    \A m \in Markets \ shared : \A p \in Procs : m \in walks[p] =>
        /\ status[m] = "running"
        /\ \A q \in Procs : m \in walks[q] => q = p

\* `completed` is never walked again and `failed` is sticky, but for a market that
\* sanity re-queues: no late worker overwrites the last word on a row, with the
\* same two exceptions.
StatusSticks ==
    [][\A m \in Markets \ shared : status[m] \in {"completed", "failed"} =>
          status'[m] \in {status[m], "pending"}]_vars

\* Whatever failed sweeps and purges have done before, a market that stays in the
\* listing ends up live for good, or purged.
TrackedComesLive ==
    \A m \in Markets : <>[](world[m] = "tracked") => <>[](m \in active \/ m \in purged)

\* A live market does not wait for its history for ever: no crash or lost
\* statement leaves it `pending` or `running` for good.
BackfillEnds ==
    \A m \in Markets :
        <>[](m \in active \ purged) => []<>(status[m] \in {"completed", "partial", "failed"})

(* The inductive invariant behind the safety properties (MarketLifecycleProofs) *)

\* What a process that has swept knows of the markets that have not changed since.
CacheTells ==
    \A p \in swept : \A m \in fresh[p] :
        /\ m \in cache[p] <=> world[m] # "absent"
        /\ m = asked[p] /\ answer[p] = "ended" => world[m] = "absent"

IInv == TypeOK /\ NoLimbo /\ OneWalk /\ CacheTells
=============================================================================
