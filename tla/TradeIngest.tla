----------------------------- MODULE TradeIngest -----------------------------
(***************************************************************************)
(* How the trades of one market reach polymarket_trades.  Every process    *)
(* runs two readers of the same newest-first listing: collect.Loop pulls   *)
(* the live tail from a cursor kept on the market's row, backfill.Worker   *)
(* walks the history by offset.  Pages are separate requests, so the       *)
(* listing grows under both; rows are deduplicated by key; the cursor      *)
(* moves in a statement of its own, after the rows.                        *)
(*                                                                         *)
(* Trades are numbered in the order of the listing.  The upsert of a batch *)
(* is one step: its statements commute with everything but a crash, and a  *)
(* failure or crash in the middle leaves any prefix of the batch.          *)
(***************************************************************************)
EXTENDS Integers, FiniteSets

CONSTANTS
    Trades,               \* numbered oldest to newest, as the listing orders them
    At,                   \* their timestamp, in whole seconds, as the Data API gives it
    Ext, Fill, None,      \* their upstream id if any; outcome, wallet, price, size and side
    Procs,
    PageSize, WalkSize,   \* page of a pull, page of a walk
    MaxOffset,            \* MaxUpstreamOffset
    Lookback,             \* Config.BootstrapLookback
    MaxTime,              \* model bound: the clock
    Walks,                \* model bound: backfill walks begun
    Faults                \* model bound: failed requests and statements, crashes

ASSUME TradesAssumption == /\ Trades \subseteq Nat \ {0} /\ IsFiniteSet(Trades)
                           /\ At \in [Trades -> Nat \ {0}]
                           /\ \A t, u \in Trades : t <= u => At[t] <= At[u]
ASSUME LimitsAssumption == /\ PageSize \in Nat \ {0} /\ WalkSize \in Nat \ {0}
                           /\ MaxOffset \in Nat /\ Lookback \in Nat /\ MaxTime \in Nat
                           /\ Walks \in Nat /\ Faults \in Nat

VARIABLES
    now, published, open,                \* the clock, the listing, and whether the market trades
    known, rows, cursor,                 \* the market's row, its trades, last_collect_traded_at (0: NULL)
    stage, since, batch, offset,         \* the pull of a process
    walk, at,                            \* the walk of a process, and the offset it is at
    vouch, owes, skipped, owed,          \* history, see below
    walks, faults

\* vouch[p]: what the pull of p set out to read; owes[p]: what its walk did.
\* owed: what finished walks have claimed.  skipped: trades the cursor passed
\* although no pull that moved it had set out to read them.
upstream == <<now, published, open>>
pull     == <<stage, since, batch, offset, vouch>>
walker   == <<walk, at, owes, owed>>
vars     == <<upstream, known, rows, cursor, skipped, pull, walker, walks, faults>>

Init ==
    /\ now = 1 /\ published = {} /\ open = TRUE
    /\ known = FALSE /\ rows = {} /\ cursor = 0
    /\ stage = [p \in Procs |-> "idle"]
    /\ since = [p \in Procs |-> 0]
    /\ batch = [p \in Procs |-> {}]
    /\ offset = [p \in Procs |-> 0]
    /\ walk = [p \in Procs |-> "idle"]
    /\ at = [p \in Procs |-> 0]
    /\ vouch = [p \in Procs |-> {}]
    /\ owes = [p \in Procs |-> {}]
    /\ skipped = {} /\ owed = {}
    /\ walks = 0 /\ faults = 0

Fault == faults < Faults /\ faults' = faults + 1

-----------------------------------------------------------------------------
(* The listing *)

Tick == /\ now < MaxTime
        /\ now' = now + 1
        /\ UNCHANGED <<published, open, known, rows, cursor, skipped, pull, walker, walks, faults>>

\* A trade shows up at its place in the order, which need not be the top.
Publish(t) ==
    /\ t \notin published /\ At[t] <= now
    /\ published' = published \cup {t}
    /\ skipped' = IF At[t] <= cursor THEN skipped \cup {t} ELSE skipped
    /\ UNCHANGED <<now, open, known, rows, cursor, pull, walker, walks, faults>>

\* The market closes or passes its end date: no further tick pulls it.
Close == /\ open /\ open' = FALSE
         /\ UNCHANGED <<now, published, known, rows, cursor, skipped, pull, walker, walks, faults>>

Capped(next) == next > MaxOffset

Rank(t) == Cardinality({u \in published : u > t})

Page(from, size) == {t \in published : from <= Rank(t) /\ Rank(t) < from + size}

\* The page from that offset is empty or not full: nothing follows it.
Short(from, size) == Cardinality(published) < from + size

-----------------------------------------------------------------------------
(* The table *)

DedupKey(t) == IF Ext[t] # None THEN <<"ext", Ext[t]>> ELSE <<"sha", At[t], Fill[t]>>

Stored(t) == \E r \in rows : DedupKey(r) = DedupKey(t)

Taken(t) == Stored(t)

\* Every trade of the batch has a row afterwards, its own or its namesake's.
UpsertBatch(S) ==
    \E W \in SUBSET {t \in S : ~Taken(t)} :
        /\ \A t, u \in W : DedupKey(t) = DedupKey(u) => t = u
        /\ rows' = rows \cup W
        /\ \A t \in S : Stored(t)'

-----------------------------------------------------------------------------
(* collect.Loop *)

Discover == /\ ~known /\ known' = TRUE
            /\ UNCHANGED <<upstream, rows, cursor, skipped, pull, walker, walks, faults>>

\* The column, which backfill never touches.
NewestRow == IF rows = {} THEN 0 ELSE CHOOSE s \in {At[r] : r \in rows} : \A r \in rows : At[r] <= s
Cursor == cursor

Resume == Cursor + 1

StartPull(p) ==
    /\ stage[p] = "idle" /\ open
    /\ stage' = [stage EXCEPT ![p] = "fetch"]
    /\ batch' = [batch EXCEPT ![p] = {}]
    /\ offset' = [offset EXCEPT ![p] = 0]
    /\ \/ /\ Cursor # 0
          /\ since' = [since EXCEPT ![p] = Resume]
          /\ vouch' = [vouch EXCEPT ![p] = published]
          /\ UNCHANGED faults
       \/ /\ since' = [since EXCEPT ![p] = now - Lookback]
          /\ vouch' = [vouch EXCEPT ![p] = {t \in published : At[t] >= now - Lookback}]
          /\ \/ Cursor = 0 /\ UNCHANGED faults
             \/ Cursor # 0 /\ Fault
    /\ UNCHANGED <<upstream, known, rows, cursor, skipped, walker, walks>>

\* Back to the ticker: what the goroutine held is gone.
EndPull(p) ==
    /\ stage' = [stage EXCEPT ![p] = "idle"]
    /\ since' = [since EXCEPT ![p] = 0]
    /\ batch' = [batch EXCEPT ![p] = {}]
    /\ offset' = [offset EXCEPT ![p] = 0]
    /\ vouch' = [vouch EXCEPT ![p] = {}]

\* One page of ListTradesSince; past the last offset the reading just stops.
FetchPage(p) ==
    LET page == Page(offset[p], PageSize)
        new  == {t \in page : At[t] >= since[p]}
        next == offset[p] + PageSize
        last == new # page \/ Short(offset[p], PageSize)
        read == batch[p] \cup new
    IN  /\ stage[p] = "fetch"
        /\ \/ /\ (last \/ Capped(next)) /\ read = {}
              /\ EndPull(p)
           \/ /\ (last \/ Capped(next)) => read # {}
              /\ stage' = [stage EXCEPT ![p] = IF last \/ Capped(next) THEN "persist" ELSE @]
              /\ batch' = [batch EXCEPT ![p] = read]
              /\ offset' = [offset EXCEPT ![p] = next]
              /\ vouch' = [vouch EXCEPT ![p] =
                              IF last \/ ~Capped(next) THEN @ ELSE {t \in @ : Rank(t) < next}]
              /\ UNCHANGED since
        /\ UNCHANGED <<upstream, known, rows, cursor, skipped, walker, walks, faults>>

Persist(p) ==
    /\ stage[p] = "persist" /\ known
    /\ UpsertBatch(batch[p])
    /\ stage' = [stage EXCEPT ![p] = "cursor"]
    /\ UNCHANGED <<upstream, known, cursor, skipped, since, batch, offset, vouch, walker, walks, faults>>

\* No row for the market yet: the batch is dropped without an error.
NotPersisted(p) ==
    /\ stage[p] = "persist" /\ ~known
    /\ EndPull(p)
    /\ UNCHANGED <<upstream, known, rows, cursor, skipped, walker, walks, faults>>

\* Oldest first; within a second the order of the listing is kept.
Before(t, u) == At[t] < At[u] \/ (At[t] = At[u] /\ t > u)

PersistFails(p) ==
    /\ stage[p] = "persist" /\ known /\ Fault
    /\ \E S \in SUBSET batch[p] :
          /\ \A t \in batch[p], u \in S : Before(t, u) => t \in S
          /\ UpsertBatch(S)
    /\ EndPull(p)
    /\ UNCHANGED <<upstream, known, cursor, skipped, walker, walks>>

Passed(p, t) == \E u \in batch[p] : At[t] <= At[u]

\* PersistTrades writes the rows first.
CursorFirst(p) == stage[p] \in {"persist", "cursor"}
RowsFirst(p) == stage[p] = "cursor"

\* UpdateMarketCollectCursor only ever moves forward.
AdvanceCursor(p) ==
    /\ RowsFirst(p)
    /\ \E u \in batch[p] :
          /\ \A t \in batch[p] : At[t] <= At[u]
          /\ cursor' = IF At[u] > cursor THEN At[u] ELSE cursor
    /\ skipped' = skipped \cup {t \in published \ vouch[p] : cursor < At[t] /\ Passed(p, t)}
    /\ EndPull(p)
    /\ UNCHANGED <<upstream, known, rows, walker, walks, faults>>

\* A request or the cursor's statement fails; the next tick starts over.
PullFails(p) ==
    /\ stage[p] \in {"fetch", "cursor"} /\ Fault
    /\ EndPull(p)
    /\ UNCHANGED <<upstream, known, rows, cursor, skipped, walker, walks>>

Pull(p) == StartPull(p) \/ FetchPage(p) \/ Persist(p) \/ NotPersisted(p)
           \/ PersistFails(p) \/ AdvanceCursor(p) \/ PullFails(p)

-----------------------------------------------------------------------------
(* backfill.Worker *)

BeginWalk(p) ==
    /\ walk[p] = "idle" /\ known /\ walks < Walks
    /\ walks' = walks + 1
    /\ walk' = [walk EXCEPT ![p] = "page"]
    /\ at' = [at EXCEPT ![p] = 0]
    /\ owes' = [owes EXCEPT ![p] = published]
    /\ UNCHANGED <<upstream, known, rows, cursor, skipped, pull, owed, faults>>

EndWalk(p) ==
    /\ walk' = [walk EXCEPT ![p] = "idle"]
    /\ at' = [at EXCEPT ![p] = 0]
    /\ owes' = [owes EXCEPT ![p] = {}]

Exhausted(from) == Short(from, WalkSize)

\* What a walk may claim that stopped at the cap.
ClaimsAll(p, next) == owes[p]
Reached(p, next) == {t \in owes[p] : Rank(t) < next}

\* One page of runPages: a page that is not full ends the walk as completed,
\* an offset past the cap ends it as partial_api_limit.
WalkPage(p) ==
    LET next == at[p] + WalkSize
    IN  /\ walk[p] = "page"
        /\ UpsertBatch(Page(at[p], WalkSize))
        /\ \/ /\ Exhausted(at[p])
              /\ EndWalk(p)
              /\ owed' = owed \cup owes[p]
           \/ /\ ~Exhausted(at[p]) /\ Capped(next)
              /\ EndWalk(p)
              /\ owed' = owed \cup Reached(p, next)
           \/ /\ ~Exhausted(at[p]) /\ ~Capped(next)
              /\ at' = [at EXCEPT ![p] = next]
              /\ UNCHANGED <<walk, owes, owed>>
        /\ UNCHANGED <<upstream, known, cursor, skipped, pull, walks, faults>>

\* The request or a statement fails, with the newest of the page stored.
WalkFails(p) ==
    /\ walk[p] = "page" /\ Fault
    /\ \E S \in SUBSET Page(at[p], WalkSize) :
          /\ \A t \in Page(at[p], WalkSize), u \in S : t > u => t \in S
          /\ UpsertBatch(S)
    /\ EndWalk(p)
    /\ UNCHANGED <<upstream, known, cursor, skipped, pull, owed, walks>>

Walk(p) == BeginWalk(p) \/ WalkPage(p) \/ WalkFails(p)

\* The process is killed and comes back; a batch being written is cut short
\* by PersistFails and WalkFails already.
Crash(p) ==
    /\ Fault
    /\ EndPull(p) /\ EndWalk(p)
    /\ UNCHANGED <<upstream, known, rows, cursor, skipped, owed, walks>>

Next ==
    \/ Tick \/ Close \/ Discover
    \/ \E t \in Trades : Publish(t)
    \/ \E p \in Procs : Pull(p) \/ Walk(p) \/ Crash(p)

Spec == Init /\ [][Next]_vars

\* Ticker loops and synchronous calls: whatever a pull can do next, it does.
FairSpec == /\ Spec /\ WF_vars(Discover)
            /\ \A p \in Procs : WF_vars(Pull(p)) /\ WF_vars(WalkPage(p))

-----------------------------------------------------------------------------
(* Properties *)

TableOK == /\ now \in Nat /\ published \subseteq Trades /\ open \in BOOLEAN
           /\ known \in BOOLEAN /\ rows \subseteq published /\ cursor \in Nat
           /\ walks \in 0 .. Walks /\ faults \in 0 .. Faults

PullOK == /\ stage \in [Procs -> {"idle", "fetch", "persist", "cursor"}]
          /\ since \in [Procs -> Int]
          /\ batch \in [Procs -> SUBSET published]
          /\ offset \in [Procs -> Nat]
          /\ vouch \in [Procs -> SUBSET published]
          /\ \A p \in Procs : stage[p] = "fetch" => offset[p] <= MaxOffset

WalkOK == /\ walk \in [Procs -> {"idle", "page"}]
          /\ at \in [Procs -> Nat]
          /\ owes \in [Procs -> SUBSET published]
          /\ \A p \in Procs : at[p] <= MaxOffset
          /\ owed \subseteq published /\ skipped \subseteq published

\* Well-typed; only listed trades are read or stored, and no request goes past
\* the offset cap.
TypeOK == TableOK /\ PullOK /\ WalkOK

\* The unique index, seen through batches of two loops and two processes: no
\* key has two rows, however often pages overlap or a pull is repeated.
OneRowPerKey == \A r, s \in rows : DedupKey(r) = DedupKey(s) => r = s

\* A trade the cursor has passed is stored, unless it was not in the listing,
\* or not within reach of the reading, when the pull that passed it set out:
\* failing between the rows and the cursor, or in the middle of the rows, or
\* on a page, loses nothing (collect.pull, persist.PersistTrades).
CursorCovers == \A t \in published \ skipped : At[t] <= cursor => Stored(t)

\* A walk that ends as completed has stored what was listed when it began,
\* one that ends as partial_api_limit all of it that is still within reach of
\* the cap: new trades shift pages under the walk and open no gap in it.
WalkKeeps == \A t \in owed : Stored(t)

\* What a pull set out to read is behind the cursor, read, or still ahead.
Vouches(p, t) == \/ At[t] <= cursor
                 \/ t \in batch[p]
                 \/ stage[p] = "fetch" /\ offset[p] <= Rank(t) /\ At[t] >= since[p]

Vouched == \A p \in Procs : \A t \in vouch[p] : Vouches(p, t)

\* The cursor's statement is only reached with the whole batch stored.
Landed == \A p \in Procs : stage[p] = "cursor" => \A t \in batch[p] : Stored(t)

\* What a walk set out to read is stored or still ahead of it.
Owing == \A p \in Procs : \A t \in owes[p] : Stored(t) \/ at[p] <= Rank(t)

\* The inductive invariant: the three promises with what pulls and walks hold.
IInv == TypeOK /\ OneRowPerKey /\ Vouched /\ Landed /\ CursorCovers /\ Owing /\ WalkKeeps

\* Before the first cursor a pull looks back a bounded time.
Unreached(t) == cursor = 0 /\ At[t] < now - Lookback

\* A listed trade is stored in the end, if the market goes on trading, unless
\* the cursor skipped it or it was too old before the first cursor was set.
TradesLand == \A t \in Trades :
    (t \in published) ~> (Stored(t) \/ t \in skipped \/ Unreached(t) \/ ~open)
=============================================================================
