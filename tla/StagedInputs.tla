---------------------------- MODULE StagedInputs ----------------------------
(***************************************************************************)
(* The ground on which the shadow strategies stand: the tables their       *)
(* producers fill, the readers through which an alert's hook asks for them *)
(* (usecase/stagedinputs), and the verdict the hook comes to.              *)
(*                                                                         *)
(* A reader answers from a cache when it asked for the same key at most    *)
(* CacheTTL ago, and from the table otherwise.  An empty answer is cached  *)
(* like any other, a failed one is not.  The time since which rows count   *)
(* is not part of the key, so a cached answer still counts from the time   *)
(* of the first question.  An answer is cut at MaxRows rows; the cut is    *)
(* modelled where one key may have that many, and left out where it has a  *)
(* handful.                                                                *)
(*                                                                         *)
(* One behaviour exercises one strategy: `lane` says which.  The tables    *)
(* and the cache keys of two strategies are disjoint, so their behaviours  *)
(* together are those of the hook, one question at a time.                 *)
(*                                                                         *)
(* Time is relative: a stored moment is kept as its age in units, which    *)
(* every Elapse step of a lane moves on together.                          *)
(***************************************************************************)
EXTENDS Integers, Sequences, FiniteSetsExt

CONSTANTS
    Lanes,         \* the strategies a behaviour may exercise
    Markets,       \* condition ids, in the order of their rows: 1, 2, ...
    EventOf,       \* the event slug of every market
    Listed,        \* per lane, the markets it is about
    Prints,        \* per lane, the trades that may come: records [wallet,
                   \*   market, side, usd, price]
    MaxTape,       \* per lane, the bound of how many trades come
    TapeMemory,    \* the age from which on a trade is in no window
    MaxRows,       \* STRATEGY_STAGED_MAX_QUERY_ROWS
    CacheEnabled,  \* STRATEGY_STAGED_INPUTS_CACHE_ENABLED
    CacheTTL       \* how long an answer is served again, in whole units

ASSUME MarketsAssumption == /\ Markets \subseteq Nat /\ IsFiniteSet(Markets)
                            /\ \A l \in Lanes : Listed[l] \subseteq Markets
ASSUME MaxRowsAssumption == MaxRows \in Nat \ {0}
ASSUME CacheAssumption == CacheEnabled \in BOOLEAN /\ CacheTTL \in Nat
ASSUME PrintsAssumption ==
    /\ TapeMemory \in Nat
    /\ \A l \in {"cohort", "thesis", "tail", "lag"} \cap Lanes : \A t \in Prints[l] :
           t.market \in Markets /\ t.usd \in Nat /\ t.price \in Nat

VARIABLES
    lane,      \* the strategy this behaviour is about
    live,      \* the markets that are neither deleted nor purged
    tape,      \* polymarket_trades as the producers read it, oldest first
    cache,     \* reader key -> the answer kept for it and its age
    row        \* what the hook's last question came to

stagedVars == <<lane, live, tape, cache, row>>

NoRow == [by |-> "none"]

\* The verdict of one question: the strategy, whether a row was written for
\* a verdict that fired, whether a reader failed on the way, and on what.
Verdict(by, fired, failed, on) ==
    [by |-> by, fired |-> fired, failed |-> failed, on |-> on]

\* Any table row grows one unit older; `cap` is the age from which on it
\* makes no difference any more.
Older(age, cap) == IF age < cap THEN age + 1 ELSE cap

(***************************************************************************)
(* Lists and sums of rows                                                  *)
(***************************************************************************)

\* The rows of a finite set as a list, none of them behind one that the
\* pairs of `before` put before it; among those in no order, one fixed choice.
InOrder(rows, before) ==
    CHOOSE list \in [1 .. Cardinality(rows) -> rows] :
        \A i, j \in DOMAIN list :
            i < j => list[i] # list[j] /\ <<list[j], list[i]>> \notin before

\* The entries of a list at some of its positions, in the list's order.
Kept(list, positions) ==
    [n \in 1 .. Cardinality(positions) |->
         list[CHOOSE i \in positions : Cardinality({j \in positions : j <= i}) = n]]

\* The sum of the values of some rows.
Total(value, rows) == MapThenSumSet(LAMBDA r : value[r], rows)

(***************************************************************************)
(* The cache.  An entry that has outlived CacheTTL is never served again;  *)
(* the code leaves it in the map, the model forgets it.                    *)
(***************************************************************************)
Entry(value) == [value |-> value, age |-> 0]

CachePut(key, value) ==
    IF CacheEnabled
    THEN [k \in DOMAIN cache \cup {key} |->
              IF k = key THEN Entry(value) ELSE cache[k]]
    ELSE cache

CacheHit(key) == key \in DOMAIN cache

\* Mutant: an entry never expires.
AgedCacheForever == [k \in DOMAIN cache |-> [cache[k] EXCEPT !.age = @ + 1]]

\* A unit later: what is still within CacheTTL stays.
AgedCache ==
    [k \in {k \in DOMAIN cache : cache[k].age < CacheTTL} |->
         [cache[k] EXCEPT !.age = @ + 1]]

\* The answers a reader may give for `key` when the table holds `rows`: the
\* kept one, the table's own (kept from now on), or a failure, which comes
\* with `none`.
Reads(key, rows, none) ==
    IF CacheHit(key)
    THEN {[failed |-> FALSE, rows |-> cache[key].value,
           age |-> cache[key].age, cache |-> cache]}
    ELSE {[failed |-> FALSE, rows |-> rows, age |-> 0,
           cache |-> CachePut(key, rows)],
          [failed |-> TRUE, rows |-> none, age |-> 0, cache |-> cache]}

\* The cache after two questions, each of which kept its own answer.
CacheOfBoth(q, r) ==
    [k \in DOMAIN q.cache \cup DOMAIN r.cache |->
         IF k \in DOMAIN q.cache THEN q.cache[k] ELSE r.cache[k]]

\* The rows of an ordered answer that are handed out.
Limited(list) == SubSeq(list, 1, IF Len(list) < MaxRows THEN Len(list) ELSE MaxRows)

StagedInit ==
    /\ lane \in Lanes
    /\ live = Listed[lane]
    /\ tape = << >>
    /\ cache = << >>
    /\ row = NoRow

\* The collector stores a trade (see TradeIngest).
Traded(t) ==
    /\ Len(tape) < MaxTape[lane]
    /\ tape' = Append(tape, [wallet |-> t.wallet, market |-> t.market,
                             side |-> t.side, usd |-> t.usd,
                             price |-> t.price, age |-> 0])
    /\ row' = NoRow
    /\ UNCHANGED <<lane, live, cache>>

\* A market leaves, or comes back to, the markets the producers list.
Relisted(m) ==
    /\ live' = IF m \in live THEN live \ {m} ELSE live \cup {m}
    /\ row' = NoRow
    /\ UNCHANGED <<lane, tape, cache>>

\* A step of a producer or of the world outside the frame: no verdict.
Background == row' = NoRow /\ UNCHANGED <<lane, live, tape, cache>>

\* The hook's question is answered with `r` and comes to `verdict`.
Concludes(r, verdict) ==
    /\ cache' = r.cache
    /\ row' = verdict
    /\ UNCHANGED <<lane, live, tape>>

\* A unit of time for the frame.
FrameElapses ==
    /\ cache' = AgedCache
    /\ tape' = [i \in DOMAIN tape |->
                    [tape[i] EXCEPT !.age = Older(@, TapeMemory)]]
    /\ row' = NoRow
    /\ UNCHANGED <<lane, live>>

\* Time still makes a difference to the frame.
FrameMoves == DOMAIN cache # {} \/ \E i \in DOMAIN tape : tape[i].age < TapeMemory

=============================================================================
