--------------------------- MODULE MarketSelection ---------------------------
(***************************************************************************)
(* Which markets are watched: the websocket's subscription set             *)
(* (realtime.PostgresSelector, ws.resolveSubscribeTokens) and the polled   *)
(* ones of the book and holder workers (workerbudget.Selector).  Both read *)
(* the same tables: alerts, catalysts, annotations, signals, links, the    *)
(* markets' rows and their event-page snapshots.                           *)
(*                                                                         *)
(* The stream ranks every market by its best bucket, takes the first       *)
(* MaxSubscribed, and only then looks for a snapshot with its tokens: one  *)
(* without a fresh one takes its place for nothing.  The pollers take so   *)
(* many of every bucket, whichever the database hands out first where the  *)
(* query names no order, and a market of two buckets counts in both before *)
(* it is put into the better one.                                          *)
(***************************************************************************)
EXTENDS StagedInputs

CONSTANTS
    Pins,           \* WORKER_OPERATOR_PINNED_CONDITION_IDS
    TokensOf,       \* market -> the tokens of its outcomes; "" for a missing one
    LinkedTo,       \* market -> the markets a link joins it to
    Liquidity,      \* market -> its liquidity
    LastSeen,       \* market -> when the feed last listed it
    MaxSubscribed,  \* WS_MAX_MARKETS
    TokenCap,       \* WS_MAX_TOKENS_HARD_CAP
    IncludeBusy,    \* WS_INCLUDE_HIGH_TRADE_MARKETS
    Budget,         \* bucket 1 .. 6 -> WORKER_BUDGET_*
    MaxPolled,      \* BOOK_FEATURE_BARS_MAX_MARKETS, for the query without buckets
    MaxNotes        \* bound: how much is recorded at once

Pinned == 1
Fallback == 6

\* Of a market: an alert, a repricing signal, many trades, all of the last
\* hours; a fresh active snapshot of its page; closed or inactive.
MarketMarks == {"alert", "signal", "busy", "page", "over"}
\* Of an event: a catalyst that counts, within 72 hours or later; a note of
\* the last week.
EventMarks == {"soon", "later", "note"}

VARIABLES
    marks,   \* what the tables say of the markets: pairs of a market and a mark
    notes    \* and of the events

selectionVars == <<marks, notes>>

Watchable == Listed["watch"]

SelectionInit == marks = {} /\ notes = {}

Is(m, mark) == <<m, mark>> \in marks \/ <<EventOf[m], mark>> \in notes

\* The sets a LIMIT may leave of `rows`, none of which is passed over for one
\* that comes after it.
LimitedTo(n, rows, After(_, _)) ==
    {top \in SUBSET rows :
        /\ Cardinality(top) = (IF Cardinality(rows) < n THEN Cardinality(rows) ELSE n)
        /\ \A a \in top, b \in rows \ top : ~After(a, b)}

AnyOrder(a, b) == FALSE

-----------------------------------------------------------------------------
(* The stream *)

\* buildSelectorSQL: the buckets a market is in; only the sixth asks whether
\* the market is still there.
HotBuckets(m) ==
    {b \in 1 .. 6 :
        \/ b = Pinned /\ m \in Pins
        \/ b = 2 /\ Is(m, "alert")
        \/ b = 3 /\ (Is(m, "soon") \/ Is(m, "later"))
        \/ b = 4 /\ Is(m, "signal")
        \/ b = 5 /\ Is(m, "note")
        \/ b = 6 /\ IncludeBusy /\ Is(m, "busy") /\ m \in live /\ ~Is(m, "over")}

HotBucket(m) == CHOOSE b \in HotBuckets(m) : \A c \in HotBuckets(m) : b <= c

\* Mutant: the newest market first, whatever its bucket.
HotAfterById(a, b) == a < b

\* Best bucket first, and in one bucket by condition id.
HotAfter(a, b) == HotBucket(a) > HotBucket(b) \/ (HotBucket(a) = HotBucket(b) /\ a > b)

Hot == {m \in Watchable : HotBuckets(m) # {}}

\* The markets that may be ranked: recent alerts alone in `alerts` mode.
Ranked(mode) ==
    IF mode = "alerts"
    THEN LimitedTo(MaxSubscribed, {m \in Watchable : Is(m, "alert")}, AnyOrder)
    ELSE LimitedTo(MaxSubscribed, Hot, HotAfter)

\* PostgresSelector.Select: a subscription with every token of the market.
Subscription(ranked) ==
    {[market |-> m, tokens |-> TokensOf[m] \ {""}] :
        m \in {m \in ranked : Is(m, "page") /\ TokensOf[m] # {""}}}

AllTokens(subs) == UNION {s.tokens : s \in subs}

\* resolveSubscribeTokens: all of them, or none and an error.
Resolved(subs) == IF Cardinality(AllTokens(subs)) > TokenCap THEN {} ELSE AllTokens(subs)

\* The worker selects and the client subscribes.  A failed query gives an
\* empty set.
Subscribe ==
    /\ \E mode \in {"hot", "alerts"}, failed \in BOOLEAN : \E ranked \in Ranked(mode) :
           LET subs == IF failed THEN {} ELSE Subscription(ranked)
           IN  row' = Verdict("stream", Resolved(subs) # {}, failed,
                              [mode |-> mode, subs |-> subs, tokens |-> Resolved(subs)])
    /\ UNCHANGED <<lane, live, tape, cache, selectionVars>>

-----------------------------------------------------------------------------
(* The pollers *)

Alerted == {m \in Watchable : Is(m, "alert")}
Open == {m \in Watchable \cap live : ~Is(m, "over")}

\* ListBucketedMarketTokens, one CTE each.  A link is followed whether or not
\* the market at its other end is still there.
InBucket(b) ==
    CASE b = 1 -> Pins \cap Watchable \cap live
      [] b = 2 -> Alerted \cap live
      [] b = 3 -> {m \in Watchable \cap live : Is(m, "soon")}
      [] b = 4 -> {m \in Watchable : LinkedTo[m] \cap Alerted # {}}
      [] b = 5 -> {m \in Watchable \cap live : Is(m, "page")}
      [] b = 6 -> Open

BucketAfter(b) ==
    CASE b = 5 -> [a, c \in Watchable |-> Liquidity[a] < Liquidity[c]]
      [] b = 6 -> [a, c \in Watchable |-> LastSeen[a] < LastSeen[c]]
      [] OTHER -> [a, c \in Watchable |-> FALSE]

Chosen(b) == LimitedTo(Budget[b], InBucket(b), LAMBDA a, c : BucketAfter(b)[a, c])

\* What the six together may be.
Picks ==
    {<<p1, p2, p3, p4, p5, p6>> :
        p1 \in Chosen(1), p2 \in Chosen(2), p3 \in Chosen(3),
        p4 \in Chosen(4), p5 \in Chosen(5), p6 \in Chosen(6)}

\* The best bucket a market was taken from.
BestOf(pick, m) == CHOOSE b \in 1 .. Fallback : m \in pick[b] /\ \A c \in 1 .. b - 1 : m \notin pick[c]

\* Selector.Select: a market once, in its best bucket, with all its tokens.
Selected(pick) ==
    {[market |-> m, bucket |-> BestOf(pick, m), tokens |-> TokensOf[m] \ {""}] :
        m \in {m \in UNION {pick[b] : b \in 1 .. Fallback} : TokensOf[m] # {""}}}

\* Budget.AllZero
Bucketed == Pins # {} \/ \E b \in 1 .. Fallback : Budget[b] # 0

\* ListBookbarsCandidates: tokens, not markets, are counted, the last seen
\* market's first.
Unbucketed ==
    LET rows == UNION {{m} \X (TokensOf[m] \ {""}) : m \in Open}
    IN  LimitedTo(MaxPolled, rows, LAMBDA a, b : LastSeen[a[1]] < LastSeen[b[1]])

\* The listers of the book and holder workers ask by buckets, ...
PollBuckets ==
    /\ Bucketed
    /\ \E pick \in Picks :
           row' = Verdict("poller", Selected(pick) # {}, FALSE, [picks |-> Selected(pick)])
    /\ UNCHANGED <<lane, live, tape, cache, selectionVars>>

\* ... and without when there is no budget or that query failed.
PollTokens ==
    /\ \E rows \in Unbucketed : row' = Verdict("poller", rows # {}, TRUE, [rows |-> rows])
    /\ UNCHANGED <<lane, live, tape, cache, selectionVars>>

-----------------------------------------------------------------------------

\* The rest of the program writes, and time takes away.
Toggled(set, x) == IF x \in set THEN set \ {x} ELSE set \cup {x}

Note ==
    /\ \/ \E m \in Watchable, mark \in MarketMarks :
             marks' = Toggled(marks, <<m, mark>>) /\ UNCHANGED notes
       \/ \E m \in Watchable, mark \in EventMarks :
             notes' = Toggled(notes, <<EventOf[m], mark>>) /\ UNCHANGED marks
    /\ Background

\* Bound: how much is recorded at once.
Few == Cardinality(marks') + Cardinality(notes') + Cardinality(Watchable \ live') <= MaxNotes

SelectionNext ==
    \/ Subscribe
    \/ PollBuckets
    \/ PollTokens
    \/ Note /\ Few
    \/ (\E m \in Watchable : Relisted(m) /\ UNCHANGED selectionVars) /\ Few

(***************************************************************************)
(* Properties                                                              *)
(***************************************************************************)

\* The stream is told all tokens of a market or none.  A market that is due
\* and has a snapshot is left out only when the set is refused as a whole, or
\* when so many others that are at least as urgent came before it.
StreamTakesTheUrgent ==
    (row # NoRow /\ row.by = "stream" /\ ~row.failed) =>
        /\ \A s \in row.on.subs : s.tokens \subseteq row.on.tokens \/ row.on.tokens = {}
        /\ row.on.mode = "hot" =>
               \A m \in Hot : (Is(m, "page") /\ TokensOf[m] # {""}) =>
                   \/ \E s \in row.on.subs : s.market = m
                   \/ Cardinality({h \in Hot : HotBucket(h) <= HotBucket(m)} \ {m}) >= MaxSubscribed

\* However many markets the other buckets hold, a pinned market that is there
\* is polled while there is room for pins, one with a recent alert likewise;
\* no market is polled twice; and one that is gone only for a link.
PollKeepsItsPlaces ==
    (row # NoRow /\ row.by = "poller" /\ ~row.failed) =>
        /\ \A b \in {1, 2} : Cardinality(InBucket(b)) <= Budget[b] =>
               \A m \in InBucket(b) : TokensOf[m] # {""} =>
                   \E p \in row.on.picks : p.market = m /\ p.bucket <= b
        /\ \A p, q \in row.on.picks : p.market = q.market => p = q
        /\ \A p \in row.on.picks : p.market \notin live => p.bucket = 4

\* Who should be watched is watched, however much else is going on.
WatchIsFair == StreamTakesTheUrgent /\ PollKeepsItsPlaces

=============================================================================
