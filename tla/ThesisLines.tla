----------------------------- MODULE ThesisLines -----------------------------
(***************************************************************************)
(* The links of an event's markets and the lines of a wallet in them, and  *)
(* the thesisaccum strategy that asks for both.                            *)
(*                                                                         *)
(* usecase/marketlinks with the adapters of strategy_phase_c.go: every     *)
(* event with two live markets or more becomes a star around its first     *)
(* market.  Links are upserted one by one, a failed upsert is skipped and  *)
(* nothing is ever deleted: when the first market leaves, a new star is    *)
(* written beside the old one.                                             *)
(*                                                                         *)
(* usecase/thesislines: the worker sums what a wallet traded per market    *)
(* and side within its lookback, at least two trades each, and upserts the *)
(* sums; a line whose trades have left the lookback is neither lowered nor *)
(* removed.  The hook asks for the links of the event and then for the     *)
(* wallet's lines in it.                                                   *)
(*                                                                         *)
(* The configuration ties the lookback of the worker to the hook's         *)
(* (validateInvariants), so the key's lookback_hours is always the same.   *)
(***************************************************************************)
EXTENDS StagedInputs

CONSTANTS
    LinkBatch,       \* MARKETLINKS_BATCH_SIZE: events per tick
    MinLinkPercent,  \* MARKETLINKS_MIN_CONFIDENCE, in percent
    Backers,        \* wallet addresses
    LineLookback,   \* THESIS_LINES_LOOKBACK, in units
    LineBatch,      \* THESIS_LINES_MAX_WALLETS
    MinBreadth,      \* THESIS_ACCUM_MIN_BREADTH
    MinConsistency, \* THESIS_ACCUM_MIN_CONSISTENCY, in percent
    LiquidityFloor  \* THESIS_ACCUM_LIQUIDITY_FLOOR_USD

ASSUME ThesisAssumption ==
    /\ LineLookback \in Nat /\ LineBatch \in Nat
    /\ MinBreadth \in Nat /\ MinConsistency \in Nat /\ LiquidityFloor \in Nat

-----------------------------------------------------------------------------
(* The links *)

VARIABLE links   \* polymarket_market_links of the current version

LinksInit == links = {}

HintPercent == 60   \* every hint of the adapter carries confidence 0.6

LiveOf(ev) == {m \in live : EventOf[m] = ev}

\* The events with markets to link.
LinkableEvents == {ev \in {EventOf[m] : m \in live} : Cardinality(LiveOf(ev)) >= 2}

\* The hints of one event: its first market is the source, the others are
\* targets, all of them of an unknown direction.
Star(ev) == {[src |-> Min(LiveOf(ev)), dst |-> m, event |-> ev] :
                 m \in LiveOf(ev) \ {Min(LiveOf(ev))}}

\* What the builder lets through.
Linkable(evs) == IF HintPercent < MinLinkPercent THEN {} ELSE UNION {Star(ev) : ev \in evs}

\* A link that is there already is written over by itself.
LinksWith(written) == links \cup written

\* One tick: a batch of events (the last updated ones, which the model
\* leaves open), and of their links those whose upsert succeeds.
BuildLinks ==
    /\ \E evs \in SUBSET LinkableEvents :
           /\ Cardinality(evs) = IF Cardinality(LinkableEvents) < LinkBatch
                                 THEN Cardinality(LinkableEvents) ELSE LinkBatch
           /\ \E written \in SUBSET Linkable(evs) : links' = LinksWith(written)
    /\ Background

LinksOf(ev) == {l \in links : l.event = ev}

MarketLinksByEvent(ev) == Reads(<<"ml", ev>>, LinksOf(ev), {})

\* The markets linked from an anchor.
PeersOf(anchor) == {l.dst : l \in {l \in links : l.src = anchor}}

-----------------------------------------------------------------------------
(* The lines *)

VARIABLE lines   \* polymarket_wallet_thesis_lines

LinesInit == lines = {}

TradeSides == {"BUY", "SELL"}

\* The trades of one group, as positions in the tape.
GroupOf(w, m, s) ==
    {i \in DOMAIN tape : tape[i].wallet = w /\ tape[i].market = m /\ tape[i].side = s}

InLookback(group) == {i \in group : tape[i].age <= LineLookback}

Usd(group) == Total([i \in group |-> tape[i].usd], group)

\* The groups with two trades or more in the lookback, each with its sum and
\* its newest trade.
Groups ==
    {[wallet |-> k[1], market |-> k[2], side |-> k[3],
      usd |-> Usd(InLookback(GroupOf(k[1], k[2], k[3]))),
      newest |-> Max(InLookback(GroupOf(k[1], k[2], k[3])))] :
         k \in {k \in Backers \X Markets \X TradeSides :
                    Cardinality(InLookback(GroupOf(k[1], k[2], k[3]))) >= 2}}

\* The batch: the groups traded last.
Aggregates ==
    {g \in Groups : Cardinality({h \in Groups : h.newest > g.newest}) < LineBatch}

Line(g) == [wallet |-> g.wallet, market |-> g.market, side |-> g.side, usd |-> g.usd]

SameLine(l, g) == l.wallet = g.wallet /\ l.market = g.market /\ l.side = g.side

\* Mutant: a sum is added to the one before.
LinesAdding(written) ==
    {l \in lines : \A g \in written : ~SameLine(l, g)}
    \cup {[Line(g) EXCEPT !.usd = @ + MapThenSumSet(LAMBDA l : l.usd,
                                         {l \in lines : SameLine(l, g)})] : g \in written}

\* A sum takes the place of the one before.
LinesWith(written) ==
    {l \in lines : \A g \in written : ~SameLine(l, g)} \cup {Line(g) : g \in written}

\* One tick of the worker; a failed upsert is passed over.
MaterialiseLines ==
    /\ \E written \in SUBSET Aggregates : lines' = LinesWith(written)
    /\ Background
    /\ UNCHANGED links

LinesOf(ev, w) == {l \in lines : EventOf[l.market] = ev /\ l.wallet = w}

WalletThesisLinesForEvent(ev, w) == Reads(<<"wtl", ev, w>>, LinesOf(ev, w), {})

\* thesisaccum's level for an alert of side s: how much of the wallet's money
\* in the event's markets lies on the side of the alert.
ThesisLevel(known, s) ==
    LET usd == [l \in known |-> l.usd]
        aligned == Total(usd, {l \in known : l.side = s})
        all == Total(usd, known)
        Consistent(percent) == aligned * 100 >= percent * all
    IN  IF Cardinality(known) < MinBreadth \/ ~Consistent(MinConsistency)
           \/ aligned < LiquidityFloor
        THEN "none"
        ELSE IF Cardinality(known) >= 3 /\ Consistent(88) /\ aligned >= 3 * LiquidityFloor
             THEN "warning" ELSE "info"

\* The hook asks about an alert of wallet w on market m and side s.
AskThesis(w, m, s) ==
    LET ev == EventOf[m] IN
    /\ \E r \in MarketLinksByEvent(ev) :
           \/ /\ r.rows = {}
              /\ Concludes(r, Verdict("thesisaccum", FALSE, r.failed, <<w, ev, s>>))
           \/ /\ r.rows # {}
              /\ \E q \in WalletThesisLinesForEvent(ev, w) :
                     Concludes([q EXCEPT !.cache = CacheOfBoth(r, q)],
                               Verdict("thesisaccum",
                                       q.rows # {} /\ ThesisLevel(q.rows, s) # "none",
                                       q.failed, <<w, ev, s>>))
    /\ UNCHANGED <<links, lines>>

LinesElapse == FrameMoves /\ FrameElapses /\ UNCHANGED <<links, lines>>

LinesNext ==
    \/ \E t \in Prints["thesis"] : Traded(t) /\ UNCHANGED <<links, lines>>
    \/ BuildLinks /\ UNCHANGED lines
    \/ MaterialiseLines
    \/ \E t \in Prints["thesis"] : AskThesis(t.wallet, t.market, t.side)
    \/ LinesElapse

(***************************************************************************)
(* Properties                                                              *)
(***************************************************************************)

\* A thesis that fires stands on money the wallet really put in: on the
\* alert's side of the event at least the liquidity floor, in lines of two
\* trades or more, however often the worker summed the same trades up,
\* whichever upserts failed and however old the answers were.
ThesisWasTraded ==
    (row # NoRow /\ row.by = "thesisaccum" /\ row.fired) =>
        LET mine == {i \in DOMAIN tape : /\ tape[i].wallet = row.on[1]
                                         /\ EventOf[tape[i].market] = row.on[2]}
            groups == {<<tape[i].market, tape[i].side>> : i \in mine}
        IN  /\ Usd({i \in mine : tape[i].side = row.on[3]}) >= LiquidityFloor
            /\ Cardinality({g \in groups :
                   Cardinality(GroupOf(row.on[1], g[1], g[2])) >= 2}) >= MinBreadth

=============================================================================
