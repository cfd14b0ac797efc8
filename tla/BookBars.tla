------------------------------- MODULE BookBars -------------------------------
(***************************************************************************)
(* usecase/bookbars with the CLOB client and the bookvacuum strategy, for  *)
(* one token.  A tick fetches the book and upserts the bar of the current  *)
(* bar start: best prices, mid, spread and the depth of the first levels.  *)
(* The sink stores no depth change and no z-score of the spread, and the   *)
(* imbalance of the book where the change of the mid belongs.  The hook    *)
(* takes the newest bar, if it is fresh, and the detector looks for a      *)
(* change of its depth.                                                    *)
(***************************************************************************)
EXTENDS StagedInputs

CONSTANTS
    Depths,          \* the depths a side of the book may have
    BarMaxAge,       \* BOOK_VACUUM_MAX_AGE_BAR, in units of one bar
    BarLookback,     \* how far the hook looks back: ten times BarMaxAge
    MinCollapse,     \* BOOK_VACUUM_MIN_COLLAPSE_PCT, in percent
    MinMidShift      \* BOOK_VACUUM_MIN_MID_SHIFT_PCT, in percent

ASSUME BarsAssumption == Depths \subseteq Nat /\ BarLookback \in Nat /\ MinCollapse \in Nat \ {0}

VARIABLES
    book,   \* the depth on both sides of the exchange's book
    bars    \* polymarket_book_feature_bars of the token, newest first

barVars == <<book, bars>>

BarsInit ==
    /\ book \in [bid : Depths, ask : Depths]
    /\ bars = << >>

\* Orders come and go.
BookMoves(b) ==
    /\ b # book
    /\ book' = b
    /\ Background
    /\ UNCHANGED bars

Unset == 0

\* A bar of the book: an empty side has no best price, and then there is no
\* mid; the imbalance is in percent, truncated.
BuildBar ==
    [bid |-> book.bid, ask |-> book.ask,
     mid |-> book.bid > 0 /\ book.ask > 0,
     imbalance |-> IF book.bid + book.ask = 0 THEN 0
                   ELSE ((book.bid - book.ask) * 100) \div (book.bid + book.ask)]

\* What the sink stores of it.
BarRow(bar) ==
    [bid |-> bar.bid, ask |-> bar.ask, mid |-> bar.mid, bidDelta |-> Unset,
     askDelta |-> Unset, spreadZ |-> Unset, midDelta |-> bar.imbalance, age |-> 0]

\* The bar of the same start is written over.
BarsWith(bar) == <<bar>> \o Kept(bars, {i \in DOMAIN bars : bars[i].age > 0})

\* A tick whose fetch and upsert succeed.
BarTick ==
    /\ bars' = BarsWith(BarRow(BuildBar))
    /\ Background
    /\ UNCHANGED book

\* The bars the hook looks back on.
RecentBars == Kept(bars, {i \in DOMAIN bars : bars[i].age <= BarLookback})

RecentBookFeatureBars == Reads(<<"bfb">>, RecentBars, << >>)

\* bookvacuum's verdict on the newest bar.  The baseline, the average of the
\* other bars, is handed to the detector, which does not look at it.
VacuumDetected(bar) ==
    LET ask == -bar.askDelta
        bid == -bar.bidDelta
        gone == {s \in {"ask", "bid"} : \/ (s = "ask" /\ ask >= MinCollapse /\ ask > bid)
                                       \/ (s = "bid" /\ bid >= MinCollapse /\ bid > ask)}
    IN  /\ gone # {}
        /\ \/ bar.spreadZ > 0
           \/ (gone = {"ask"} /\ bar.midDelta > 0)
           \/ (gone = {"bid"} /\ bar.midDelta < 0)
        /\ ~(MinMidShift > 0 /\ bar.mid /\ bar.midDelta \in -MinMidShift + 1 .. MinMidShift - 1)

\* The hook asks about an alert on the token.
AskVacuum ==
    /\ \E r \in RecentBookFeatureBars :
           Concludes(r, Verdict("bookvacuum",
                                /\ Len(r.rows) >= 2
                                /\ r.rows[1].age + r.age <= BarMaxAge
                                /\ VacuumDetected(r.rows[1]),
                                r.failed, r.rows))
    /\ UNCHANGED barVars

\* A bar that is out of every look back is forgotten.
BarsElapse ==
    /\ FrameMoves \/ bars # << >>
    /\ FrameElapses
    /\ bars' = [i \in DOMAIN RecentBars |-> [RecentBars[i] EXCEPT !.age = @ + 1]]
    /\ UNCHANGED book

BarsNext ==
    \/ \E bid, ask \in Depths : BookMoves([bid |-> bid, ask |-> ask])
    \/ BarTick
    \/ AskVacuum
    \/ BarsElapse

(***************************************************************************)
(* Properties                                                              *)
(***************************************************************************)

\* A side of the book has lost MinCollapse percent of its depth since the bar before.
Collapsed(depth, before) == before > 0 /\ 100 * (before - depth) >= MinCollapse * before

\* The head of strategy_phase_f.go: "bookvacuum can now consume real top-N depth".
\* If so, what it is handed of a bar whose depth collapsed says so.  The sink leaves
\* the changes of the depth out.
DepthIsConsumed ==
    (row # NoRow /\ row.by = "bookvacuum" /\ Len(row.on) >= 2) =>
        /\ Collapsed(row.on[1].bid, row.on[2].bid) => row.on[1].bidDelta < 0
        /\ Collapsed(row.on[1].ask, row.on[2].ask) => row.on[1].askDelta < 0

=============================================================================
