----------------------------- MODULE WalletGraph -----------------------------
(***************************************************************************)
(* usecase/walletgraph and the walletcohort strategy.  The worker reads    *)
(* the oldest trades of its window, finds pairs of wallets that bought, or *)
(* sold, in enough events in common, and writes one edge per pair; a pair  *)
(* that qualifies on both sides keeps the edge of the side that comes last *)
(* in its order.  The sink writes edge by edge and stops at the first      *)
(* failure.                                                                *)
(*                                                                         *)
(* The hook hands the detector the edges of the alert's wallet, but never  *)
(* the recent members of the market nor the time the wallet entered, so    *)
(* neither branch of the detector has anything to converge on.             *)
(***************************************************************************)
EXTENDS StagedInputs

CONSTANTS
    Wallets,        \* wallet addresses, in their order: 1, 2, ...
    CoTradeWindow,  \* WALLETGRAPH_CO_TRADE_WINDOW, in units
    MinShared,      \* WALLETGRAPH_MIN_SHARED_EVENTS
    GraphBatch,     \* WALLETGRAPH_BATCH_SIZE
    MinSimilarity,  \* WALLET_COHORT_MIN_SIMILARITY, in percent
    MinEvents,      \* WALLET_COHORT_MIN_EVENTS
    MinCohort,      \* WALLET_COHORT_MIN_COHORT_HITS
    FreshBurst      \* WALLET_COHORT_FRESH_WALLET_MIN_BURST

ASSUME WalletsAssumption == Wallets \subseteq Nat /\ IsFiniteSet(Wallets)
ASSUME CohortAssumption == MinCohort \in Nat \ {0, 1} /\ FreshBurst \in Nat \ {0}

VARIABLE edges   \* polymarket_wallet_graph_edges: one row per pair

Sides == {"BUY", "SELL"}

GraphInit == edges = {}

\* The batch: the oldest rows of the window, as positions in the tape.
CoTradeRows ==
    LET recent == {i \in DOMAIN tape : tape[i].age <= CoTradeWindow}
    IN  {i \in recent : Cardinality({j \in recent : j < i}) < GraphBatch}

\* Mutant: the side is not part of the key.
EventsOnAnySide(rows, w, s) ==
    {EventOf[tape[i].market] : i \in {i \in rows : tape[i].wallet = w}}

\* The events in which a wallet traded on one side.
EventsOn(rows, w, s) ==
    {EventOf[tape[i].market] :
         i \in {i \in rows : tape[i].wallet = w /\ tape[i].side = s}}

\* The pairs of one side that share enough events; `of` is the larger of
\* the two numbers of events, the denominator of the similarity.
PairsOn(rows, s) ==
    {[side |-> s, a |-> p[1], b |-> p[2],
      shared |-> Cardinality(EventsOn(rows, p[1], s) \cap EventsOn(rows, p[2], s)),
      of |-> Max({Cardinality(EventsOn(rows, p[1], s)),
                  Cardinality(EventsOn(rows, p[2], s))})] :
         p \in {p \in Wallets \X Wallets : p[1] < p[2]}}

\* The pairs that qualify for an edge.
CoTradePairs(rows) ==
    IF MinShared < 2 THEN {}
    ELSE {p \in UNION {PairsOn(rows, s) : s \in Sides} : p.shared >= MinShared}

\* The order in which the worker hands them to the sink: every pair of the
\* buyers, then every pair of the sellers.
Sooner(p, q) ==
    \/ p.side = "BUY" /\ q.side = "SELL"
    \/ p.side = q.side /\ p.a < q.a
    \/ p.side = q.side /\ p.a = q.a /\ p.b < q.b

\* The row of an edge: the side is not part of it.
EdgeRow(p) == [a |-> p.a, b |-> p.b, shared |-> p.shared, of |-> p.of]

\* The table after the upserts of `done`: of two sides of a pair the later
\* one stands.
Upserted(done) ==
    LET SamePair(e, f) == e.a = f.a /\ e.b = f.b
    IN  {e \in edges : \A p \in done : ~SamePair(e, p)}
        \cup {EdgeRow(p) : p \in {p \in done : \A q \in done : SamePair(p, q) => ~Sooner(p, q)}}

\* One tick of the worker; the first failing upsert ends it.
BuildGraph ==
    LET pairs == CoTradePairs(CoTradeRows)
    IN  /\ \E done \in SUBSET pairs :
               /\ \A p \in done, q \in pairs : Sooner(q, p) => q \in done
               /\ edges' = Upserted(done)
        /\ Background

\* The edges a wallet has a part in.
EdgesOf(w) == {e \in edges : w \in {e.a, e.b}}

WalletEdgesForWallet(w) == Reads(<<"we", w>>, EdgesOf(w), {})

\* walletcohort's verdict on an alert of wallet w and side s: peers by their
\* edges that trade the same side now, or enough fresh wallets that do.
CohortConverges(w, s, known, members, fresh, entered) ==
    LET peers == {e \in known : e.shared * 100 >= MinSimilarity * e.of
                                /\ e.shared >= MinEvents}
        Beside(x) == x.wallet # w /\ x.side = s
        joined == {x \in members : Beside(x) /\ \E e \in peers : x.wallet \in {e.a, e.b}}
        burst == Cardinality({x \in members : Beside(x) /\ x.wallet \in fresh})
                 + (IF entered THEN 1 ELSE 0)
    IN  \/ peers # {} /\ Cardinality(joined) + 1 >= MinCohort
        \/ burst >= FreshBurst

\* The hook asks about an alert of wallet w: no members, no entry time.
AskCohort(w, s) ==
    /\ \E r \in WalletEdgesForWallet(w) :
           Concludes(r, Verdict("walletcohort",
                                ~r.failed /\ CohortConverges(w, s, r.rows, {}, {}, FALSE),
                                r.failed, [wallet |-> w, side |-> s]))
    /\ UNCHANGED edges

GraphElapses == FrameMoves /\ FrameElapses /\ UNCHANGED edges

GraphNext ==
    \/ \E t \in Prints["cohort"] : Traded(t) /\ UNCHANGED edges
    \/ BuildGraph
    \/ \E t \in Prints["cohort"] : AskCohort(t.wallet, t.side)
    \/ GraphElapses

(***************************************************************************)
(* Properties                                                              *)
(***************************************************************************)

\* An edge says what two wallets did together: at least MinShared events,
\* and as many as it counts, in which both really traded on one and the
\* same side, whatever the batch, the order of the sides and the upserts
\* that failed made of the table.
EdgeIsShared ==
    \A e \in edges :
        /\ e.shared >= MinShared
        /\ \E s \in Sides :
               e.shared <= Cardinality(
                   {EventOf[tape[i].market] : i \in {i \in DOMAIN tape :
                        tape[i].wallet = e.a /\ tape[i].side = s}}
                   \cap
                   {EventOf[tape[i].market] : i \in {i \in DOMAIN tape :
                        tape[i].wallet = e.b /\ tape[i].side = s}})

\* The wallets that trade side s of market m now.
Converging(m, s) == {tape[i].wallet : i \in {i \in DOMAIN tape : /\ tape[i].market = m /\ tape[i].side = s
                                                                 /\ tape[i].age = 0}}

\* A wallet that was never seen before now.
FreshWallet(w) == \A i \in DOMAIN tape : tape[i].wallet = w => tape[i].age = 0

\* The comment of WalletCohortConfig: when FreshBurst fresh wallets "converge
\* same-side on the same condition", "the booster fires even when the historical
\* co-trade edge density is weak".  So it does for an alert of one of them, whichever
\* of its trades the alert is about.  The hook hands the detector no members.
BurstFires ==
    (row # NoRow /\ row.by = "walletcohort" /\ ~row.failed) =>
        LET mine == {m \in Markets : row.on.wallet \in Converging(m, row.on.side)} IN
        (/\ mine # {}
         /\ \A m \in mine :
               Cardinality({w \in Converging(m, row.on.side) : FreshWallet(w)}) >= FreshBurst)
            => row.fired

=============================================================================
