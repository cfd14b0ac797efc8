--------------------------- MODULE MCStrategyInputs ---------------------------
(***************************************************************************)
(* StrategyInputs with three markets of two events, two wallets and tables *)
(* just large enough for every strategy to meet its interesting cases.     *)
(***************************************************************************)
EXTENDS StrategyInputs

MCMarkets == {1, 2, 3}

\* Markets 1 and 2 belong to one event, market 3 to another.
MCEventOf == <<"e", "e", "f">>

\* A tail needs two markets to queue for a score.
MCListed ==
    [cohort |-> {2, 3}, thesis |-> {1, 2}, tail |-> {2, 3}, lag |-> {1}, holders |-> {1},
     bars |-> {1}, conflict |-> {1}, catalyst |-> {1}, context |-> {1},
     ring |-> {1}, watch |-> {1, 2, 3}]

\* Two wallets in both events, one of them on either side; one wallet with
\* two markets of one event; a market a tail and a lag are looked for in.
MCPrints ==
    [cohort |-> [wallet : {1}, market : {2, 3}, side : {"BUY"}, usd : {1}, price : {50}]
                \cup [wallet : {2}, market : {2, 3}, side : {"BUY", "SELL"},
                      usd : {1}, price : {50}],
     thesis |-> [wallet : {1}, market : {1, 2}, side : {"BUY", "SELL"},
                 usd : {1}, price : {50}],
     tail |-> [wallet : {1}, market : {2}, side : {"BUY"}, usd : {1}, price : {4}],
     lag |-> [wallet : {1}, market : {1}, side : {"BUY"}, usd : {1}, price : {90}]]

\* Three wallets that buy in one market.
MCBurstPrints ==
    [MCPrints EXCEPT !.cohort = [wallet : {1, 2, 3}, market : {2}, side : {"BUY"},
                                 usd : {1}, price : {50}]]

\* Enough trades for one edge, for a line summed twice, for one price.
MCMaxTape == [cohort |-> 4, thesis |-> 4, lag |-> 1]

Runoff == [weight |-> 20, category |-> "procedural"]
Recount == [weight |-> 21, category |-> "procedural"]
Appeal == [weight |-> 15, category |-> "procedural"]

\* Market 1 is ambiguous by its title, market 2 only by its event's rules.
MCTitleOf == <<{Runoff, Recount, Appeal}, {Runoff}, {}>>
MCRulesOf == <<{}, {Recount, Appeal}, {}>>
MCNamedSource == {3}

MCPreOf == [debate |-> 1, court_ruling |-> 2]
MCPostOf == [debate |-> 2, court_ruling |-> 1]

\* Two kinds of one title, another title in two spellings, and what is not
\* well formed: no title, an unknown kind or status, an odd date.
Draft(kind, title, status, due, sure) ==
    [kind |-> kind, title |-> title, status |-> status, due |-> due, sure |-> sure]
MCDrafts ==
    {Draft("debate", "vote", "active", 1, 2), Draft("debate", "vote", "resolved", 0, 1),
     Draft("court_ruling", "vote", "expected", 2, 2), Draft("court_ruling", "Vote", "", 99, 3),
     Draft("poll", "poll", "active", 1, 2), Draft("court_ruling", "poll", "active", -1, 0),
     Draft("sighting", "", "active", 1, 2)}
MCPlainOf == [vote |-> "vote", Vote |-> "vote", poll |-> "poll"]

\* A wallet that trades both ways and one that only buys, a tenth as much.
MCSorts ==
    [wallet : {1}, side : {"BUY", "SELL"}, usd : {4}]
    \cup [wallet : {2}, side : {"BUY"}, usd : {1}]

\* Two trades, a unit apart, make a line; two units of silence make a market
\* quiet and a wallet dormant.
MCMM == [lookback |-> 2, perSide |-> 1, tolerance |-> 30]
MCQuiet == [trades |-> 2, usd |-> 4, idle |-> 2, minUsd |-> 2, multiplier |-> 2]
MCNew == [age |-> 0, trades |-> 1]
MCDormant == [idle |-> 2, minUsd |-> 2]
MCFailures == {{}, Lookups} \cup {{l} : l \in Lookups}

\* The first market is pinned and linked to the others; the second has one
\* token, the others two.
MCTokensOf == <<{"y1", "n1"}, {"y2", ""}, {"y3", "n3"}>>
MCLinkedTo == <<{2, 3}, {1}, {1}>>
MCLiquidity == <<1, 2, 3>>
MCLastSeen == <<2, 1, 1>>
MCBudget == <<1, 1, 1, 1, 1, 1>>

=============================================================================
