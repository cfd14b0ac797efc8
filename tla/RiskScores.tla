------------------------------ MODULE RiskScores ------------------------------
(***************************************************************************)
(* usecase/riskscore, the rulesrisk scorer and the cheaptail strategy.     *)
(* The worker scores markets in batches, the unscored ones first and then  *)
(* the longest unscored.  A row belongs to a market and a score version;   *)
(* after the version is raised the rows of the old one stay active and     *)
(* keep their place in the order, so they come up again and again.  The    *)
(* alert's hook scores the title alone, takes the stored score as well     *)
(* when there is one, and lets a cheap tail fire only below the cutoff.    *)
(***************************************************************************)
EXTENDS StagedInputs, SequencesExt

CONSTANTS
    TitleOf,          \* the markers in the title of every market: records
                      \*   [weight, category]
    RulesOf,          \* those in the event title the worker scores with it
    NamedSource,      \* the markets whose texts name a trusted source
    ScoreBatch,       \* RISKSCORE_BATCH_SIZE
    MaxVersion,       \* bound: up to which version the scorer is redeployed
    AmbiguityCutoff,  \* CHEAPTAIL_AMBIGUITY_CUTOFF, in hundredths
    MinTailTrades,    \* CHEAPTAIL_MIN_TRADES
    RequireCatalyst   \* CHEAPTAIL_REQUIRE_CATALYST

ASSUME ScoresAssumption ==
    /\ ScoreBatch \in Nat \ {0} /\ AmbiguityCutoff \in Int
    /\ \A m \in Markets : /\ IsFiniteSet(TitleOf[m]) /\ IsFiniteSet(RulesOf[m])
                          /\ \A k \in TitleOf[m] \cup RulesOf[m] : k.weight \in Nat

VARIABLES
    scores,    \* polymarket_market_risk_scores, in the order of computed_at
    version,   \* RISKSCORE_VERSION of the running build
    expected   \* the event slugs with an active or expected catalyst

scoreVars == <<scores, version, expected>>

ScoresInit == scores = << >> /\ version = 1 /\ expected = {}

\* rulesrisk's score of a text: the weights of its markers, a bonus for
\* several procedural or wording markers, an offset for a named source.
AmbiguityOf(marks, named) ==
    LET Hits(category) == Cardinality({k \in marks : k.category = category})
        bonus == (CASE Hits("procedural") >= 3 -> 10
                    [] Hits("procedural") = 2 -> 5
                    [] OTHER -> 0)
                 + (IF Hits("wording") >= 3 THEN 5 ELSE 0)
        score == Total([k \in marks |-> k.weight], marks) + bonus
                 - (IF named THEN 5 ELSE 0)
    IN  Max({0, Min({100, score})})

StoredAmbiguity(m) == AmbiguityOf(TitleOf[m] \cup RulesOf[m], m \in NamedSource)

\* Mutant: the longest scored first, the unscored last.
CandidatesScoredFirst ==
    LET scored == {scores[i].market : i \in DOMAIN scores}
        fresh == InOrder(live \ scored, {p \in live \X live : p[1] > p[2]})
        again == Kept([i \in DOMAIN scores |-> scores[i].market],
                      {i \in DOMAIN scores : scores[i].market \in live})
        all == again \o fresh
    IN  SubSeq(all, 1, Min({ScoreBatch, Len(all)}))

\* The candidates of a tick: the live markets without a row, newest first,
\* then one entry per row of a live market, longest computed first.
Candidates ==
    LET scored == {scores[i].market : i \in DOMAIN scores}
        fresh == InOrder(live \ scored, {p \in live \X live : p[1] > p[2]})
        again == Kept([i \in DOMAIN scores |-> scores[i].market],
                      {i \in DOMAIN scores : scores[i].market \in live})
        all == fresh \o again
    IN  SubSeq(all, 1, Min({ScoreBatch, Len(all)}))

\* The row of (market, version) is computed now: it moves to the end of the
\* order and keeps the age of its insertion.
Scored(table, m) ==
    LET mine == {i \in DOMAIN table : table[i].market = m /\ table[i].version = version}
    IN  IF mine = {} THEN Append(table, [market |-> m, version |-> version, age |-> 0])
        ELSE Append(RemoveAt(table, Min(mine)), table[Min(mine)])

\* One tick of the worker; the upserts of the markets in `lost` fail.
ScoreTick(lost) ==
    /\ \E batch \in {Candidates} :
           scores' = FoldLeft(LAMBDA table, m : IF m \in lost THEN table ELSE Scored(table, m),
                              scores, batch)
    /\ Background
    /\ UNCHANGED <<version, expected>>

\* A build with a new score version is deployed.
NewVersion ==
    /\ version < MaxVersion
    /\ version' = version + 1
    /\ Background
    /\ UNCHANGED <<scores, expected>>

\* The importer announces a catalyst of an event, or one passes.
CatalystComesOrGoes(ev) ==
    /\ expected' = IF ev \in expected THEN expected \ {ev} ELSE expected \cup {ev}
    /\ Background
    /\ UNCHANGED <<scores, version>>

\* The active score of a market: its newest row's, or none.
ActiveScore(m) ==
    IF \E i \in DOMAIN scores : scores[i].market = m THEN {StoredAmbiguity(m)} ELSE {}

RiskScoreForCondition(m) == Reads(<<"rs", m>>, ActiveScore(m), {})

\* The catalysts of an event, as far as cheaptail asks: whether there is one.
CatalystsOf(ev) == {ev} \cap expected

CatalystsByEvent(ev) == Reads(<<"c", ev>>, CatalystsOf(ev), {})

\* The score of the alert's own title, when rulesrisk is evaluated.
TitleAmbiguity(m, ruled) ==
    IF ruled THEN AmbiguityOf(TitleOf[m], m \in NamedSource) ELSE 0

\* cheaptail's verdict on one trade that is large enough or not.
TailFires(ambiguity, catalyst, large) ==
    /\ ambiguity < AmbiguityCutoff
    /\ RequireCatalyst => catalyst
    /\ (IF large THEN 1 ELSE 0) >= MinTailTrades

\* The hook asks about a trade in the price band: the title's own score is
\* `ruled` in when rulesrisk is evaluated; a failed read of the catalysts or
\* of the score counts as none.
AskTail(m, ruled, large) ==
    /\ TitleAmbiguity(m, ruled) < AmbiguityCutoff
    /\ \E c \in CatalystsByEvent(EventOf[m]) :
       \E r \in RiskScoreForCondition(m) :
           Concludes([r EXCEPT !.cache = CacheOfBoth(r, c)],
                     Verdict("cheaptail",
                             TailFires(Max({TitleAmbiguity(m, ruled)} \cup r.rows),
                                       c.rows # {}, large),
                             r.failed, m))
    /\ UNCHANGED scoreVars

ScoresElapse ==
    /\ \/ FrameMoves
       \/ \E i \in DOMAIN scores : scores[i].age <= CacheTTL
    /\ FrameElapses
    /\ scores' = [i \in DOMAIN scores |->
                      [scores[i] EXCEPT !.age = Older(@, CacheTTL + 1)]]
    /\ UNCHANGED <<version, expected>>

ScoresNext ==
    \/ \E m \in Listed["tail"] : Relisted(m) /\ UNCHANGED scoreVars
    \/ \E lost \in SUBSET live : ScoreTick(lost)
    \/ NewVersion
    \/ \E t \in Prints["tail"] : CatalystComesOrGoes(EventOf[t.market])
    \/ \E t \in Prints["tail"], ruled, large \in BOOLEAN : AskTail(t.market, ruled, large)
    \/ ScoresElapse

(***************************************************************************)
(* Properties                                                              *)
(***************************************************************************)

\* A cheap tail does not fire on a market whose stored score is at the
\* cutoff or above, once the score is older than an answer may be kept:
\* unless the read of the score failed, which the hook takes for no score.
TailIsClear ==
    (row # NoRow /\ row.by = "cheaptail" /\ row.fired /\ ~row.failed) =>
        \/ StoredAmbiguity(row.on) < AmbiguityCutoff
        \/ \A i \in DOMAIN scores : scores[i].market = row.on => scores[i].age <= CacheTTL

=============================================================================
