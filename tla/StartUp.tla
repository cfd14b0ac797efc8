------------------------------- MODULE StartUp -------------------------------
(***************************************************************************)
(* app.New with the three wireStrategyPhase functions: one block after the *)
(* other builds its parts and gives them what is built already, each under *)
(* switches of its own, and a part whose field is nil is a feature that is *)
(* off - or a crash, where nobody asks.  Which parts come together was     *)
(* never tried beyond a few configurations: every one with up to two       *)
(* switches off is followed to its start, the one with all of them on      *)
(* beyond it (Runtime).                                                    *)
(*                                                                         *)
(* `wired` holds who was given whom, but for the store, which every part   *)
(* of a run with Postgres has.  Interval, size and threshold settings are  *)
(* copied from Config and left out, but for those two parts must agree on. *)
(***************************************************************************)
EXTENDS Runtime, Sequences

CONSTANT Settings   \* the configurations that may be started

VARIABLES
    settings,   \* Config: the switches that are on
    step,       \* the next block of New
    boot,       \* "building", "refused" with an error, "running"
    parts,      \* what is built
    wired       \* pairs of a part and one that it was given

bootVars == <<settings, step, boot, parts, wired>>

Strategies == {"thesisaccum", "holderdelta", "catalystwindow", "bookvacuum", "repricinglag",
               "walletcohort", "conflictresolve", "rulesrisk", "cheaptail"}

\* The workers that are built whenever there is a store and return at once
\* when their switch, which has their name, is off.
Producers == {"links", "holders", "risk", "repricing", "graph", "outcomeBackfill",
              "theses", "bars"}

Switches ==
    {"postgres", "telegram", "token", "chat", "adminChat", "admin", "qualityReports",
     "outcomes", "reactions", "drift", "concentration", "accumulation", "ownership",
     "staged", "ai", "apiKey", "notes", "postmortems", "eventPage", "catalysts",
     "importer", "importerAI", "news", "newsAI", "newsSend", "reviews", "reviewAI", "ws"}
    \cup Strategies \cup Producers
    \* HOLDERSYNC_SOURCE_MODE is dataapi, the links and the edges are written
    \* with version 1, the thesis lines and their reader look equally far back.
    \* WS_MAX_MARKETS is above zero and below its caps, no retired key is set.
    \cup {"holderSource", "linkVersion", "edgeVersion", "lookback", "wsLimits", "noStaleKeys"}

ASSUME SettingsAssumption == Settings \subseteq SUBSET Switches

\* Model bound: up to two switches are off.
UpToTwoOff == {Switches} \cup {Switches \ {a, b} : a, b \in Switches}

On(s) == s \in settings
Built(p) == p \in parts
If(condition, S) == IF condition THEN S ELSE {}
Block(built, given) == [parts |-> built, wires |-> given]

\* StrategyConfig.validateInvariants; the checks of the repricing horizon and
\* of the top-K concern thresholds.
StrategiesValid ==
    /\ On("lookback")
    /\ On("bookvacuum") => On("bars")

StreamValid == On("ws") => On("wsLimits")

-----------------------------------------------------------------------------
(* The blocks of New *)

Clients == Block({"cache", "gamma", "dataapi"}, {})

\* The pool with its repositories, the sink, both baselines, the MM filter.
Store == Block(If(On("postgres"), {"store"}), {})

Discovery == Block({"discover"}, If(Built("store"), {<<"discover", "store">>}))

\* Without a store the fanout posts to Telegram itself.
Sinks == Block({"fanout"}, If(~On("postgres") /\ On("telegram"), {<<"fanout", "telegram">>}))

Telegram ==
    IF On("postgres") /\ On("telegram")
    THEN Block({"bot", "router", "annotation", "sender"},
               {<<"annotation", "bot">>, <<"router", "bot">>, <<"sender", "router">>})
    ELSE Block({}, {})

StoreWorkers ==
    IF On("postgres")
    THEN Block({"backfill", "sanity"} \cup If(On("outcomes"), {"outcomes"})
                                      \cup If(On("drift"), {"drift"}),
               {<<"sanity", "cache">>}
                   \cup If(On("outcomes") /\ On("reactions") /\ Built("bot") /\ On("chat"),
                           {<<"outcomes", "bot">>}))
    ELSE Block({}, {})

\* detectCfg: what the detector asks is nil unless there is a store.
Detector ==
    Block({"detector"},
          {<<"detector", "fanout">>}
              \cup If(On("postgres"),
                      {<<"detector", "store">>}
                          \cup If(On("concentration"), {<<"detector", "concentration">>})
                          \cup If(On("accumulation"), {<<"detector", "accumulation">>})
                          \cup If(On("ownership"), {<<"detector", "ownership">>})))

\* wireStrategyPhaseB: the bus with the promotion worker as its gate.
PhaseB == IF Built("store")
          THEN Block({"bus", "promotion", "value", "rulesrisk"}, {<<"bus", "promotion">>})
          ELSE Block({}, {})

Inputs ==
    Block({}, If(Built("bus"),
                 {<<"detector", "bus">>, <<"detector", "rulesrisk">>}
                     \cup If(On("staged"), {<<"detector", "staged">>})))

\* wireStrategyPhaseC: the holder worker is a stub without a source.
PhaseC == IF Built("store")
          THEN Block({"links", "holders", "risk", "repricing", "graph", "outcomeBackfill",
                      "theses"},
                     {<<"risk", "rulesrisk">>})
          ELSE Block({}, {})

\* wireStrategyPhaseF: the book worker, and a holder worker with a source.
PhaseF == IF Built("store")
          THEN Block({"bars"},
                     {<<"bars", "clob">>}
                         \cup If(On("holderSource"), {<<"holders", "dataapi">>}))
          ELSE Block({}, {})

\* Mutant: the nil detector is put into the interface as a typed pointer.
DetectionBoxed ==
    Block({"collect", "metrics"} \cup If(On("postgres"), {"detection"}),
          {<<"collect", "detector">>} \cup If(On("postgres"), {<<"detection", "detector">>}))

\* With a store the worker drives the detector, and without one collect does.
Detection ==
    Block({"collect", "metrics"} \cup If(On("postgres"), {"detection"}),
          IF On("postgres") THEN {<<"detection", "detector">>, <<"collect", "store">>}
          ELSE {<<"collect", "detector">>})

\* wireEventPageProvider and wireCatalystProvider ask for the store, too.
EventPageProvider == If(On("eventPage") /\ Built("store"), {"eventPages"})
CatalystProvider == If(On("catalysts") /\ Built("store"), {"catalystNotes"})

\* The note's service, the two providers, and the sender that is given all three.
Analysis ==
    LET built == {"analysis"} \cup EventPageProvider \cup CatalystProvider
    IN  IF Built("store")
        THEN Block(built,
                   ({"analysis"} \X (built \ {"analysis"}))
                       \cup If(On("ai") /\ On("apiKey"), {<<"analysis", "openai">>})
                       \cup If(Built("sender"), {"sender"} \X (built \cup {"attribution"})))
        ELSE Block({}, {})

Postmortems ==
    IF On("postgres") /\ Built("bot") /\ On("ai")
    THEN Block({"outcomeAI"},
               {<<"outcomeAI", "router">>, <<"outcomeAI", "annotation">>}
                   \cup If(On("apiKey"), {<<"outcomeAI", "openai">>})
                   \cup If(Built("eventPages"), {<<"outcomeAI", "eventPages">>}))
    ELSE Block({}, {})

Importer ==
    IF On("postgres") /\ On("importer") /\ Built("eventPages")
    THEN Block({"importer"},
               {<<"importer", "eventPages">>}
                   \cup If(On("apiKey") /\ On("importerAI"), {<<"importer", "openai">>}))
    ELSE Block({}, {})

News ==
    IF On("postgres") /\ On("news")
    THEN Block({"news"},
               If(On("newsAI") /\ On("apiKey"), {<<"news", "openai">>})
                   \cup If(Built("router") /\ On("newsSend"), {<<"news", "router">>}))
    ELSE Block({}, {})

Quality ==
    IF On("postgres") /\ Built("router") /\ On("admin") /\ On("qualityReports")
    THEN Block({"quality"}, {<<"quality", "router">>})
    ELSE Block({}, {})

\* The Manager of the AI budgets; the importer is there already.
Purse == Block({"purse"}, If(Built("importer"), {<<"importer", "purse">>}))

Reviews ==
    IF On("postgres") /\ On("reviews") /\ Built("router")
    THEN Block({"reviews"},
               {<<"reviews", "router">>, <<"reviews", "annotation">>, <<"reviews", "purse">>}
                   \cup If(On("apiKey") /\ On("reviewAI"), {<<"reviews", "openai">>}))
    ELSE Block({}, {})

Stream == Block(If(On("postgres") /\ On("ws"), {"realtime"}), {})

Blocks == <<Clients, Store, Discovery, Sinks, Telegram, StoreWorkers, Detector, PhaseB,
            Inputs, PhaseC, PhaseF, Detection, Analysis, Postmortems, Importer, News,
            Quality, Purse, Reviews, Stream>>

\* Where New gives up: the sink and the bot ask for a token, New for the chat,
\* the router for the admins'.
Refused ==
    \/ step = 4 /\ ~On("postgres") /\ On("telegram") /\ ~(On("token") /\ On("chat"))
    \/ /\ step = 5 /\ On("postgres") /\ On("telegram")
       /\ ~On("token") \/ ~On("chat") \/ (On("admin") /\ ~On("adminChat"))

BootInit ==
    /\ Init
    /\ settings \in Settings
    /\ step = 0 /\ boot = "building" /\ parts = {} /\ wired = {}

\* LoadConfig, with the checks across fields
Load ==
    /\ boot = "building" /\ step = 0
    /\ IF On("noStaleKeys") /\ StrategiesValid /\ StreamValid
       THEN step' = 1 /\ boot' = boot
       ELSE step' = step /\ boot' = "refused"
    /\ UNCHANGED <<settings, parts, wired>>

Build ==
    /\ boot = "building" /\ step \in DOMAIN Blocks
    /\ IF Refused
       THEN boot' = "refused" /\ UNCHANGED <<step, parts, wired>>
       ELSE /\ parts' = parts \cup Blocks[step].parts
            /\ wired' = wired \cup Blocks[step].wires
            /\ step' = step + 1 /\ boot' = boot
    /\ UNCHANGED settings

\* A migration or the pool fails.
StoreFails ==
    /\ boot = "building" /\ step = 2 /\ On("postgres")
    /\ boot' = "refused"
    /\ UNCHANGED <<settings, step, parts, wired>>

\* New returns, and App.Run hands every worker that is there to Graceful.
Launch ==
    /\ boot = "building" /\ step > Len(Blocks)
    /\ boot' = "running"
    /\ UNCHANGED <<settings, step, parts, wired>>

-----------------------------------------------------------------------------

allVars == <<vars, bootVars>>

\* Model bound: one configuration is followed beyond its start, with the
\* loops of Runtime for its workers.
Goes == boot = "running" /\ settings = Switches

BootNext ==
    \/ (Load \/ Build \/ StoreFails \/ Launch) /\ UNCHANGED vars
    \/ Goes /\ Next /\ UNCHANGED bootVars

BootSpec == BootInit /\ [][BootNext]_allVars

Onward(A) == Goes /\ A /\ UNCHANGED bootVars

\* As in Runtime; nothing is asked of New.
BootFairness ==
    /\ WF_allVars(Onward(Graceful)) /\ WF_allVars(Onward(FadeOut)) /\ WF_allVars(Onward(Realtime))
    /\ WF_allVars(Onward(Handle)) /\ WF_allVars(Onward(ConsumerEnds))
    /\ WF_allVars(Onward(Refresh)) /\ WF_allVars(Onward(Client))
    /\ WF_allVars(Onward(WriterEnds))
    /\ \A e \in Loops : WF_allVars(Onward(StopLoop(e)))

FairBoot == BootSpec /\ BootFairness

-----------------------------------------------------------------------------
(* Properties *)

Given(p, q) == <<p, q>> \in wired

\* Whoever calls a part without asking whether it is there has it.
HasWhatItUses ==
    /\ \A p \in {"sender", "outcomeAI", "reviews", "quality"} : Built(p) => Given(p, "router")
    /\ \A p \in {"outcomeAI", "reviews"} : Built(p) => Given(p, "annotation")
    /\ Built("reviews") => Given("reviews", "purse")
    /\ Built("importer") => Given("importer", "eventPages")
    /\ Built("risk") => Given("risk", "rulesrisk")
    /\ Given("collect", "detector") \/ Given("detection", "detector") => Built("detector")
    /\ parts \cap {"sender", "backfill", "sanity", "outcomes", "drift", "detection", "bus",
                    "analysis", "outcomeAI", "importer", "news", "quality", "reviews",
                    "realtime", "bars"} # {} => Built("store")

\* No part that New set up stays unknown to the one that is to ask it.
NothingUnwired ==
    \A pair \in ({"sender"} \X {"analysis", "eventPages", "catalystNotes"})
                \cup ({"analysis"} \X {"eventPages", "catalystNotes"})
                \cup {<<"outcomeAI", "eventPages">>, <<"importer", "purse">>,
                       <<"detector", "bus">>, <<"bus", "promotion">>} :
        Built(pair[1]) /\ Built(pair[2]) => pair \in wired

\* Every trade has one way to the detector, every alert one way to Telegram.
OneWay ==
    /\ Given("collect", "detector") # Given("detection", "detector")
    /\ On("telegram") => Given("fanout", "telegram") # Built("sender")

\* Only the alert's note, the postmortem and the news buy without asking the Manager.
BuyersAsk ==
    \A p \in parts : Given(p, "openai") => Given(p, "purse") \/ p \in {"analysis", "outcomeAI", "news"}

Works(w) == Built(w) /\ On(w)

Fed ==
    [links     |-> Works("links") /\ On("linkVersion"),
     theses    |-> Works("theses"),
     catalysts |-> Works("importer"),
     edges     |-> Works("graph") /\ On("edgeVersion"),
     holders   |-> Works("holders") /\ Given("holders", "dataapi"),
     bars      |-> Works("bars") /\ Given("bars", "clob"),
     windows   |-> Works("repricing") /\ Works("importer") /\ Works("links"),
     risk      |-> Works("risk")]

\* The switches behind each table, and who reads it.
Needs ==
    [links     |-> {"links", "linkVersion"},
     theses    |-> {"theses"},
     catalysts |-> {"importer", "eventPage"},
     edges     |-> {"graph", "edgeVersion"},
     holders   |-> {"holders", "holderSource"},
     bars      |-> {"bars"},
     windows   |-> {"repricing", "importer", "eventPage", "links"},
     risk      |-> {"risk"}]

ReadsFrom ==
    [thesisaccum |-> {"links", "theses"}, holderdelta |-> {"holders"},
     catalystwindow |-> {"catalysts"}, bookvacuum |-> {"bars"}, repricinglag |-> {"windows"},
     walletcohort |-> {"edges"}, cheaptail |-> {"catalysts", "risk"}]

\* A strategy that is asked on every alert finds nothing in a table only when a
\* switch behind that table is off; book bars are never missing.
StarvingHasCause ==
    Given("detector", "bus") /\ Given("detector", "staged") =>
        \A s \in DOMAIN ReadsFrom : \A t \in ReadsFrom[s] :
            On(s) /\ ~Fed[t] => t # "bars" /\ ~(Needs[t] \subseteq settings)

\* A process that has started has every part, with every other part it calls
\* or is to ask, and nothing that runs is silently without its input.
NobodyIsLeftOut ==
    /\ HasWhatItUses
    /\ boot = "running" => NothingUnwired /\ OneWay /\ BuyersAsk /\ StarvingHasCause
=============================================================================
