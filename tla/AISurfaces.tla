----------------------------- MODULE AISurfaces -----------------------------
(***************************************************************************)
(* The background workers that buy answers from the AI and what they keep: *)
(* the catalyst importer, the close review and the hourly news.  Two       *)
(* governors watch the money: aibudget.Manager, one for the process, whose *)
(* Allow and Charge are separate calls, and the daily ledger inside each   *)
(* openai.Client.  Both live in memory.  The news asks only its client.    *)
(***************************************************************************)
EXTENDS Integers, FiniteSets

CONSTANTS
    Events,          \* event slugs of the importer
    Slots,           \* its goroutines, Concurrency of them
    Tier,            \* the interval of an event's tier
    Markets,         \* closed markets
    Items,           \* annotations, by hash
    Cap, GlobalCap,  \* daily caps of the Manager, by bucket and over all; 0 for none
    Est,             \* the estimate each bucket asks with
    OwnCap,          \* DailyBudget of a client
    MaxCost,         \* what an answer costs at most
    DayLength, StaleAfter, SemanticCooldown,
    Budgets,         \* how many ticks, faults and restarts a behaviour has
    MaxTime          \* model bound

Importer == "catalyst_importer"
Review   == "market_close_review"
Buckets  == {Importer, Review}
Never    == -1

ASSUME CapsAssumption ==
    /\ Cap \in [Buckets -> Nat] /\ Est \in [Buckets -> Nat]
    /\ GlobalCap \in Nat /\ OwnCap \in Nat /\ MaxCost \in Nat \ {0}
ASSUME TimesAssumption ==
    /\ Tier \in [Events -> Nat \ {0}] /\ DayLength \in Nat \ {0}
    /\ StaleAfter \in Nat /\ SemanticCooldown \in Nat /\ MaxTime \in Nat
ASSUME SetsAssumption ==
    /\ IsFiniteSet(Slots) /\ Slots # {}
    /\ Budgets \subseteq [importer : Nat, reviews : Nat, news : Nat, faults : Nat, restarts : Nat]

VARIABLES
    now, left,       \* the time, and what is left of the budget of the behaviour
    ledger,          \* aibudget.Manager: day, by bucket, all
    own,             \* budgetLedger of the two clients: day and spent
    queue, slot,     \* the importer's tick: events not yet started, what a goroutine does
    fetched,         \* lastFetched
    catalyst,        \* polymarket_event_catalysts: the row of an event
    todo, job,       \* the close review's tick: markets not yet taken, the one in hand
    reviewed,        \* markets with a succeeded row in polymarket_market_close_reviews
    news,            \* the news cycle
    processed, last, \* polymarket_news_intel_processed_items; lastInputFP and lastCycleEnd
    bill, unseen, lives, \* history of the day: paid answers, those never charged, process lives
    bought, waste, summary, \* history, by market: paid reviews, those whose row did not stay, summaries
    told, slip       \* history, by item: messages, those after which it stayed unprocessed

imports == <<queue, slot, fetched, catalyst>>
reviews == <<todo, job, reviewed, bought, waste, summary>>
cycle   == <<news, processed, last, told, slip>>
money   == <<ledger, own, bill, unseen, lives>>
vars    == <<now, left, money, imports, reviews, cycle>>

Idle == [step |-> "idle"]
Zero == [b \in Buckets |-> 0]
Today == now \div DayLength

Init ==
    /\ now = 0 /\ left \in Budgets
    /\ ledger = [day |-> 0, by |-> Zero, all |-> 0]
    /\ own = [b \in Buckets |-> [day |-> 0, spent |-> 0]]
    /\ queue = {} /\ slot = [s \in Slots |-> Idle]
    /\ fetched = [e \in Events |-> Never]
    /\ catalyst = [e \in Events |-> [status |-> "none", at |-> Never]]
    /\ todo = {} /\ job = Idle /\ reviewed = {}
    /\ news = Idle /\ processed = {} /\ last = [items |-> {}, at |-> Never]
    /\ bill = Zero /\ unseen = Zero /\ lives = 1
    /\ bought = [m \in Markets |-> 0] /\ waste = [m \in Markets |-> 0]
    /\ summary = [m \in Markets |-> 0]
    /\ told = [i \in Items |-> 0] /\ slip = [i \in Items |-> 0]

Spend(what) == left[what] > 0 /\ left' = [left EXCEPT ![what] = @ - 1]

\* Time passes; the bill starts anew with the day, the governors do so lazily.
Tick ==
    /\ now < MaxTime
    /\ now' = now + 1
    /\ IF (now + 1) \div DayLength = Today THEN UNCHANGED <<bill, unseen, lives>>
       ELSE bill' = Zero /\ unseen' = Zero /\ lives' = 1
    /\ UNCHANGED <<left, ledger, own, imports, reviews, cycle>>

-----------------------------------------------------------------------------
(* The governors *)

\* rollIfNewDayLocked
Rolled == IF ledger.day = Today THEN ledger ELSE [day |-> Today, by |-> Zero, all |-> 0]

\* Mutant: only the global cap is looked at.
OnlyGlobal(b) == GlobalCap > 0 => Rolled.all + Est[b] <= GlobalCap

\* Manager.Allow: nothing is reserved.
Allows(b) ==
    /\ Cap[b] > 0 => Rolled.by[b] + Est[b] <= Cap[b]
    /\ GlobalCap > 0 => Rolled.all + Est[b] <= GlobalCap

\* Manager.Charge
Charge(b, cost) ==
    ledger' = [Rolled EXCEPT !.by[b] = @ + cost, !.all = @ + cost]

\* budgetLedger: rolloverIfNeededLocked, allow and consume
OwnRolled(b) == IF own[b].day = Today THEN own[b] ELSE [day |-> Today, spent |-> 0]
OwnAllows(b) == OwnRolled(b).spent < OwnCap
Consume(b, cost) == own' = [own EXCEPT ![b] = [OwnRolled(b) EXCEPT !.spent = @ + cost]]

\* An answer with tokens: the client counts it and the provider bills it.
Pay(b, cost) ==
    /\ Consume(b, cost)
    /\ bill' = [bill EXCEPT ![b] = @ + cost]
    /\ UNCHANGED lives

-----------------------------------------------------------------------------
(* importer.Worker *)

\* dueByTier
Due(e) == fetched[e] = Never \/ now - fetched[e] >= Tier[e]

\* Tick: some of the candidates whose tier is due, one goroutine each.
SelectEvents(batch) ==
    /\ queue = {} /\ \A s \in Slots : slot[s] = Idle
    /\ batch # {} /\ \A e \in batch : Due(e)
    /\ Spend("importer")
    /\ queue' = batch
    /\ UNCHANGED <<now, money, slot, fetched, catalyst, reviews, cycle>>

\* recordFetched, deferred, at whatever return
Return(s, e) ==
    /\ slot' = [slot EXCEPT ![s] = Idle]
    /\ fetched' = [fetched EXCEPT ![e] = now]

\* A goroutine gets its slot; Load may find nothing.  ListAll is a snapshot.
LoadEvent(s, e) ==
    /\ slot[s] = Idle /\ e \in queue
    /\ queue' = queue \ {e}
    /\ \/ /\ slot' = [slot EXCEPT ![s] = [step |-> "ask", event |-> e, existing |-> catalyst[e]]]
          /\ UNCHANGED <<left, fetched>>
       \/ Spend("faults") /\ Return(s, e)
    /\ UNCHANGED <<now, money, catalyst, reviews, cycle>>

AskForEvent(s) ==
    /\ slot[s].step = "ask"
    /\ ledger' = Rolled
    /\ IF Allows(Importer)
       THEN slot' = [slot EXCEPT ![s].step = "call"] /\ UNCHANGED fetched
       ELSE Return(s, slot[s].event)
    /\ UNCHANGED <<now, left, own, bill, unseen, lives, queue, catalyst, reviews, cycle>>

\* ExtractCatalysts: the client's own gates.  A skip is not an error and costs 0.
CallForEvent(s) ==
    /\ slot[s].step = "call"
    /\ own' = [own EXCEPT ![Importer] = OwnRolled(Importer)]
    /\ \/ /\ OwnAllows(Importer)
          /\ slot' = [slot EXCEPT ![s].step = "wait"]
          /\ UNCHANGED <<left, ledger, fetched>>
       \/ /\ IF OwnAllows(Importer) THEN Spend("faults") ELSE UNCHANGED left
          /\ Charge(Importer, 0) /\ Return(s, slot[s].event)
    /\ UNCHANGED <<now, bill, unseen, lives, queue, catalyst, reviews, cycle>>

\* What the model says of the event's catalyst.
Says == {"nothing", "low", "active", "resolved"}

\* The answer.  One that does not parse is an error, and its cost is dropped with it.
AnswerEvent(s, cost, says) ==
    /\ slot[s].step = "wait"
    /\ Pay(Importer, cost)
    /\ \/ /\ Charge(Importer, cost)
          /\ slot' = [slot EXCEPT ![s] = [step |-> "save", event |-> @.event, existing |-> @.existing,
                                          says |-> says]]
          /\ UNCHANGED <<left, unseen, fetched>>
       \/ /\ Spend("faults") /\ Return(s, slot[s].event)
          /\ unseen' = [unseen EXCEPT ![Importer] = @ + cost]
          /\ UNCHANGED ledger
    /\ UNCHANGED <<now, queue, catalyst, reviews, cycle>>

\* The request itself fails: no tokens, no charge.
EventCallFails(s) ==
    /\ slot[s].step = "wait"
    /\ Spend("faults") /\ Return(s, slot[s].event)
    /\ UNCHANGED <<now, money, queue, catalyst, reviews, cycle>>

\* upsertCatalysts: a catalyst below MinConfidence is left out.
Upserted(row, says) ==
    IF says \in {"active", "resolved"} THEN [status |-> says, at |-> now] ELSE row

\* markStale: judged by the snapshot, left alone when this cycle wrote the row.  (A row whose
\* expected_at lies ahead is left alone too.)
Staled(row, existing, wrote) ==
    IF ~wrote /\ existing.status \in {"expected", "active"} /\ existing.at < now - StaleAfter
    THEN [status |-> "stale", at |-> now] ELSE row

\* Both loops go on after a failed statement, and a failed upsert does not keep the row fresh.
SaveEvent(s) ==
    /\ slot[s].step = "save"
    /\ LET e == slot[s].event  row == Upserted(catalyst[e], slot[s].says) IN
       /\ \/ /\ \E seen \in {row, Staled(row, slot[s].existing, row # catalyst[e])} :
                catalyst' = [catalyst EXCEPT ![e] = seen]
             /\ UNCHANGED left
          \/ /\ Spend("faults")
             /\ catalyst' \in {catalyst, [catalyst EXCEPT ![e] = Staled(@, slot[s].existing, FALSE)]}
       /\ Return(s, e)
    /\ UNCHANGED <<now, money, queue, reviews, cycle>>

-----------------------------------------------------------------------------
(* marketclosereview.Worker *)

\* Tick: ListCandidates, the closed markets without a succeeded row.
ListClosed(listed) ==
    /\ todo = {} /\ job = Idle
    /\ listed # {} /\ listed \cap reviewed = {}
    /\ Spend("reviews")
    /\ todo' = listed
    /\ UNCHANGED <<now, money, imports, job, reviewed, bought, waste, summary, cycle>>

\* processOne: HasSucceededReview, the alerts, and Allow.  A market without evidence, or
\* denied, gets a skipped row, which nothing reads.
TakeClosed(m) ==
    /\ job = Idle /\ m \in todo
    /\ todo' = todo \ {m}
    /\ \/ UNCHANGED <<job, ledger>>
       \/ /\ m \notin reviewed
          /\ ledger' = Rolled
          /\ job' = IF Allows(Review) THEN [step |-> "call", market |-> m] ELSE Idle
    /\ UNCHANGED <<now, left, own, bill, unseen, lives, imports, reviewed, bought, waste, summary, cycle>>

\* InsertRunning, then the client's gates; both may end it, with a failed row or none.
CallForReview ==
    /\ job.step = "call"
    /\ own' = [own EXCEPT ![Review] = OwnRolled(Review)]
    /\ \/ OwnAllows(Review) /\ job' = [job EXCEPT !.step = "wait"] /\ UNCHANGED left
       \/ /\ IF OwnAllows(Review) THEN Spend("faults") ELSE UNCHANGED left
          /\ job' = Idle
    /\ UNCHANGED <<now, ledger, bill, unseen, lives, imports, todo, reviewed, bought, waste, summary, cycle>>

\* The answer, charged even when it does not parse; then its row fails.
AnswerReview(cost) ==
    /\ job.step = "wait"
    /\ Pay(Review, cost) /\ Charge(Review, cost) /\ UNCHANGED unseen
    /\ bought' = [bought EXCEPT ![job.market] = @ + 1]
    /\ \/ job' = [job EXCEPT !.step = "finish"] /\ UNCHANGED <<left, waste>>
       \/ /\ Spend("faults") /\ job' = Idle
          /\ waste' = [waste EXCEPT ![job.market] = @ + 1]
    /\ UNCHANGED <<now, imports, todo, reviewed, summary, cycle>>

ReviewCallFails ==
    /\ job.step = "wait"
    /\ Spend("faults") /\ job' = Idle
    /\ UNCHANGED <<now, money, imports, todo, reviewed, bought, waste, summary, cycle>>

\* Mutant: the summary goes out whatever became of the row.
TellAnyway ==
    /\ job.step = "finish"
    /\ job' = [job EXCEPT !.step = "tell"]
    /\ \/ reviewed' = reviewed \cup {job.market} /\ UNCHANGED <<left, waste>>
       \/ /\ Spend("faults")
          /\ reviewed' = reviewed
          /\ waste' = [waste EXCEPT ![job.market] = @ + 1]
    /\ UNCHANGED <<now, money, imports, todo, bought, summary, cycle>>

\* FinishSucceeded.  When it reports an error, having committed or not, FinishFailed follows:
\* the row is failed, unless only the first of the two took effect.
FinishReview ==
    /\ job.step = "finish"
    /\ \/ /\ reviewed' = reviewed \cup {job.market}
          /\ job' = [job EXCEPT !.step = "tell"]
          /\ UNCHANGED <<left, waste>>
       \/ /\ Spend("faults") /\ job' = Idle
          /\ \/ reviewed' = reviewed /\ waste' = [waste EXCEPT ![job.market] = @ + 1]
             \/ reviewed' = reviewed \cup {job.market} /\ UNCHANGED waste
    /\ UNCHANGED <<now, money, imports, todo, bought, summary, cycle>>

\* The admin summary, sent or lost, and the reactions, which AlertFollowUp has.
TellReview ==
    /\ job.step = "tell"
    /\ \/ summary' = [summary EXCEPT ![job.market] = @ + 1] /\ UNCHANGED left
       \/ Spend("faults") /\ UNCHANGED summary
    /\ job' = Idle
    /\ UNCHANGED <<now, money, imports, todo, reviewed, bought, waste, cycle>>

-----------------------------------------------------------------------------
(* newsintel.Worker *)

\* FilterUnprocessed
Unprocessed(listed) == listed \ processed

\* Tick up to the call: the lookback, the limit and the items without markets leave some of
\* the annotations; the same new items as in the last cycle wait for SemanticCooldown.
StartNews(listed) ==
    LET fresh == Unprocessed(listed) IN
    /\ news = Idle /\ fresh # {}
    /\ ~(fresh = last.items /\ now - last.at < SemanticCooldown)
    /\ Spend("news")
    /\ news' = [step |-> "wait", items |-> fresh, picked |-> {}, unmarked |-> fresh]
    /\ UNCHANGED <<now, money, imports, reviews, processed, last, told, slip>>

\* EvaluateHourlyNewsIntel: an error or a skip ends the cycle; a sentinel, or an answer without
\* confident picks, goes straight to the marks.
AnswerNews(picked) ==
    /\ news.step = "wait" /\ picked \subseteq news.items
    /\ \/ /\ news' = [news EXCEPT !.step = IF picked = {} THEN "mark" ELSE "tell", !.picked = picked]
          /\ UNCHANGED left
       \/ Spend("faults") /\ news' = Idle
    /\ UNCHANGED <<now, money, imports, reviews, processed, last, told, slip>>

\* sendTelegram; the cycle goes on whether or not a chunk landed.
TellNews ==
    /\ news.step = "tell"
    /\ \/ /\ told' = [i \in Items |-> told[i] + IF i \in news.picked THEN 1 ELSE 0]
          /\ news' = [news EXCEPT !.step = "mark"]
          /\ UNCHANGED left
       \/ /\ Spend("faults") /\ UNCHANGED told
          /\ news' = [news EXCEPT !.step = "mark", !.picked = {}]
    /\ UNCHANGED <<now, money, imports, reviews, processed, last, slip>>

\* markItemsProcessed, item by item; a failure is only logged.  The last one ends the cycle,
\* which remembers what it looked at.
MarkItem(i) ==
    /\ news.step = "mark" /\ i \in news.unmarked
    /\ \/ processed' = processed \cup {i} /\ UNCHANGED <<left, slip>>
       \/ /\ Spend("faults") /\ UNCHANGED processed
          /\ slip' = [slip EXCEPT ![i] = @ + IF i \in news.picked THEN 1 ELSE 0]
    /\ IF news.unmarked = {i} THEN news' = Idle /\ last' = [items |-> news.items, at |-> now]
       ELSE news' = [news EXCEPT !.unmarked = @ \ {i}] /\ UNCHANGED last
    /\ UNCHANGED <<now, money, imports, reviews, told>>

-----------------------------------------------------------------------------
\* The process ends and starts again: the governors, the tiers and the cooldown are forgotten.
Restart ==
    /\ Spend("restarts")
    /\ lives' = lives + 1
    /\ ledger' = [day |-> Today, by |-> Zero, all |-> 0]
    /\ own' = [b \in Buckets |-> [day |-> Today, spent |-> 0]]
    /\ queue' = {} /\ slot' = [s \in Slots |-> Idle]
    /\ fetched' = [e \in Events |-> Never]
    /\ todo' = {} /\ job' = Idle
    /\ waste' = [m \in Markets |-> waste[m] + IF job.step = "finish" /\ job.market = m THEN 1 ELSE 0]
    /\ news' = Idle /\ last' = [items |-> {}, at |-> Never]
    /\ slip' = [i \in Items |-> slip[i]
                  + IF news.step = "mark" /\ i \in news.picked \cap news.unmarked THEN 1 ELSE 0]
    /\ UNCHANGED <<now, bill, unseen, catalyst, reviewed, bought, summary, processed, told>>

ImporterNext ==
    \/ \E batch \in SUBSET Events : SelectEvents(batch)
    \/ \E s \in Slots :
        \/ \E e \in Events : LoadEvent(s, e)
        \/ AskForEvent(s) \/ CallForEvent(s) \/ EventCallFails(s) \/ SaveEvent(s)
        \/ \E cost \in 1 .. MaxCost, says \in Says : AnswerEvent(s, cost, says)

ReviewNext ==
    \/ \E listed \in SUBSET Markets : ListClosed(listed)
    \/ \E m \in Markets : TakeClosed(m)
    \/ \E cost \in 1 .. MaxCost : AnswerReview(cost)
    \/ CallForReview \/ ReviewCallFails \/ FinishReview \/ TellReview

NewsNext ==
    \/ \E listed \in SUBSET Items : StartNews(listed)
    \/ \E picked \in SUBSET Items : AnswerNews(picked)
    \/ \E i \in Items : MarkItem(i)
    \/ TellNews

Next == Tick \/ ImporterNext \/ ReviewNext \/ NewsNext \/ Restart

Spec == Init /\ [][Next]_vars

-----------------------------------------------------------------------------
(* Properties *)

Workers == [b \in Buckets |-> IF b = Importer THEN Cardinality(Slots) ELSE 1]

\* What one life of the process may spend in a bucket between two midnights: the cap less the
\* estimate, and an answer for every worker that was let through before the others charged.
Room(b) == (IF Cap[b] > Est[b] THEN Cap[b] - Est[b] ELSE 0) + Workers[b] * MaxCost

\* Allow and Charge are two steps, the ledger dies with the process, and an answer that does
\* not parse is never charged.  Still the answers paid on a day stay within the bucket's room
\* for every life of the process, but for the uncharged ones, and these within the client's
\* own cap (budget.go:14-21, importer worker.go:412-436).
BillIsBounded ==
    \A b \in Buckets :
        /\ Cap[b] > 0 => bill[b] <= lives * Room(b) + unseen[b]
        /\ bill[b] <= lives * (OwnCap + Workers[b] * MaxCost)

\* A market's review is bought again only when an earlier answer did not become its succeeded
\* row, for a failed statement, an answer that did not parse or a crash; and its summary is
\* sent at most once (marketclosereview worker.go:168-308).
SecondReviewHasCause ==
    \A m \in Markets : bought[m] <= waste[m] + 1 /\ summary[m] <= 1

\* An annotation is told again only when the mark of an earlier message of it failed or was cut
\* off by a crash, in spite of the cycle reading the ledger first and writing it last
\* (newsintel worker.go:159-172, 360-390).
RepeatHasCause == \A i \in Items : told[i] <= slip[i] + 1
=============================================================================
