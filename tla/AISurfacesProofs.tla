-------------------------- MODULE AISurfacesProofs --------------------------
(***************************************************************************)
(* What the enrichment of alerts guarantees, for any sizes and any number  *)
(* of failures and restarts: the money, the reviews and the news of        *)
(* AISurfaces for any caps, costs, goroutines, markets and annotations;    *)
(* the pages of EventPages for any callers, events and faults; the notes   *)
(* and the routes of AlertAnalysis and TelegramRoute for any alerts,       *)
(* senders, answers and valid configurations.                              *)
(***************************************************************************)
EXTENDS AISurfaces, EventPages, AlertAnalysis, FiniteSetTheorems, TLAPS

-----------------------------------------------------------------------------
(* The news cycle: RepeatHasCause *)

NewsType ==
    /\ news = Idle \/ news \in [step : {"wait", "tell", "mark"}, items : SUBSET Items,
                                picked : SUBSET Items, unmarked : SUBSET Items]
    /\ processed \subseteq Items
    /\ told \in [Items -> Nat] /\ slip \in [Items -> Nat]

\* Until the marks, the items are the unprocessed ones and all are to be marked.
NewsFresh ==
    /\ news.step \in {"wait", "tell"} =>
          news.items \cap processed = {} /\ news.unmarked = news.items /\ news.picked \subseteq news.items
    /\ news.step = "mark" => news.unmarked \cap processed = {}

\* A message not yet matched by a slip is of an item processed, or about to be marked.
Owed(i) == i \in processed \/ (news.step = "mark" /\ i \in news.picked /\ i \in news.unmarked)
ToldOnce == \A i \in Items : told[i] <= slip[i] + 1 /\ (~Owed(i) => told[i] <= slip[i])

NewsInv == NewsType /\ NewsFresh /\ ToldOnce

LEMMA NewsInit == Init => NewsInv
BY DEF Init, NewsInv, NewsType, NewsFresh, ToldOnce, Owed, Idle

\* The steps of the other parts leave the news alone.
LEMMA NewsStutter == ASSUME NewsInv, UNCHANGED <<news, processed, told, slip>> PROVE NewsInv'
<1>1. NewsType' /\ NewsFresh'
  BY DEF NewsInv, NewsType, NewsFresh
<1>2. ToldOnce'
  BY DEF NewsInv, ToldOnce, Owed
<1>. QED
  BY <1>1, <1>2 DEF NewsInv

LEMMA NewsOthers ==
    ASSUME NewsInv, Tick \/ ImporterNext \/ ReviewNext \/ UNCHANGED vars
    PROVE  NewsInv'
<1>1. CASE Tick
  BY <1>1, NewsStutter DEF Tick, cycle
<1>2. CASE ImporterNext
  BY <1>2, NewsStutter DEF ImporterNext, SelectEvents, LoadEvent, AskForEvent, CallForEvent, EventCallFails,
     SaveEvent, AnswerEvent, cycle
<1>3. CASE ReviewNext
  BY <1>3, NewsStutter DEF ReviewNext, ListClosed, TakeClosed, AnswerReview, CallForReview, ReviewCallFails,
     FinishReview, TellReview, cycle
<1>4. CASE UNCHANGED vars
  BY <1>4, NewsStutter DEF vars, cycle
<1>. QED
  BY <1>1, <1>2, <1>3, <1>4

LEMMA NewsSteps ==
    ASSUME NewsInv, NewsNext
    PROVE  NewsInv'
<1>. USE DEF NewsInv
<1>1. ASSUME NEW listed \in SUBSET Items, StartNews(listed)
      PROVE  NewsInv'
  <2>. DEFINE fresh == Unprocessed(listed)
  <2>1. /\ news = Idle /\ news' = [step |-> "wait", items |-> fresh, picked |-> {}, unmarked |-> fresh]
        /\ UNCHANGED <<processed, told, slip>>
    BY <1>1 DEF StartNews
  <2>2. fresh \subseteq Items /\ fresh \cap processed = {}
    BY DEF Unprocessed
  <2>. HIDE DEF fresh
  <2>3. /\ news'.step = "wait" /\ news'.items = fresh /\ news'.picked = {} /\ news'.unmarked = fresh
        /\ news.step = "idle"
    BY <2>1 DEF Idle
  <2>4. NewsType' /\ NewsFresh'
    BY <2>1, <2>2, <2>3 DEF NewsType, NewsFresh
  <2>5. ToldOnce'
    BY <2>1, <2>3 DEF ToldOnce, Owed
  <2>. QED
    BY <2>4, <2>5
<1>2. ASSUME NEW picked \in SUBSET Items, AnswerNews(picked)
      PROVE  NewsInv'
  <2>1. /\ news.step = "wait" /\ picked \subseteq news.items /\ UNCHANGED <<processed, told, slip>>
        /\ \/ news' = [news EXCEPT !.step = IF picked = {} THEN "mark" ELSE "tell", !.picked = picked]
           \/ news' = Idle
    BY <1>2 DEF AnswerNews
  <2>2. CASE news' = Idle
    BY <2>1, <2>2 DEF NewsType, NewsFresh, ToldOnce, Owed, Idle
  <2>3. CASE news' = [news EXCEPT !.step = IF picked = {} THEN "mark" ELSE "tell", !.picked = picked]
    <3>1. news \in [step : {"wait", "tell", "mark"}, items : SUBSET Items,
                    picked : SUBSET Items, unmarked : SUBSET Items]
      BY <2>1 DEF NewsType, Idle
    <3>2. /\ news'.step = (IF picked = {} THEN "mark" ELSE "tell") /\ news'.picked = picked
          /\ news'.items = news.items /\ news'.unmarked = news.unmarked
      BY <2>3, <3>1
    <3>3. NewsType'
      BY <2>1, <2>3, <3>1 DEF NewsType
    <3>4. NewsFresh'
      BY <2>1, <3>2 DEF NewsFresh
    <3>5. ToldOnce'
      BY <2>1, <3>2 DEF ToldOnce, Owed
    <3>. QED
      BY <3>3, <3>4, <3>5
  <2>. QED
    BY <2>1, <2>2, <2>3
<1>3. CASE TellNews
  <2>1. /\ news.step = "tell" /\ UNCHANGED <<processed, slip>>
        /\ \/ /\ told' = [i \in Items |-> told[i] + IF i \in news.picked THEN 1 ELSE 0]
              /\ news' = [news EXCEPT !.step = "mark"]
           \/ told' = told /\ news' = [news EXCEPT !.step = "mark", !.picked = {}]
    BY <1>3 DEF TellNews
  <2>2. news \in [step : {"wait", "tell", "mark"}, items : SUBSET Items,
                  picked : SUBSET Items, unmarked : SUBSET Items]
    BY <2>1 DEF NewsType, Idle
  <2>3. CASE /\ told' = [i \in Items |-> told[i] + IF i \in news.picked THEN 1 ELSE 0]
             /\ news' = [news EXCEPT !.step = "mark"]
    <3>1. /\ news'.step = "mark" /\ news'.picked = news.picked
          /\ news'.items = news.items /\ news'.unmarked = news.unmarked
      BY <2>2, <2>3
    <3>2. NewsType'
      BY <2>1, <2>2, <2>3 DEF NewsType
    <3>3. NewsFresh'
      BY <2>1, <3>1 DEF NewsFresh
    <3>4. ToldOnce'
      <4>1. \A i \in Items : i \in news.picked => i \in news.unmarked /\ told[i] <= slip[i]
        BY <2>1 DEF NewsFresh, ToldOnce, Owed
      <4>2. \A i \in Items : told[i] \in Nat /\ slip[i] \in Nat
                             /\ told'[i] = told[i] + IF i \in news.picked THEN 1 ELSE 0
        BY <2>3 DEF NewsType
      <4>3. \A i \in Items : Owed(i)' <=> i \in processed \/ i \in news.picked
        BY <2>1, <3>1, <4>1 DEF Owed
      <4>4. \A i \in Items : ~Owed(i)' => ~Owed(i)
        BY <2>1, <4>3 DEF Owed
      <4>. QED
        BY <2>1, <4>1, <4>2, <4>3, <4>4 DEF ToldOnce
    <3>. QED
      BY <3>2, <3>3, <3>4
  <2>4. CASE told' = told /\ news' = [news EXCEPT !.step = "mark", !.picked = {}]
    <3>1. /\ news'.step = "mark" /\ news'.picked = {}
          /\ news'.items = news.items /\ news'.unmarked = news.unmarked
      BY <2>2, <2>4
    <3>2. NewsType'
      BY <2>1, <2>2, <2>4 DEF NewsType
    <3>3. NewsFresh'
      BY <2>1, <3>1 DEF NewsFresh
    <3>4. ToldOnce'
      BY <2>1, <2>4, <3>1 DEF ToldOnce, Owed
    <3>. QED
      BY <3>2, <3>3, <3>4
  <2>. QED
    BY <2>1, <2>3, <2>4
<1>4. ASSUME NEW i \in Items, MarkItem(i)
      PROVE  NewsInv'
  <2>1. /\ news.step = "mark" /\ i \in news.unmarked /\ told' = told
        /\ \/ processed' = processed \cup {i} /\ slip' = slip
           \/ /\ processed' = processed
              /\ slip' = [slip EXCEPT ![i] = @ + IF i \in news.picked THEN 1 ELSE 0]
        /\ news' = IF news.unmarked = {i} THEN Idle ELSE [news EXCEPT !.unmarked = @ \ {i}]
    BY <1>4 DEF MarkItem
  <2>2. news \in [step : {"wait", "tell", "mark"}, items : SUBSET Items,
                  picked : SUBSET Items, unmarked : SUBSET Items]
    BY <2>1 DEF NewsType, Idle
  <2>3. \/ news' = Idle /\ news'.step = "idle" /\ news.unmarked = {i}
        \/ /\ news'.step = "mark" /\ news'.picked = news.picked /\ news'.unmarked = news.unmarked \ {i}
           /\ news' \in [step : {"wait", "tell", "mark"}, items : SUBSET Items,
                         picked : SUBSET Items, unmarked : SUBSET Items]
    BY <2>1, <2>2 DEF Idle
  <2>4. NewsType'
    BY <2>1, <2>3 DEF NewsType
  <2>5. NewsFresh'
    BY <2>1, <2>3 DEF NewsFresh
  <2>6. ToldOnce'
    <3>1. \A j \in Items : told[j] \in Nat /\ slip[j] \in Nat
      BY DEF NewsType
    <3>2. \A j \in Items : j # i /\ ~Owed(j)' => ~Owed(j)
      BY <2>1, <2>3 DEF Owed
    <3>3. \A j \in Items : slip'[j] = slip[j] \/ (j = i /\ slip'[j] = slip[j] + 1)
      <4>1. CASE i \in news.picked
        BY <2>1, <3>1, <4>1 DEF NewsType
      <4>2. CASE i \notin news.picked
        BY <2>1, <3>1, <4>2 DEF NewsType
      <4>. QED
        BY <4>1, <4>2
    <3>4. ~Owed(i)' => told[i] <= slip'[i]
      <4>1. CASE processed' = processed \cup {i}
        BY <4>1 DEF Owed
      <4>2. CASE processed' = processed /\ slip' = [slip EXCEPT ![i] = @ + IF i \in news.picked THEN 1 ELSE 0]
        <5>1. CASE i \in news.picked
          <6>1. slip'[i] = slip[i] + 1
            BY <4>2, <5>1 DEF NewsType
          <6>. QED
            BY <6>1 DEF ToldOnce
        <5>2. CASE i \notin news.picked
          BY <2>1, <3>1, <3>3, <4>2, <5>2 DEF ToldOnce, Owed
        <5>. QED
          BY <5>1, <5>2
      <4>. QED
        BY <2>1, <4>1, <4>2
    <3>. QED
      BY <2>1, <3>1, <3>2, <3>3, <3>4 DEF ToldOnce
  <2>. QED
    BY <2>4, <2>5, <2>6
<1>. QED
  BY <1>1, <1>2, <1>3, <1>4 DEF NewsNext

LEMMA NewsRestart == ASSUME NewsInv, Restart PROVE NewsInv'
<1>1. /\ news' = Idle /\ news'.step = "idle" /\ UNCHANGED <<processed, told>>
      /\ slip' = [i \in Items |-> slip[i]
                    + IF news.step = "mark" /\ i \in news.picked \cap news.unmarked THEN 1 ELSE 0]
  BY DEF Restart, Idle
<1>2. \A i \in Items : told[i] \in Nat /\ slip[i] \in Nat
  BY DEF NewsInv, NewsType
<1>3. \A i \in Items : slip'[i] = slip[i] + (IF Owed(i) /\ i \notin processed THEN 1 ELSE 0)
  <2>1. news.step = "mark" => news.unmarked \cap processed = {}
    BY DEF NewsInv, NewsFresh
  <2>. QED
    BY <1>1, <2>1 DEF Owed
<1>4. slip' \in [Items -> Nat]
  BY <1>1, <1>2
<1>5. NewsType' /\ NewsFresh'
  BY <1>1, <1>4 DEF NewsInv, NewsType, NewsFresh
<1>6. ToldOnce'
  <2>1. \A i \in Items : Owed(i)' <=> i \in processed
    BY <1>1 DEF Owed
  <2>. QED
    BY <1>1, <1>2, <1>3, <2>1 DEF NewsInv, ToldOnce
<1>. QED
  BY <1>5, <1>6 DEF NewsInv

\* Whatever the annotations, the failures and the restarts, a message is sent again
\* only after the mark of an earlier one failed or was cut off.
THEOREM RepeatsExplained == Spec => []RepeatHasCause
<1>1. NewsInv /\ [Next]_vars => NewsInv'
  BY NewsOthers, NewsSteps, NewsRestart DEF Next
<1>2. NewsInv => RepeatHasCause
  BY DEF NewsInv, ToldOnce, RepeatHasCause
<1>. QED
  BY NewsInit, <1>1, <1>2, PTL DEF Spec

-----------------------------------------------------------------------------
(* The close review: SecondReviewHasCause *)

ReviewJobs == [step : {"call", "wait", "finish", "tell"}, market : Markets]

ReviewType ==
    /\ job = Idle \/ job \in ReviewJobs
    /\ reviewed \subseteq Markets /\ todo \subseteq Markets
    /\ bought \in [Markets -> Nat] /\ waste \in [Markets -> Nat] /\ summary \in [Markets -> Nat]

\* The market in hand has no succeeded row before FinishReview, and one after it.
InHandUnreviewed ==
    /\ job.step \in {"call", "wait", "finish"} => job.market \notin reviewed
    /\ job.step = "tell" => job.market \in reviewed /\ summary[job.market] = 0

\* An answer not wasted has become the succeeded row, or is about to.
Kept(m) == m \in reviewed \/ (job.step = "finish" /\ job.market = m)
BoughtOnce ==
    \A m \in Markets : /\ bought[m] <= waste[m] + 1 /\ (~Kept(m) => bought[m] <= waste[m])
                       /\ summary[m] <= 1 /\ (m \notin reviewed => summary[m] = 0)

ReviewInv == ReviewType /\ InHandUnreviewed /\ BoughtOnce

LEMMA ReviewInit == Init => ReviewInv
BY DEF Init, ReviewInv, ReviewType, InHandUnreviewed, BoughtOnce, Kept, Idle

\* The steps of the other parts leave the reviews alone.
LEMMA ReviewStutter == ASSUME ReviewInv, UNCHANGED reviews PROVE ReviewInv'
<1>1. ReviewType' /\ InHandUnreviewed'
  BY DEF ReviewInv, ReviewType, InHandUnreviewed, reviews
<1>2. BoughtOnce'
  BY DEF ReviewInv, BoughtOnce, Kept, reviews
<1>. QED
  BY <1>1, <1>2 DEF ReviewInv

LEMMA ReviewOthers ==
    ASSUME ReviewInv, Tick \/ ImporterNext \/ NewsNext \/ UNCHANGED vars
    PROVE  ReviewInv'
<1>1. CASE Tick
  BY <1>1, ReviewStutter DEF Tick
<1>2. CASE ImporterNext
  BY <1>2, ReviewStutter DEF ImporterNext, SelectEvents, LoadEvent, AskForEvent, CallForEvent, EventCallFails,
     SaveEvent, AnswerEvent
<1>3. CASE NewsNext
  BY <1>3, ReviewStutter DEF NewsNext, StartNews, AnswerNews, MarkItem, TellNews
<1>4. CASE UNCHANGED vars
  BY <1>4, ReviewStutter DEF vars
<1>. QED
  BY <1>1, <1>2, <1>3, <1>4

\* A step that takes, keeps or drops the market in hand and counts nothing.
LEMMA ReviewMoves ==
    ASSUME ReviewInv, job.step # "finish", todo' \subseteq Markets,
           UNCHANGED <<reviewed, bought, waste, summary>>,
           \/ job' = Idle
           \/ job' \in ReviewJobs /\ job'.step \in {"call", "wait"} /\ job'.market \notin reviewed
           \/ job' = job
    PROVE  ReviewInv'
<1>1. job' = Idle => job'.step = "idle"
  BY DEF Idle
<1>2. ReviewType' /\ InHandUnreviewed'
  BY <1>1 DEF ReviewInv, ReviewType, InHandUnreviewed
<1>3. \A m \in Markets : Kept(m)' <=> Kept(m)
  BY <1>1 DEF Kept
<1>4. BoughtOnce'
  BY <1>3 DEF ReviewInv, BoughtOnce
<1>. QED
  BY <1>2, <1>4 DEF ReviewInv

LEMMA ReviewSteps ==
    ASSUME ReviewInv, ReviewNext
    PROVE  ReviewInv'
<1>1. ASSUME NEW listed \in SUBSET Markets, ListClosed(listed)
      PROVE  ReviewInv'
  BY <1>1, ReviewMoves DEF ListClosed, Idle
<1>2. ASSUME NEW m \in Markets, TakeClosed(m)
      PROVE  ReviewInv'
  <2>1. /\ job = Idle /\ job.step = "idle" /\ todo' = todo \ {m}
        /\ UNCHANGED <<reviewed, bought, waste, summary>>
        /\ \/ job' = job
           \/ m \notin reviewed /\ job' = [step |-> "call", market |-> m]
           \/ job' = Idle
    BY <1>2 DEF TakeClosed, Idle
  <2>2. todo' \subseteq Markets
    BY <2>1 DEF ReviewInv, ReviewType
  <2>3. CASE m \notin reviewed /\ job' = [step |-> "call", market |-> m]
    <3>1. job' \in ReviewJobs /\ job'.step = "call" /\ job'.market = m
      BY <2>3 DEF ReviewJobs
    <3>. QED
      BY <2>1, <2>2, <2>3, <3>1, ReviewMoves
  <2>. QED
    BY <2>1, <2>2, <2>3, ReviewMoves
<1>3. CASE CallForReview
  <2>1. /\ job.step = "call" /\ UNCHANGED <<todo, reviewed, bought, waste, summary>>
        /\ job' = [job EXCEPT !.step = "wait"] \/ job' = Idle
    BY <1>3 DEF CallForReview
  <2>2. job \in ReviewJobs /\ job.market \notin reviewed /\ todo' \subseteq Markets
    BY <2>1 DEF ReviewInv, ReviewType, InHandUnreviewed, Idle
  <2>3. CASE job' = [job EXCEPT !.step = "wait"]
    <3>1. job' \in ReviewJobs /\ job'.step = "wait" /\ job'.market = job.market
      BY <2>2, <2>3 DEF ReviewJobs
    <3>. QED
      BY <2>1, <2>2, <3>1, ReviewMoves
  <2>. QED
    BY <2>1, <2>2, <2>3, ReviewMoves
<1>4. CASE ReviewCallFails
  <2>1. /\ job.step = "wait" /\ job' = Idle /\ UNCHANGED <<todo, reviewed, bought, waste, summary>>
    BY <1>4 DEF ReviewCallFails
  <2>2. todo' \subseteq Markets
    BY <2>1 DEF ReviewInv, ReviewType
  <2>. QED
    BY <2>1, <2>2, ReviewMoves
<1>5. ASSUME NEW cost \in 1 .. MaxCost, AnswerReview(cost)
      PROVE  ReviewInv'
  <2>1. /\ job.step = "wait" /\ UNCHANGED <<todo, reviewed, summary>>
        /\ bought' = [bought EXCEPT ![job.market] = @ + 1]
        /\ \/ job' = [job EXCEPT !.step = "finish"] /\ waste' = waste
           \/ job' = Idle /\ waste' = [waste EXCEPT ![job.market] = @ + 1]
    BY <1>5 DEF AnswerReview
  <2>2. job \in ReviewJobs /\ job.market \in Markets /\ job.market \notin reviewed
    BY <2>1 DEF ReviewInv, ReviewType, ReviewJobs, InHandUnreviewed, Idle
  <2>3. \/ /\ job' \in ReviewJobs /\ job'.step = "finish" /\ job'.market = job.market /\ waste' = waste
        \/ /\ job' = Idle /\ job'.step = "idle" /\ waste' = [waste EXCEPT ![job.market] = @ + 1]
    BY <2>1, <2>2 DEF ReviewJobs, Idle
  <2>4. ReviewType' /\ InHandUnreviewed'
    BY <2>1, <2>2, <2>3 DEF ReviewInv, ReviewType, InHandUnreviewed
  <2>5. \A m \in Markets : /\ m # job.market => bought'[m] = bought[m] /\ waste'[m] = waste[m]
                           /\ bought[m] \in Nat /\ waste[m] \in Nat
    BY <2>1, <2>2 DEF ReviewInv, ReviewType
  <2>6. /\ bought'[job.market] = bought[job.market] + 1
        /\ bought[job.market] <= waste[job.market]
        /\ \A m \in Markets : m = job.market => Kept(m)' \/ waste'[m] = waste[m] + 1
        /\ waste'[job.market] \in {waste[job.market], waste[job.market] + 1}
    BY <2>1, <2>2, <2>3 DEF ReviewInv, ReviewType, BoughtOnce, Kept
  <2>7. \A m \in Markets : m # job.market => (Kept(m)' <=> Kept(m))
    BY <2>1, <2>3 DEF Kept
  <2>8. \A m \in Markets : bought'[m] <= waste'[m] + 1 /\ (~Kept(m)' => bought'[m] <= waste'[m])
    <3>1. SUFFICES ASSUME NEW m \in Markets
                   PROVE  bought'[m] <= waste'[m] + 1 /\ (~Kept(m)' => bought'[m] <= waste'[m])
      OBVIOUS
    <3>2. CASE m = job.market
      BY <2>2, <2>5, <2>6, <3>2
    <3>3. CASE m # job.market
      BY <2>5, <2>7, <3>3 DEF ReviewInv, BoughtOnce
    <3>. QED
      BY <3>2, <3>3
  <2>9. BoughtOnce'
    BY <2>1, <2>8 DEF ReviewInv, BoughtOnce
  <2>. QED
    BY <2>4, <2>9 DEF ReviewInv
<1>6. CASE FinishReview
  <2>1. /\ job.step = "finish" /\ UNCHANGED <<todo, bought, summary>>
        /\ \/ /\ reviewed' = reviewed \cup {job.market} /\ waste' = waste
              /\ job' = [job EXCEPT !.step = "tell"] \/ job' = Idle
           \/ reviewed' = reviewed /\ job' = Idle /\ waste' = [waste EXCEPT ![job.market] = @ + 1]
    BY <1>6 DEF FinishReview
  <2>2. job \in ReviewJobs /\ job.market \in Markets /\ job.market \notin reviewed
    BY <2>1 DEF ReviewInv, ReviewType, ReviewJobs, InHandUnreviewed, Idle
  <2>3. \/ /\ job' \in ReviewJobs /\ job'.step = "tell" /\ job'.market = job.market
           /\ reviewed' = reviewed \cup {job.market}
        \/ job' = Idle /\ job'.step = "idle"
    BY <2>1, <2>2 DEF ReviewJobs, Idle
  <2>4. ReviewType'
    BY <2>1, <2>2, <2>3 DEF ReviewInv, ReviewType
  <2>5. InHandUnreviewed'
    BY <2>1, <2>2, <2>3 DEF ReviewInv, BoughtOnce, InHandUnreviewed
  <2>6. \A m \in Markets : /\ bought[m] \in Nat /\ waste[m] \in Nat /\ waste'[m] \in Nat
                           /\ waste[m] <= waste'[m]
                           /\ m \notin reviewed' => m \notin reviewed
    BY <2>1, <2>2 DEF ReviewInv, ReviewType
  <2>7. \A m \in Markets : ~Kept(m)' => bought[m] <= waste'[m]
    <3>1. SUFFICES ASSUME NEW m \in Markets, ~Kept(m)'
                   PROVE  bought[m] <= waste'[m]
      OBVIOUS
    <3>2. CASE m = job.market
      <4>1. waste'[m] = waste[m] + 1
        BY <2>1, <2>2, <3>1, <3>2 DEF Kept, ReviewInv, ReviewType
      <4>. QED
        BY <4>1 DEF ReviewInv, BoughtOnce
    <3>3. CASE m # job.market
      <4>1. ~Kept(m)
        BY <2>1, <2>6, <3>1, <3>3 DEF Kept
      <4>. QED
        BY <2>6, <4>1 DEF ReviewInv, BoughtOnce
    <3>. QED
      BY <3>2, <3>3
  <2>8. BoughtOnce'
    BY <2>1, <2>6, <2>7 DEF ReviewInv, BoughtOnce
  <2>. QED
    BY <2>4, <2>5, <2>8 DEF ReviewInv
<1>7. CASE TellReview
  <2>1. /\ job.step = "tell" /\ UNCHANGED <<todo, reviewed, bought, waste>>
        /\ job' = Idle /\ job'.step = "idle"
        /\ summary' = [summary EXCEPT ![job.market] = @ + 1] \/ summary' = summary
    BY <1>7 DEF TellReview, Idle
  <2>2. job.market \in Markets /\ job.market \in reviewed /\ summary[job.market] = 0
    BY <2>1 DEF ReviewInv, ReviewType, ReviewJobs, InHandUnreviewed, Idle
  <2>3. ReviewType' /\ InHandUnreviewed'
    BY <2>1, <2>2 DEF ReviewInv, ReviewType, InHandUnreviewed
  <2>4. \A m \in Markets : /\ summary'[m] = summary[m] \/ (m = job.market /\ summary'[m] = 1)
                           /\ Kept(m)' <=> Kept(m)
    BY <2>1, <2>2 DEF Kept, ReviewInv, ReviewType
  <2>5. BoughtOnce'
    BY <2>1, <2>2, <2>4 DEF ReviewInv, BoughtOnce
  <2>. QED
    BY <2>3, <2>5 DEF ReviewInv
<1>. QED
  BY <1>1, <1>2, <1>3, <1>4, <1>5, <1>6, <1>7 DEF ReviewNext

LEMMA ReviewRestart == ASSUME ReviewInv, Restart PROVE ReviewInv'
<1>1. /\ job' = Idle /\ job'.step = "idle" /\ todo' = {} /\ UNCHANGED <<reviewed, bought, summary>>
      /\ waste' = [m \in Markets |-> waste[m] + IF job.step = "finish" /\ job.market = m THEN 1 ELSE 0]
  BY DEF Restart, Idle
<1>2. \A m \in Markets : bought[m] \in Nat /\ waste[m] \in Nat
  BY DEF ReviewInv, ReviewType
<1>3. ReviewType' /\ InHandUnreviewed'
  <2>1. waste' \in [Markets -> Nat]
    BY <1>1, <1>2
  <2>. QED
    BY <1>1, <2>1 DEF ReviewInv, ReviewType, InHandUnreviewed
<1>4. \A m \in Markets : /\ ~Kept(m)' <=> m \notin reviewed
                         /\ waste'[m] \in {waste[m], waste[m] + 1}
                         /\ m \notin reviewed => ~Kept(m) \/ waste'[m] = waste[m] + 1
  BY <1>1, <1>2 DEF Kept
<1>5. BoughtOnce'
  BY <1>1, <1>2, <1>4 DEF ReviewInv, BoughtOnce
<1>. QED
  BY <1>3, <1>5 DEF ReviewInv

\* Whatever the markets, the failures and the restarts, a review is bought again only
\* after an answer that did not become its row, and its summary goes out at most once.
THEOREM SecondReviewsExplained == Spec => []SecondReviewHasCause
<1>1. ReviewInv /\ [Next]_vars => ReviewInv'
  BY ReviewOthers, ReviewSteps, ReviewRestart DEF Next
<1>2. ReviewInv => SecondReviewHasCause
  BY DEF ReviewInv, BoughtOnce, SecondReviewHasCause
<1>. QED
  BY ReviewInit, <1>1, <1>2, PTL DEF Spec

-----------------------------------------------------------------------------
(* The governors: BillIsBounded *)

\* Who may still be let through to pay, and who is about to.
Pool(b)    == IF b = Importer THEN Slots ELSE {0}
Engaged(b, steps) == IF b = Importer THEN {s \in Slots : slot[s].step \in steps}
                  ELSE {x \in {0} : job.step \in steps}
Asking(b)  == Engaged(b, {"call", "wait"})
Waiting(b) == Engaged(b, {"wait"})

\* The most that a set of workers can still spend.
Reserved(S) == Cardinality(S) * MaxCost

\* What the governors have seen of the day, and what one life may spend by the client alone.
Spent(b)    == Rolled.by[b]
OwnSpent(b) == OwnRolled(b).spent
OwnRoom(b)  == OwnCap + Workers[b] * MaxCost

Rows  == [status : {"none", "active", "resolved", "stale"}, at : Nat \cup {Never}]
Works == {Idle} \cup [step : {"ask", "call", "wait"}, event : Events, existing : Rows]
                \cup [step : {"save"}, event : Events, existing : Rows, says : Says]

ImportType ==
    /\ queue \subseteq Events /\ slot \in [Slots -> Works]
    /\ catalyst \in [Events -> Rows]

MoneyType ==
    /\ now \in Nat /\ lives \in Nat /\ lives > 0
    /\ ledger \in [day : Nat, by : [Buckets -> Nat], all : Nat] /\ ledger.day <= Today
    /\ own \in [Buckets -> [day : Nat, spent : Nat]] /\ \A b \in Buckets : own[b].day <= Today
    /\ bill \in [Buckets -> Nat] /\ unseen \in [Buckets -> Nat]

\* What is spent and what is in flight fit in the room of one life; what was billed before
\* this life fits in the room of the lives before.
Fits(b) ==
    /\ Cap[b] > 0 => Spent(b) + Reserved(Asking(b)) <= Room(b)
    /\ OwnSpent(b) + Reserved(Waiting(b)) <= OwnRoom(b)
    /\ Cap[b] > 0 => bill[b] <= (lives - 1) * Room(b) + unseen[b] + Spent(b)
    /\ bill[b] <= (lives - 1) * OwnRoom(b) + OwnSpent(b)

MoneyInv == ReviewInv /\ ImportType /\ MoneyType /\ \A b \in Buckets : Fits(b)

(* Facts about numbers *)

LEMMA TodayFacts ==
    ASSUME NEW t \in Nat
    PROVE  t \div DayLength \in Nat /\ t \div DayLength <= (t + 1) \div DayLength
<1>1. DayLength \in Nat /\ DayLength > 0
  BY TimesAssumption
<1>. QED
  BY <1>1, SMT

LEMMA Distributes ==
    ASSUME NEW n \in Int, NEW r \in Int
    PROVE  (n + 1) * r = n * r + r /\ n * r \in Int
BY SMT

LEMMA Monotone ==
    ASSUME NEW n \in Nat, NEW k \in Nat, NEW r \in Nat, n <= k
    PROVE  n * r <= k * r /\ n * r \in Nat
BY SMT

LEMMA PoolFacts ==
    ASSUME NEW b \in Buckets
    PROVE  /\ IsFiniteSet(Pool(b)) /\ Workers[b] = Cardinality(Pool(b))
           /\ Reserved(Pool(b)) \in Nat /\ Workers[b] * MaxCost = Reserved(Pool(b))
<1>1. IsFiniteSet({0}) /\ Cardinality({0}) = 1
  BY FS_Singleton
<1>2. IsFiniteSet(Pool(b)) /\ Workers[b] = Cardinality(Pool(b))
  BY <1>1, SetsAssumption DEF Pool, Workers
<1>3. Cardinality(Pool(b)) \in Nat /\ MaxCost \in Nat
  BY <1>2, FS_CardinalityType, CapsAssumption
<1>. QED
  BY <1>2, <1>3, Monotone DEF Reserved

LEMMA ReservedFacts ==
    ASSUME NEW b \in Buckets, NEW T \in SUBSET Pool(b)
    PROVE  /\ Reserved(T) \in Nat
           /\ \A U \in SUBSET T : Reserved(U) \in Nat /\ Reserved(U) <= Reserved(T)
           /\ \A x \in T : Reserved(T) = Reserved(T \ {x}) + MaxCost
<1>1. IsFiniteSet(T) /\ MaxCost \in Nat
  BY PoolFacts, FS_Subset, CapsAssumption
<1>2. ASSUME NEW U \in SUBSET T
      PROVE  Reserved(U) \in Nat /\ Reserved(U) <= Reserved(T) /\ Cardinality(U) \in Nat
  <2>1. /\ IsFiniteSet(U) /\ Cardinality(U) <= Cardinality(T)
        /\ Cardinality(U) \in Nat /\ Cardinality(T) \in Nat
    BY <1>1, FS_Subset, FS_CardinalityType
  <2>. QED
    BY <1>1, <2>1, Monotone DEF Reserved
<1>3. ASSUME NEW x \in T
      PROVE  Reserved(T) = Reserved(T \ {x}) + MaxCost
  <2>1. Cardinality(T \ {x}) = Cardinality(T) - 1 /\ Cardinality(T) \in Nat
    BY <1>1, FS_RemoveElement, FS_CardinalityType
  <2>2. Cardinality(T) = Cardinality(T \ {x}) + 1 /\ Cardinality(T \ {x}) \in Int
    BY <2>1
  <2>. QED
    BY <1>1, <2>2, Distributes DEF Reserved
<1>. QED
  BY <1>2, <1>3

LEMMA RoomFacts ==
    ASSUME NEW b \in Buckets
    PROVE  /\ Room(b) \in Nat /\ OwnRoom(b) = OwnCap + Reserved(Pool(b)) /\ OwnRoom(b) \in Nat
           /\ Reserved(Pool(b)) <= Room(b) /\ Cap[b] - Est[b] + Reserved(Pool(b)) <= Room(b)
           /\ Cap[b] \in Nat /\ Est[b] \in Nat /\ OwnCap \in Nat /\ MaxCost \in Nat
<1>1. Cap[b] \in Nat /\ Est[b] \in Nat /\ OwnCap \in Nat /\ MaxCost \in Nat
  BY CapsAssumption
<1>2. Room(b) = (IF Cap[b] > Est[b] THEN Cap[b] - Est[b] ELSE 0) + Reserved(Pool(b))
  BY PoolFacts DEF Room
<1>. QED
  BY <1>1, <1>2, PoolFacts DEF OwnRoom

LEMMA SpentFacts ==
    ASSUME MoneyType, NEW b \in Buckets
    PROVE  /\ Spent(b) = (IF ledger.day = Today THEN ledger.by[b] ELSE 0) /\ Spent(b) \in Nat
           /\ OwnSpent(b) = (IF own[b].day = Today THEN own[b].spent ELSE 0) /\ OwnSpent(b) \in Nat
           /\ Rolled \in [day : Nat, by : [Buckets -> Nat], all : Nat] /\ Rolled.day = Today
           /\ OwnRolled(b) \in [day : Nat, spent : Nat] /\ OwnRolled(b).day = Today
           /\ bill[b] \in Nat /\ unseen[b] \in Nat /\ Today \in Nat
           /\ Asking(b) \in SUBSET Pool(b) /\ Waiting(b) \in SUBSET Asking(b)
<1>1. Today \in Nat
  BY TodayFacts DEF MoneyType, Today
<1>2. Zero \in [Buckets -> Nat] /\ \A c \in Buckets : Zero[c] = 0
  BY DEF Zero
<1>3. Rolled \in [day : Nat, by : [Buckets -> Nat], all : Nat] /\ Rolled.day = Today
  BY <1>1, <1>2 DEF MoneyType, Rolled
<1>4. OwnRolled(b) \in [day : Nat, spent : Nat] /\ OwnRolled(b).day = Today
  BY <1>1 DEF MoneyType, OwnRolled
<1>5. Spent(b) = (IF ledger.day = Today THEN ledger.by[b] ELSE 0)
  BY <1>2 DEF Spent, Rolled
<1>6. OwnSpent(b) = (IF own[b].day = Today THEN own[b].spent ELSE 0)
  BY DEF OwnSpent, OwnRolled
<1>7. Asking(b) \in SUBSET Pool(b) /\ Waiting(b) \in SUBSET Asking(b)
  BY DEF Asking, Waiting, Engaged, Pool
<1>. QED
  BY <1>1, <1>3, <1>4, <1>5, <1>6, <1>7 DEF MoneyType, Spent, OwnSpent

(* What a step may do to the money of a bucket *)

Quiet(b) == /\ bill'[b] = bill[b] /\ unseen'[b] = unseen[b] /\ lives' = lives

\* Workers come back, nothing is paid.
LEMMA FitsLess ==
    ASSUME MoneyType, MoneyType', NEW b \in Buckets, Fits(b), Quiet(b),
           Spent(b)' = Spent(b), OwnSpent(b)' = OwnSpent(b),
           Asking(b)' \subseteq Asking(b), Waiting(b)' \subseteq Waiting(b)
    PROVE  Fits(b)'
<1>1. Asking(b) \in SUBSET Pool(b) /\ Waiting(b) \in SUBSET Pool(b)
  BY SpentFacts
<1>2. /\ Reserved(Asking(b))' <= Reserved(Asking(b)) /\ Reserved(Asking(b))' \in Nat /\ Reserved(Asking(b)) \in Nat
      /\ Reserved(Waiting(b))' <= Reserved(Waiting(b)) /\ Reserved(Waiting(b))' \in Nat /\ Reserved(Waiting(b)) \in Nat
  BY <1>1, ReservedFacts DEF Reserved
<1>. QED
  BY <1>2, SpentFacts, RoomFacts DEF Fits, Quiet, Room, OwnRoom, Workers

\* Allow lets one more worker through: the others were let through before.
LEMMA FitsGrant ==
    ASSUME MoneyType, MoneyType', NEW b \in Buckets, Fits(b), Quiet(b), Allows(b),
           Spent(b)' = Spent(b), OwnSpent(b)' = OwnSpent(b),
           Asking(b)' \subseteq Pool(b), Waiting(b)' \subseteq Waiting(b)
    PROVE  Fits(b)'
<1>1. Waiting(b) \in SUBSET Pool(b)
  BY SpentFacts
<1>2. /\ Reserved(Asking(b))' <= Reserved(Pool(b)) /\ Reserved(Asking(b))' \in Nat
      /\ Reserved(Waiting(b))' <= Reserved(Waiting(b)) /\ Reserved(Waiting(b))' \in Nat /\ Reserved(Waiting(b)) \in Nat
      /\ Reserved(Pool(b)) \in Nat
  BY <1>1, ReservedFacts, PoolFacts DEF Reserved
<1>3. Cap[b] > 0 => Spent(b) <= Cap[b] - Est[b]
  BY SpentFacts, RoomFacts DEF Allows, Spent
<1>4. Cap[b] > 0 => Spent(b)' + Reserved(Asking(b))' <= Room(b)
  BY <1>2, <1>3, SpentFacts, RoomFacts
<1>. QED
  BY <1>2, <1>4, SpentFacts, RoomFacts DEF Fits, Quiet, Room, OwnRoom, Workers

\* The client lets one more request out.
LEMMA FitsOwnGrant ==
    ASSUME MoneyType, MoneyType', NEW b \in Buckets, Fits(b), Quiet(b), OwnAllows(b),
           Spent(b)' = Spent(b), OwnSpent(b)' = OwnSpent(b),
           Asking(b)' \subseteq Asking(b), Waiting(b)' \subseteq Pool(b)
    PROVE  Fits(b)'
<1>1. Asking(b) \in SUBSET Pool(b)
  BY SpentFacts
<1>2. /\ Reserved(Asking(b))' <= Reserved(Asking(b)) /\ Reserved(Asking(b))' \in Nat /\ Reserved(Asking(b)) \in Nat
      /\ Reserved(Waiting(b))' <= Reserved(Pool(b)) /\ Reserved(Waiting(b))' \in Nat /\ Reserved(Pool(b)) \in Nat
  BY <1>1, ReservedFacts, PoolFacts DEF Reserved
<1>3. OwnSpent(b) <= OwnCap
  BY SpentFacts, RoomFacts DEF OwnAllows, OwnSpent
<1>4. OwnSpent(b)' + Reserved(Waiting(b))' <= OwnRoom(b)
  BY <1>2, <1>3, SpentFacts, RoomFacts
<1>. QED
  BY <1>2, <1>4, SpentFacts, RoomFacts DEF Fits, Quiet, Room, OwnRoom, Workers

\* An answer is paid by a worker that was let through, charged or dropped.
LEMMA FitsPay ==
    ASSUME MoneyType, MoneyType', NEW b \in Buckets, Fits(b), NEW cost \in 1 .. MaxCost,
           bill'[b] = bill[b] + cost, lives' = lives,
           OwnSpent(b)' = OwnSpent(b) + cost,
           \/ Spent(b)' = Spent(b) + cost /\ unseen'[b] = unseen[b]
           \/ Spent(b)' = Spent(b) /\ unseen'[b] = unseen[b] + cost,
           NEW x \in Waiting(b), Asking(b)' = Asking(b) \ {x}, Waiting(b)' = Waiting(b) \ {x}
    PROVE  Fits(b)'
<1>1. /\ Asking(b) \in SUBSET Pool(b) /\ Waiting(b) \in SUBSET Pool(b)
      /\ x \in Asking(b)
  BY SpentFacts
<1>2. /\ Reserved(Asking(b)) = Reserved(Asking(b))' + MaxCost /\ Reserved(Asking(b))' \in Nat /\ Reserved(Asking(b)) \in Nat
      /\ Reserved(Waiting(b)) = Reserved(Waiting(b))' + MaxCost /\ Reserved(Waiting(b))' \in Nat /\ Reserved(Waiting(b)) \in Nat
  BY <1>1, ReservedFacts DEF Reserved
<1>3. cost \in Nat /\ cost <= MaxCost /\ MaxCost \in Nat
  BY CapsAssumption
<1>4. (lives - 1) * Room(b) \in Int /\ (lives - 1) * OwnRoom(b) \in Int
  BY RoomFacts, Distributes DEF MoneyType
<1>5. Cap[b] > 0 => Spent(b)' + Reserved(Asking(b))' <= Room(b)
  BY <1>2, <1>3, SpentFacts, RoomFacts DEF Fits
<1>6. OwnSpent(b)' + Reserved(Waiting(b))' <= OwnRoom(b)
  BY <1>2, <1>3, SpentFacts, RoomFacts DEF Fits
<1>7. Cap[b] > 0 => bill'[b] <= (lives - 1) * Room(b) + unseen'[b] + Spent(b)'
  <2>. DEFINE Z == (lives - 1) * Room(b)
  <2>1. Z \in Int /\ (Cap[b] > 0 => bill[b] <= Z + unseen[b] + Spent(b))
    BY <1>4 DEF Fits
  <2>. HIDE DEF Z
  <2>2. Cap[b] > 0 => bill'[b] <= Z + unseen'[b] + Spent(b)'
    BY <1>3, <2>1, SpentFacts
  <2>. QED
    BY <2>2 DEF Z
<1>8. bill'[b] <= (lives - 1) * OwnRoom(b) + OwnSpent(b)'
  <2>. DEFINE Z == (lives - 1) * OwnRoom(b)
  <2>1. Z \in Int /\ bill[b] <= Z + OwnSpent(b)
    BY <1>4 DEF Fits
  <2>. HIDE DEF Z
  <2>2. bill'[b] <= Z + OwnSpent(b)'
    BY <1>3, <2>1, SpentFacts
  <2>. QED
    BY <2>2 DEF Z
<1>. QED
  BY <1>5, <1>6, <1>7, <1>8 DEF Fits, Room, OwnRoom, Workers

\* A new day, or a new life, starts with nothing spent.
LEMMA FitsFresh ==
    ASSUME MoneyType, MoneyType', NEW b \in Buckets, Fits(b),
           Spent(b)' = 0, OwnSpent(b)' = 0,
           \/ lives' = 1 /\ bill'[b] = 0 /\ unseen'[b] = 0
           \/ lives' = lives + 1 /\ bill'[b] = bill[b] /\ unseen'[b] = unseen[b],
           Asking(b)' \subseteq Pool(b), Waiting(b)' \subseteq Pool(b)
    PROVE  Fits(b)'
<1>. DEFINE R == Room(b)
            S == OwnRoom(b)
<1>1. /\ Reserved(Asking(b))' <= Reserved(Pool(b)) /\ Reserved(Asking(b))' \in Nat
      /\ Reserved(Waiting(b))' <= Reserved(Pool(b)) /\ Reserved(Waiting(b))' \in Nat
  BY ReservedFacts, PoolFacts DEF Reserved
<1>2. /\ Cap[b] > 0 => Reserved(Asking(b))' <= R
      /\ Reserved(Waiting(b))' <= S /\ R \in Nat /\ S \in Nat
  BY <1>1, PoolFacts, RoomFacts
<1>3. /\ Cap[b] > 0 => bill[b] <= (lives - 1) * R + unseen[b] + R
      /\ bill[b] <= (lives - 1) * S + S
  <2>1. Reserved(Asking(b)) \in Nat /\ Reserved(Waiting(b)) \in Nat
    BY SpentFacts, ReservedFacts
  <2>2. (lives - 1) * R \in Int /\ (lives - 1) * S \in Int
    BY <1>2, Distributes DEF MoneyType
  <2>3. (Cap[b] > 0 => Spent(b) <= R) /\ OwnSpent(b) <= S
    BY <1>2, <2>1, SpentFacts DEF Fits
  <2>. HIDE DEF R, S
  <2>4. /\ Cap[b] > 0 => bill[b] <= (lives - 1) * R + unseen[b] + Spent(b)
        /\ bill[b] <= (lives - 1) * S + OwnSpent(b)
    BY DEF Fits, R, S
  <2>. QED
    BY <1>2, <2>2, <2>3, <2>4, SpentFacts
<1>. HIDE DEF R, S
<1>4. ((lives - 1) + 1) * R = (lives - 1) * R + R /\ ((lives - 1) + 1) * S = (lives - 1) * S + S
  BY <1>2, Distributes DEF MoneyType
<1>5. (lives - 1) + 1 = lives /\ (lives + 1) - 1 = lives
  BY DEF MoneyType
<1>6. /\ Cap[b] > 0 => Spent(b)' + Reserved(Asking(b))' <= R
      /\ OwnSpent(b)' + Reserved(Waiting(b))' <= S
  BY <1>1, <1>2
<1>7. unseen'[b] \in Nat
  BY DEF MoneyType
<1>8. /\ Cap[b] > 0 => bill'[b] <= (lives' - 1) * R + unseen'[b] + Spent(b)'
      /\ bill'[b] <= (lives' - 1) * S + OwnSpent(b)'
  <2>1. CASE lives' = 1 /\ bill'[b] = 0 /\ unseen'[b] = 0
    <3>1. lives' - 1 = 0 /\ 0 * R = 0 /\ 0 * S = 0
      BY <1>2, <2>1
    <3>. QED
      BY <2>1, <3>1
  <2>2. CASE lives' = lives + 1 /\ bill'[b] = bill[b] /\ unseen'[b] = unseen[b]
    <3>1. lives * R = (lives - 1) * R + R /\ lives * S = (lives - 1) * S + S
      BY <1>4, <1>5
    <3>2. (lives - 1) * R \in Int /\ (lives - 1) * S \in Int
      BY <1>2, Distributes DEF MoneyType
    <3>3. (Cap[b] > 0 => bill'[b] <= lives * R + unseen'[b]) /\ bill'[b] <= lives * S
      BY <1>2, <1>3, <2>2, <3>1, <3>2, SpentFacts
    <3>4. lives' - 1 = lives
      BY <1>5, <2>2
    <3>5. lives * R \in Int /\ lives * S \in Int
      BY <1>2, Distributes DEF MoneyType
    <3>. QED
      BY <1>7, <3>3, <3>4, <3>5
  <2>. QED
    BY <2>1, <2>2
<1>. QED
  BY <1>6, <1>8 DEF Fits, R, S, Room, OwnRoom, Workers

(* The ledgers and the workers, one step at a time *)

LEMMA LedgerKept ==
    ASSUME MoneyType, now' = now, ledger' = ledger \/ ledger' = Rolled
    PROVE  /\ ledger' \in [day : Nat, by : [Buckets -> Nat], all : Nat] /\ ledger'.day <= Today'
           /\ \A b \in Buckets : Spent(b)' = Spent(b)
<1>1. /\ Rolled \in [day : Nat, by : [Buckets -> Nat], all : Nat] /\ Rolled.day = Today /\ Today \in Nat
      /\ Today' = Today
  BY SpentFacts DEF Buckets, Today
<1>2. Rolled' = IF ledger'.day = Today THEN ledger' ELSE [day |-> Today, by |-> Zero, all |-> 0]
  BY <1>1 DEF Rolled, Zero
<1>3. Rolled' = Rolled
  BY <1>1, <1>2 DEF Rolled
<1>4. \A b \in Buckets : Spent(b)' = Spent(b)
  BY <1>3 DEF Spent
<1>. QED
  BY <1>1, <1>4 DEF MoneyType

LEMMA LedgerCharged ==
    ASSUME MoneyType, now' = now, NEW c \in Buckets, NEW cost \in Nat, Charge(c, cost)
    PROVE  /\ ledger' \in [day : Nat, by : [Buckets -> Nat], all : Nat] /\ ledger'.day <= Today'
           /\ \A b \in Buckets : Spent(b)' = IF b = c THEN Spent(b) + cost ELSE Spent(b)
<1>1. /\ Rolled \in [day : Nat, by : [Buckets -> Nat], all : Nat] /\ Rolled.day = Today /\ Today \in Nat
      /\ Today' = Today
  BY SpentFacts DEF Buckets, Today
<1>. DEFINE R == Rolled
            f == [R.by EXCEPT ![c] = @ + cost]
<1>2. ledger' = [R EXCEPT !.by = f, !.all = @ + cost]
  BY DEF Charge
<1>3. /\ ledger' \in [day : Nat, by : [Buckets -> Nat], all : Nat] /\ ledger'.day = Today
      /\ ledger'.by = [Rolled.by EXCEPT ![c] = @ + cost]
  <2>1. /\ R \in [day : Nat, by : [Buckets -> Nat], all : Nat] /\ R.day = Today
        /\ R.by \in [Buckets -> Nat] /\ R.all + cost \in Nat
    BY <1>1
  <2>. HIDE DEF R
  <2>2. f \in [Buckets -> Nat]
    BY <2>1
  <2>. HIDE DEF f
  <2>3. /\ ledger' \in [day : Nat, by : [Buckets -> Nat], all : Nat] /\ ledger'.day = R.day
        /\ ledger'.by = f
    BY <1>2, <2>1, <2>2
  <2>. QED
    BY <2>1, <2>3 DEF f, R
<1>. HIDE DEF f, R
<1>4. Rolled' = ledger'
  BY <1>1, <1>3 DEF Rolled
<1>5. \A b \in Buckets : Spent(b)' = ledger'.by[b]
  BY <1>4 DEF Spent
<1>6. \A b \in Buckets : ledger'.by[b] = IF b = c THEN Rolled.by[b] + cost ELSE Rolled.by[b]
  BY <1>1, <1>3
<1>. QED
  BY <1>1, <1>3, <1>5, <1>6 DEF Spent

LEMMA OwnKept ==
    ASSUME MoneyType, now' = now,
           own' = own \/ (\E c \in Buckets : own' = [own EXCEPT ![c] = OwnRolled(c)])
    PROVE  /\ own' \in [Buckets -> [day : Nat, spent : Nat]] /\ \A b \in Buckets : own'[b].day <= Today'
           /\ \A b \in Buckets : OwnSpent(b)' = OwnSpent(b)
<1>1. /\ \A b \in Buckets : OwnRolled(b) \in [day : Nat, spent : Nat] /\ OwnRolled(b).day = Today
      /\ Today \in Nat /\ Today' = Today
  BY SpentFacts DEF Today, Buckets
<1>2. own \in [Buckets -> [day : Nat, spent : Nat]] /\ \A b \in Buckets : own[b].day <= Today
  BY DEF MoneyType
<1>3. \A b \in Buckets : own'[b] = own[b] \/ own'[b] = OwnRolled(b)
  BY <1>1, <1>2
<1>4. own' \in [Buckets -> [day : Nat, spent : Nat]] /\ \A b \in Buckets : own'[b].day <= Today'
  BY <1>1, <1>2
<1>5. \A b \in Buckets : OwnRolled(b)' = IF own'[b].day = Today THEN own'[b] ELSE [day |-> Today, spent |-> 0]
  BY <1>1 DEF OwnRolled
<1>6. \A b \in Buckets : OwnRolled(b)' = OwnRolled(b)
  BY <1>1, <1>3, <1>5 DEF OwnRolled
<1>. QED
  BY <1>4, <1>6 DEF OwnSpent

LEMMA OwnCharged ==
    ASSUME MoneyType, now' = now, NEW c \in Buckets, NEW cost \in Nat, Consume(c, cost)
    PROVE  /\ own' \in [Buckets -> [day : Nat, spent : Nat]] /\ \A b \in Buckets : own'[b].day <= Today'
           /\ \A b \in Buckets : OwnSpent(b)' = IF b = c THEN OwnSpent(b) + cost ELSE OwnSpent(b)
<1>1. /\ \A b \in Buckets : OwnRolled(b) \in [day : Nat, spent : Nat] /\ OwnRolled(b).day = Today
      /\ Today \in Nat /\ Today' = Today
  BY SpentFacts DEF Today, Buckets
<1>. DEFINE w == [OwnRolled(c) EXCEPT !.spent = @ + cost]
<1>2. w \in [day : Nat, spent : Nat] /\ w.day = Today /\ w.spent = OwnRolled(c).spent + cost
  BY <1>1
<1>3. own' = [own EXCEPT ![c] = w]
  BY DEF Consume
<1>. HIDE DEF w
<1>4. own \in [Buckets -> [day : Nat, spent : Nat]] /\ \A b \in Buckets : own[b].day <= Today
  BY DEF MoneyType
<1>5. own' \in [Buckets -> [day : Nat, spent : Nat]] /\ \A b \in Buckets : own'[b].day <= Today'
  BY <1>1, <1>2, <1>3, <1>4
<1>6. \A b \in Buckets : own'[b] = IF b = c THEN w ELSE own[b]
  BY <1>3, <1>4
<1>7. \A b \in Buckets : OwnRolled(b)' = IF own'[b].day = Today THEN own'[b] ELSE [day |-> Today, spent |-> 0]
  BY <1>1 DEF OwnRolled
<1>8. \A b \in Buckets : OwnRolled(b)' = IF b = c THEN w ELSE OwnRolled(b)
  BY <1>2, <1>6, <1>7 DEF OwnRolled
<1>. QED
  BY <1>2, <1>5, <1>8 DEF OwnSpent

\* A goroutine of the importer goes from one step to another.
LEMMA SlotMoves ==
    ASSUME ImportType, NEW s \in Slots, NEW w \in Works, slot' = [slot EXCEPT ![s] = w], job' = job,
           NEW b \in Buckets
    PROVE  /\ slot' \in [Slots -> Works]
           /\ b = Importer /\ w.step \notin {"call", "wait"} => Asking(b)' = Asking(b) \ {s}
           /\ b = Importer /\ w.step # "wait" => Waiting(b)' = Waiting(b) \ {s}
           /\ w.step = slot[s].step \/ {w.step, slot[s].step} \subseteq {"call", "wait"} => Asking(b)' = Asking(b)
           /\ Asking(b)' \subseteq Pool(b) /\ Waiting(b)' \subseteq Pool(b)
           /\ b # Importer => Asking(b)' = Asking(b) /\ Waiting(b)' = Waiting(b)
<1>1. \A t \in Slots : slot'[t] = IF t = s THEN w ELSE slot[t]
  BY DEF ImportType
<1>2. slot' \in [Slots -> Works]
  BY DEF ImportType
<1>3. ASSUME b = Importer
      PROVE  \A steps : Engaged(b, steps)' = {t \in Slots : (IF t = s THEN w ELSE slot[t]).step \in steps}
  BY <1>1, <1>3 DEF Engaged
<1>4. b # Importer => \A steps : Engaged(b, steps)' = Engaged(b, steps)
  BY DEF Engaged
<1>5. CASE b = Importer
  BY <1>2, <1>3, <1>5 DEF Asking, Waiting, Engaged, Pool
<1>6. CASE b # Importer
  BY <1>2, <1>4, <1>6 DEF Asking, Waiting, Engaged, Pool
<1>. QED
  BY <1>5, <1>6

\* The close review goes from one step to another.
LEMMA JobMoves ==
    ASSUME slot' = slot, NEW b \in Buckets
    PROVE  /\ b = Importer => Asking(b)' = Asking(b) /\ Waiting(b)' = Waiting(b)
           /\ job'.step \notin {"call", "wait"} => Asking(b)' \subseteq Asking(b)
           /\ job'.step # "wait" => Waiting(b)' \subseteq Waiting(b)
           /\ job.step \in {"call", "wait"} => Asking(b)' \subseteq Asking(b)
           /\ Asking(b)' \subseteq Pool(b) /\ Waiting(b)' \subseteq Pool(b)
           /\ b # Importer /\ job.step = "wait" /\ job'.step \notin {"call", "wait"} =>
                 0 \in Waiting(b) /\ Asking(b)' = Asking(b) \ {0} /\ Waiting(b)' = Waiting(b) \ {0}
BY DEF Asking, Waiting, Engaged, Pool

(* The steps *)

\* Nothing of the money, the goroutines or the job changes.
LEMMA MoneyStutter ==
    ASSUME MoneyInv, now' = now, UNCHANGED money, slot' = slot, job' = job,
           queue' \subseteq Events, catalyst' = catalyst, ReviewInv'
    PROVE  MoneyInv'
<1>1. MoneyType'
  BY DEF MoneyInv, MoneyType, money, Today
<1>2. ImportType'
  BY DEF MoneyInv, ImportType
<1>3. ASSUME NEW b \in Buckets
      PROVE  Fits(b)'
  <2>1. Spent(b)' = Spent(b) /\ OwnSpent(b)' = OwnSpent(b)
    BY LedgerKept, OwnKept DEF MoneyInv, money
  <2>2. Asking(b)' = Asking(b) /\ Waiting(b)' = Waiting(b)
    BY DEF Asking, Waiting, Engaged
  <2>. QED
    BY <1>1, <2>1, <2>2, FitsLess DEF MoneyInv, Quiet, money
<1>. QED
  BY <1>1, <1>2, <1>3 DEF MoneyInv

LEMMA MoneyImporter ==
    ASSUME MoneyInv, ReviewInv', ImporterNext
    PROVE  MoneyInv'
<1>. USE DEF MoneyInv
<1>0. /\ Importer \in Buckets /\ Idle \in Works /\ Idle.step = "idle"
      /\ \A s \in Slots : slot[s] \in Works
  BY DEF Buckets, Works, Idle, ImportType
<1>1. ASSUME NEW batch \in SUBSET Events, SelectEvents(batch)
      PROVE  MoneyInv'
  BY <1>1, MoneyStutter DEF SelectEvents, reviews
<1>2. ASSUME NEW s \in Slots, NEW e \in Events, LoadEvent(s, e)
      PROVE  MoneyInv'
  <2>. DEFINE ask == [step |-> "ask", event |-> e, existing |-> catalyst[e]]
  <2>1. /\ now' = now /\ UNCHANGED <<ledger, own, bill, unseen, lives>> /\ job' = job /\ catalyst' = catalyst
        /\ queue' \subseteq Events
        /\ slot' = [slot EXCEPT ![s] = ask] \/ slot' = [slot EXCEPT ![s] = Idle]
    BY <1>2 DEF LoadEvent, Return, money, reviews, ImportType
  <2>2. ask \in Works /\ ask.step = "ask"
    BY DEF Works, ImportType
  <2>. HIDE DEF ask
  <2>3. PICK w \in Works : slot' = [slot EXCEPT ![s] = w] /\ w.step \notin {"call", "wait"}
    BY <1>0, <2>1, <2>2
  <2>4. MoneyType' /\ ImportType'
    BY <2>1, <2>3 DEF MoneyType, ImportType, Today
  <2>5. ASSUME NEW b \in Buckets
        PROVE  Fits(b)'
    <3>1. Asking(b)' \subseteq Asking(b) /\ Waiting(b)' \subseteq Waiting(b)
      BY <2>1, <2>3, SlotMoves
    <3>2. Spent(b)' = Spent(b) /\ OwnSpent(b)' = OwnSpent(b)
      BY <2>1, LedgerKept, OwnKept
    <3>. QED
      BY <2>1, <2>4, <3>1, <3>2, FitsLess DEF Quiet
  <2>. QED
    BY <2>4, <2>5
<1>3. ASSUME NEW s \in Slots, AskForEvent(s)
      PROVE  MoneyInv'
  <2>1. /\ now' = now /\ UNCHANGED <<own, bill, unseen, lives>> /\ job' = job /\ catalyst' = catalyst
        /\ queue' = queue /\ ledger' = Rolled /\ slot[s].step = "ask"
    BY <1>3 DEF AskForEvent, Return, reviews
  <2>9. \/ Allows(Importer) /\ slot' = [slot EXCEPT ![s] = [slot[s] EXCEPT !.step = "call"]]
        \/ slot' = [slot EXCEPT ![s] = Idle]
    BY <1>3 DEF AskForEvent, Return
  <2>2. [slot[s] EXCEPT !.step = "call"] \in Works /\ [slot[s] EXCEPT !.step = "call"].step = "call"
    <3>1. slot[s] \in [step : {"ask", "call", "wait"}, event : Events, existing : Rows]
      BY <1>0, <2>1 DEF Works
    <3>. QED
      BY <3>1 DEF Works
  <2>3. PICK w \in Works : /\ slot' = [slot EXCEPT ![s] = w] /\ w.step # "wait"
                           /\ Allows(Importer) \/ w.step \notin {"call", "wait"}
    BY <1>0, <2>2, <2>9
  <2>10. slot' = [slot EXCEPT ![s] = w] /\ job' = job /\ w \in Works /\ ImportType /\ w.step # "wait"
    BY <2>1, <2>3
  <2>4. MoneyType' /\ ImportType'
    <3>1. slot' \in [Slots -> Works]
      BY <1>0, <2>10, SlotMoves
    <3>. QED
      BY <2>1, <3>1, LedgerKept DEF MoneyType, ImportType, Today
  <2>5. ASSUME NEW b \in Buckets
        PROVE  Fits(b)'
    <3>1. Spent(b)' = Spent(b) /\ OwnSpent(b)' = OwnSpent(b)
      BY <2>1, LedgerKept, OwnKept
    <3>2. Waiting(b)' \subseteq Waiting(b) /\ Asking(b)' \subseteq Pool(b)
      BY <2>10, SlotMoves
    <3>3. CASE b = Importer /\ Allows(Importer)
      BY <2>1, <2>4, <3>1, <3>2, <3>3, FitsGrant DEF Quiet
    <3>4. CASE b # Importer \/ w.step \notin {"call", "wait"}
      <4>1. Asking(b)' \subseteq Asking(b)
        BY <2>10, <3>4, SlotMoves
      <4>. QED
        BY <2>1, <2>4, <3>1, <3>2, <4>1, FitsLess DEF Quiet
    <3>. QED
      BY <2>3, <3>3, <3>4
  <2>. QED
    BY <2>4, <2>5
<1>4. ASSUME NEW s \in Slots, CallForEvent(s)
      PROVE  MoneyInv'
  <2>1. /\ now' = now /\ UNCHANGED <<bill, unseen, lives>> /\ job' = job /\ catalyst' = catalyst
        /\ queue' = queue /\ own' = [own EXCEPT ![Importer] = OwnRolled(Importer)] /\ slot[s].step = "call"
        /\ ledger' = ledger \/ Charge(Importer, 0)
    BY <1>4 DEF CallForEvent, Return, reviews
  <2>9. \/ OwnAllows(Importer) /\ slot' = [slot EXCEPT ![s] = [slot[s] EXCEPT !.step = "wait"]]
        \/ slot' = [slot EXCEPT ![s] = Idle]
    BY <1>4 DEF CallForEvent, Return
  <2>2. [slot[s] EXCEPT !.step = "wait"] \in Works /\ [slot[s] EXCEPT !.step = "wait"].step = "wait"
    <3>1. slot[s] \in [step : {"ask", "call", "wait"}, event : Events, existing : Rows]
      BY <1>0, <2>1 DEF Works
    <3>. QED
      BY <3>1 DEF Works
  <2>3. PICK w \in Works : /\ slot' = [slot EXCEPT ![s] = w]
                           /\ (w.step = "wait" /\ OwnAllows(Importer)) \/ w.step \notin {"call", "wait"}
    BY <1>0, <2>2, <2>9
  <2>10. /\ slot' = [slot EXCEPT ![s] = w] /\ job' = job /\ w \in Works /\ ImportType
         /\ slot[s].step = "call" /\ (w.step = "wait" \/ w.step \notin {"call", "wait"})
    BY <2>1, <2>3
  <2>4. /\ ledger' \in [day : Nat, by : [Buckets -> Nat], all : Nat] /\ ledger'.day <= Today'
        /\ \A b \in Buckets : Spent(b)' = Spent(b)
    <3>1. CASE ledger' = ledger
      BY <2>1, <3>1, LedgerKept
    <3>2. CASE Charge(Importer, 0)
      <4>1. /\ ledger' \in [day : Nat, by : [Buckets -> Nat], all : Nat] /\ ledger'.day <= Today'
            /\ \A b \in Buckets : Spent(b)' = IF b = Importer THEN Spent(b) + 0 ELSE Spent(b)
        BY <1>0, <2>1, <3>2, LedgerCharged
      <4>2. \A b \in Buckets : Spent(b) \in Nat
        BY SpentFacts
      <4>. QED
        BY <4>1, <4>2
    <3>. QED
      BY <2>1, <3>1, <3>2
  <2>5. MoneyType' /\ ImportType'
    <3>1. slot' \in [Slots -> Works]
      BY <1>0, <2>10, SlotMoves
    <3>. QED
      BY <1>0, <2>1, <2>4, <3>1, OwnKept DEF MoneyType, ImportType
  <2>6. ASSUME NEW b \in Buckets
        PROVE  Fits(b)'
    <3>1. Spent(b)' = Spent(b) /\ OwnSpent(b)' = OwnSpent(b)
      BY <1>0, <2>1, <2>4, OwnKept
    <3>2. Asking(b)' \subseteq Asking(b) /\ Waiting(b)' \subseteq Pool(b)
      BY <2>10, SlotMoves
    <3>3. CASE b = Importer /\ OwnAllows(Importer)
      BY <2>1, <2>5, <3>1, <3>2, <3>3, FitsOwnGrant DEF Quiet
    <3>4. CASE b # Importer \/ w.step \notin {"call", "wait"}
      <4>1. Waiting(b)' \subseteq Waiting(b)
        BY <2>10, <3>4, SlotMoves
      <4>. QED
        BY <2>1, <2>5, <3>1, <3>2, <4>1, FitsLess DEF Quiet
    <3>. QED
      BY <2>3, <3>3, <3>4
  <2>. QED
    BY <2>5, <2>6
<1>5. ASSUME NEW s \in Slots, NEW cost \in 1 .. MaxCost, NEW says \in Says, AnswerEvent(s, cost, says)
      PROVE  MoneyInv'
  <2>. DEFINE save == [step |-> "save", event |-> slot[s].event, existing |-> slot[s].existing, says |-> says]
  <2>1. /\ now' = now /\ lives' = lives /\ job' = job /\ catalyst' = catalyst
        /\ queue' = queue /\ Consume(Importer, cost) /\ slot[s].step = "wait"
        /\ bill' = [bill EXCEPT ![Importer] = @ + cost]
        /\ \/ Charge(Importer, cost) /\ slot' = [slot EXCEPT ![s] = save] /\ unseen' = unseen
           \/ /\ ledger' = ledger /\ slot' = [slot EXCEPT ![s] = Idle]
              /\ unseen' = [unseen EXCEPT ![Importer] = @ + cost]
    BY <1>5 DEF AnswerEvent, Return, Pay, reviews
  <2>2. save \in Works /\ save.step = "save"
    <3>1. slot[s] \in [step : {"ask", "call", "wait"}, event : Events, existing : Rows]
      BY <1>0, <2>1 DEF Works
    <3>. QED
      BY <3>1 DEF Works
  <2>. HIDE DEF save
  <2>3. PICK w \in Works : slot' = [slot EXCEPT ![s] = w] /\ w.step \notin {"call", "wait"}
    BY <1>0, <2>1, <2>2
  <2>4. cost \in Nat
    BY CapsAssumption
  <2>5. /\ ledger' \in [day : Nat, by : [Buckets -> Nat], all : Nat] /\ ledger'.day <= Today'
        /\ \A b \in Buckets : b # Importer => Spent(b)' = Spent(b) /\ unseen'[b] = unseen[b]
        /\ \/ Spent(Importer)' = Spent(Importer) + cost /\ unseen' = unseen
           \/ Spent(Importer)' = Spent(Importer) /\ unseen' = [unseen EXCEPT ![Importer] = @ + cost]
    <3>1. CASE Charge(Importer, cost) /\ unseen' = unseen
      BY <1>0, <2>1, <2>4, <3>1, LedgerCharged
    <3>2. CASE ledger' = ledger /\ unseen' = [unseen EXCEPT ![Importer] = @ + cost]
      BY <1>0, <2>1, <2>4, <3>2, LedgerKept DEF MoneyType
    <3>. QED
      BY <2>1, <3>1, <3>2
  <2>6. unseen' \in [Buckets -> Nat] /\ bill' \in [Buckets -> Nat]
    BY <1>0, <2>1, <2>4, <2>5 DEF MoneyType
  <2>7. /\ own' \in [Buckets -> [day : Nat, spent : Nat]] /\ \A b \in Buckets : own'[b].day <= Today'
        /\ \A b \in Buckets : OwnSpent(b)' = IF b = Importer THEN OwnSpent(b) + cost ELSE OwnSpent(b)
    BY <1>0, <2>1, <2>4, OwnCharged
  <2>8. MoneyType' /\ ImportType'
    <3>1. slot' \in [Slots -> Works]
      BY <2>1, <2>3, SlotMoves, <1>0
    <3>. QED
      BY <2>1, <2>5, <2>6, <2>7, <3>1 DEF MoneyType, ImportType
  <2>9. ASSUME NEW b \in Buckets
        PROVE  Fits(b)'
    <3>1. CASE b # Importer
      <4>1. Asking(b)' \subseteq Asking(b) /\ Waiting(b)' \subseteq Waiting(b)
        BY <2>1, <2>3, <3>1, SlotMoves
      <4>2. Quiet(b)
        BY <2>1, <2>5, <3>1 DEF Quiet, MoneyType
      <4>. QED
        BY <2>5, <2>7, <2>8, <3>1, <4>1, <4>2, FitsLess
    <3>2. CASE b = Importer
      <4>1. s \in Waiting(b) /\ Asking(b)' = Asking(b) \ {s} /\ Waiting(b)' = Waiting(b) \ {s}
        <5>1. s \in Waiting(b)
          BY <2>1, <3>2 DEF Waiting, Engaged
        <5>. QED
          BY <2>1, <2>3, <3>2, <5>1, SlotMoves
      <4>2. /\ \/ Spent(b)' = Spent(b) + cost /\ unseen'[b] = unseen[b]
               \/ Spent(b)' = Spent(b) /\ unseen'[b] = unseen[b] + cost
            /\ bill'[b] = bill[b] + cost
        BY <1>0, <2>1, <2>5, <3>2 DEF MoneyType
      <4>3. OwnSpent(b)' = OwnSpent(b) + cost
        BY <2>7, <3>2
      <4>. QED
        BY <2>1, <2>8, <4>1, <4>2, <4>3, FitsPay
    <3>. QED
      BY <3>1, <3>2
  <2>. QED
    BY <2>8, <2>9
<1>6. ASSUME NEW s \in Slots, EventCallFails(s) \/ SaveEvent(s)
      PROVE  MoneyInv'
  <2>1. /\ now' = now /\ UNCHANGED <<ledger, own, bill, unseen, lives>> /\ job' = job
        /\ queue' = queue /\ slot' = [slot EXCEPT ![s] = Idle]
    BY <1>6 DEF EventCallFails, SaveEvent, Return, money, reviews
  <2>2. catalyst' \in [Events -> Rows]
    <3>1. CASE EventCallFails(s)
      BY <3>1 DEF EventCallFails, ImportType
    <3>2. CASE SaveEvent(s)
      <4>1. \A x \in Rows, says \in Says : Upserted(x, says) \in Rows
        BY DEF Upserted, Rows, Says, MoneyType
      <4>2. \A x \in Rows : \A y, z : Staled(x, y, z) \in Rows
        BY DEF Staled, Rows, MoneyType
      <4>3. slot[s] \in [step : {"save"}, event : Events, existing : Rows, says : Says]
        BY <1>0, <3>2 DEF SaveEvent, Works, Idle
      <4>4. /\ slot[s].event \in Events /\ catalyst[slot[s].event] \in Rows
            /\ Upserted(catalyst[slot[s].event], slot[s].says) \in Rows
        BY <4>1, <4>3 DEF ImportType
      <4>. DEFINE row == Upserted(catalyst[slot[s].event], slot[s].says)
      <4>5. \/ \E seen \in {row, Staled(row, slot[s].existing, row # catalyst[slot[s].event])} :
                  catalyst' = [catalyst EXCEPT ![slot[s].event] = seen]
            \/ catalyst' = catalyst
            \/ catalyst' = [catalyst EXCEPT ![slot[s].event] = Staled(@, slot[s].existing, FALSE)]
        BY <3>2 DEF SaveEvent
      <4>. HIDE DEF row
      <4>6. row \in Rows
        BY <4>4 DEF row
      <4>7. PICK x \in Rows : catalyst' = catalyst \/ catalyst' = [catalyst EXCEPT ![slot[s].event] = x]
        <5>1. \A z : Staled(row, slot[s].existing, z) \in Rows
          BY <4>2, <4>6
        <5>2. Staled(catalyst[slot[s].event], slot[s].existing, FALSE) \in Rows
          BY <4>2, <4>4
        <5>3. [catalyst EXCEPT ![slot[s].event] = Staled(@, slot[s].existing, FALSE)]
              = [catalyst EXCEPT ![slot[s].event] = Staled(catalyst[slot[s].event], slot[s].existing, FALSE)]
          BY <4>4 DEF ImportType
        <5>. QED
          BY <4>5, <4>6, <5>1, <5>2, <5>3
      <4>. QED
        BY <4>4, <4>7 DEF ImportType
    <3>. QED
      BY <1>6, <3>1, <3>2
  <2>3. MoneyType' /\ ImportType'
    BY <1>0, <2>1, <2>2 DEF MoneyType, ImportType, Today
  <2>4. ASSUME NEW b \in Buckets
        PROVE  Fits(b)'
    <3>1. Asking(b)' \subseteq Asking(b) /\ Waiting(b)' \subseteq Waiting(b)
      BY <1>0, <2>1, SlotMoves
    <3>2. Spent(b)' = Spent(b) /\ OwnSpent(b)' = OwnSpent(b)
      BY <2>1, LedgerKept, OwnKept
    <3>. QED
      BY <2>1, <2>3, <3>1, <3>2, FitsLess DEF Quiet
  <2>. QED
    BY <2>3, <2>4
<1>. QED
  BY <1>1, <1>2, <1>3, <1>4, <1>5, <1>6 DEF ImporterNext

LEMMA MoneyReview ==
    ASSUME MoneyInv, ReviewInv', ReviewNext
    PROVE  MoneyInv'
<1>. USE DEF MoneyInv
<1>0. Review \in Buckets /\ Review # Importer /\ \A b \in Buckets : b # Importer => b = Review
  BY DEF Buckets, Review, Importer
<1>1. ASSUME UNCHANGED <<now, bill, unseen, lives>>, UNCHANGED imports,
             ledger' = ledger \/ ledger' = Rolled,
             own' = own \/ own' = [own EXCEPT ![Review] = OwnRolled(Review)]
      PROVE  /\ MoneyType' /\ ImportType' /\ slot' = slot
             /\ \A b \in Buckets : /\ Quiet(b) /\ Spent(b)' = Spent(b) /\ OwnSpent(b)' = OwnSpent(b)
  <2>1. slot' = slot /\ queue' = queue /\ catalyst' = catalyst
    BY <1>1 DEF imports
  <2>2. /\ ledger' \in [day : Nat, by : [Buckets -> Nat], all : Nat] /\ ledger'.day <= Today'
        /\ \A b \in Buckets : Spent(b)' = Spent(b)
    BY <1>1, LedgerKept
  <2>3. /\ own' \in [Buckets -> [day : Nat, spent : Nat]] /\ \A b \in Buckets : own'[b].day <= Today'
        /\ \A b \in Buckets : OwnSpent(b)' = OwnSpent(b)
    BY <1>0, <1>1, OwnKept
  <2>4. MoneyType' /\ ImportType'
    BY <1>1, <2>1, <2>2, <2>3 DEF MoneyType, ImportType
  <2>. QED
    BY <1>1, <2>1, <2>2, <2>3, <2>4 DEF Quiet
<1>2. ASSUME UNCHANGED <<now, bill, unseen, lives>>, UNCHANGED imports,
             ledger' = ledger \/ ledger' = Rolled,
             own' = own \/ own' = [own EXCEPT ![Review] = OwnRolled(Review)],
             \A b \in Buckets : Asking(b)' \subseteq Asking(b) /\ Waiting(b)' \subseteq Waiting(b)
      PROVE  MoneyInv'
  BY <1>1, <1>2, FitsLess
<1>3. ASSUME \E listed \in SUBSET Markets : ListClosed(listed)
      PROVE  MoneyInv'
  <2>1. UNCHANGED <<now, bill, unseen, lives>> /\ UNCHANGED imports /\ ledger' = ledger /\ own' = own
        /\ job' = job /\ slot' = slot
    BY <1>3 DEF ListClosed, money, imports
  <2>. QED
    BY <1>2, <2>1 DEF Asking, Waiting, Engaged
<1>4. ASSUME NEW m \in Markets, TakeClosed(m)
      PROVE  MoneyInv'
  <2>1. /\ UNCHANGED <<now, bill, unseen, lives>> /\ UNCHANGED imports /\ own' = own /\ slot' = slot
        /\ ledger' = ledger \/ ledger' = Rolled
    BY <1>4 DEF TakeClosed, imports
  <2>2. \/ job'.step \notin {"call", "wait"}
        \/ job'.step = "call" /\ Allows(Review)
    BY <1>4 DEF TakeClosed, Idle
  <2>3. CASE job'.step \notin {"call", "wait"}
    BY <1>2, <2>1, <2>3, JobMoves
  <2>4. CASE job'.step = "call" /\ Allows(Review)
    <3>1. ASSUME NEW b \in Buckets
          PROVE  Fits(b)'
      <4>1. Asking(b)' \subseteq Pool(b) /\ Waiting(b)' \subseteq Waiting(b)
        BY <2>1, <2>4, JobMoves
      <4>2. CASE b = Importer
        <5>1. Asking(b)' \subseteq Asking(b)
          BY <2>1, <4>2, JobMoves
        <5>. QED
          BY <1>1, <2>1, <4>1, <5>1, FitsLess
      <4>3. CASE b = Review
        BY <1>1, <2>1, <2>4, <4>1, <4>3, FitsGrant
      <4>. QED
        BY <1>0, <4>2, <4>3
    <3>. QED
      BY <1>1, <2>1, <3>1
  <2>. QED
    BY <2>2, <2>3, <2>4
<1>5. CASE CallForReview
  <2>1. /\ UNCHANGED <<now, bill, unseen, lives>> /\ UNCHANGED imports /\ ledger' = ledger /\ slot' = slot
        /\ own' = [own EXCEPT ![Review] = OwnRolled(Review)] /\ job.step = "call"
    BY <1>5 DEF CallForReview, imports
  <2>2. job'.step \notin {"call", "wait"} \/ OwnAllows(Review)
    BY <1>5 DEF CallForReview, Idle
  <2>3. CASE job'.step \notin {"call", "wait"}
    BY <1>2, <2>1, <2>3, JobMoves
  <2>4. CASE OwnAllows(Review)
    <3>1. ASSUME NEW b \in Buckets
          PROVE  Fits(b)'
      <4>1. Asking(b)' \subseteq Asking(b) /\ Waiting(b)' \subseteq Pool(b)
        BY <2>1, JobMoves
      <4>2. CASE b = Importer
        <5>1. Waiting(b)' \subseteq Waiting(b)
          BY <2>1, <4>2, JobMoves
        <5>. QED
          BY <1>1, <2>1, <4>1, <5>1, FitsLess
      <4>3. CASE b = Review
        BY <1>1, <2>1, <2>4, <4>1, <4>3, FitsOwnGrant
      <4>. QED
        BY <1>0, <4>2, <4>3
    <3>. QED
      BY <1>1, <2>1, <3>1
  <2>. QED
    BY <2>2, <2>3, <2>4
<1>6. ASSUME NEW cost \in 1 .. MaxCost, AnswerReview(cost)
      PROVE  MoneyInv'
  <2>1. /\ now' = now /\ lives' = lives /\ unseen' = unseen /\ slot' = slot /\ queue' = queue
        /\ catalyst' = catalyst /\ Consume(Review, cost) /\ Charge(Review, cost) /\ job.step = "wait"
        /\ bill' = [bill EXCEPT ![Review] = @ + cost]
    BY <1>6 DEF AnswerReview, Pay, imports
  <2>2. job'.step \notin {"call", "wait"}
    <3>1. job \in ReviewJobs
      BY <2>1 DEF ReviewInv, ReviewType, Idle
    <3>2. job' = [job EXCEPT !.step = "finish"] \/ job' = Idle
      BY <1>6 DEF AnswerReview
    <3>3. job'.step = "finish" \/ job'.step = "idle"
      BY <3>1, <3>2 DEF ReviewJobs, Idle
    <3>. QED
      BY <3>3
  <2>3. cost \in Nat
    BY CapsAssumption
  <2>4. /\ ledger' \in [day : Nat, by : [Buckets -> Nat], all : Nat] /\ ledger'.day <= Today'
        /\ \A b \in Buckets : Spent(b)' = IF b = Review THEN Spent(b) + cost ELSE Spent(b)
    BY <1>0, <2>1, <2>3, LedgerCharged
  <2>5. /\ own' \in [Buckets -> [day : Nat, spent : Nat]] /\ \A b \in Buckets : own'[b].day <= Today'
        /\ \A b \in Buckets : OwnSpent(b)' = IF b = Review THEN OwnSpent(b) + cost ELSE OwnSpent(b)
    BY <1>0, <2>1, <2>3, OwnCharged
  <2>6. /\ bill' \in [Buckets -> Nat]
        /\ \A b \in Buckets : bill'[b] = IF b = Review THEN bill[b] + cost ELSE bill[b]
    BY <1>0, <2>1, <2>3 DEF MoneyType
  <2>7. MoneyType' /\ ImportType'
    BY <2>1, <2>4, <2>5, <2>6 DEF MoneyType, ImportType
  <2>8. ASSUME NEW b \in Buckets
        PROVE  Fits(b)'
    <3>1. CASE b = Importer
      <4>1. Asking(b)' \subseteq Asking(b) /\ Waiting(b)' \subseteq Waiting(b)
        BY <2>1, <3>1, JobMoves
      <4>2. Quiet(b) /\ Spent(b)' = Spent(b) /\ OwnSpent(b)' = OwnSpent(b)
        BY <1>0, <2>1, <2>4, <2>5, <2>6, <3>1 DEF Quiet
      <4>. QED
        BY <2>7, <4>1, <4>2, FitsLess
    <3>2. CASE b = Review
      <4>1. 0 \in Waiting(b) /\ Asking(b)' = Asking(b) \ {0} /\ Waiting(b)' = Waiting(b) \ {0}
        BY <1>0, <2>1, <2>2, <3>2, JobMoves
      <4>2. /\ bill'[b] = bill[b] + cost /\ Spent(b)' = Spent(b) + cost /\ unseen'[b] = unseen[b]
            /\ OwnSpent(b)' = OwnSpent(b) + cost
        BY <2>1, <2>4, <2>5, <2>6, <3>2
      <4>. QED
        BY <2>1, <2>7, <4>1, <4>2, FitsPay
    <3>. QED
      BY <1>0, <3>1, <3>2
  <2>. QED
    BY <2>7, <2>8
<1>7. CASE ReviewCallFails \/ FinishReview \/ TellReview
  <2>1. /\ UNCHANGED <<now, bill, unseen, lives>> /\ UNCHANGED imports /\ ledger' = ledger /\ own' = own
        /\ slot' = slot
    BY <1>7 DEF ReviewCallFails, FinishReview, TellReview, money, imports
  <2>2. job'.step \notin {"call", "wait"}
    <3>1. (job' = [job EXCEPT !.step = "tell"] /\ job.step = "finish") \/ job' = Idle
      BY <1>7 DEF ReviewCallFails, FinishReview, TellReview
    <3>2. job'.step = "tell" \/ job'.step = "idle"
      BY <3>1 DEF ReviewInv, ReviewType, ReviewJobs, Idle
    <3>. QED
      BY <3>2
  <2>. QED
    BY <1>2, <2>1, <2>2, JobMoves
<1>. QED
  BY <1>3, <1>4, <1>5, <1>6, <1>7 DEF ReviewNext

LEMMA MoneyTick ==
    ASSUME MoneyInv, ReviewInv', Tick
    PROVE  MoneyInv'
<1>. USE DEF MoneyInv
<1>1. /\ now' = now + 1 /\ UNCHANGED <<ledger, own, slot, queue, catalyst, job>> /\ now \in Nat
      /\ \/ (now + 1) \div DayLength = Today /\ UNCHANGED <<bill, unseen, lives>>
         \/ (now + 1) \div DayLength # Today /\ bill' = Zero /\ unseen' = Zero /\ lives' = 1
  BY DEF Tick, imports, reviews, MoneyType
<1>2. Today \in Nat /\ Today' \in Nat /\ Today <= Today' /\ Today' = (now + 1) \div DayLength
  BY <1>1, TodayFacts DEF Today
<1>3. MoneyType' /\ ImportType'
  <2>1. ledger'.day <= Today' /\ \A b \in Buckets : own'[b].day <= Today'
    BY <1>1, <1>2 DEF MoneyType
  <2>2. bill' \in [Buckets -> Nat] /\ unseen' \in [Buckets -> Nat] /\ lives' \in Nat /\ lives' > 0
    BY <1>1 DEF MoneyType, Zero
  <2>. QED
    BY <1>1, <2>1, <2>2 DEF MoneyType, ImportType
<1>4. ASSUME NEW b \in Buckets
      PROVE  Fits(b)'
  <2>1. /\ Asking(b)' = Asking(b) /\ Waiting(b)' = Waiting(b)
        /\ Asking(b) \in SUBSET Pool(b) /\ Waiting(b) \in SUBSET Asking(b)
    BY <1>1, SpentFacts DEF Asking, Waiting, Engaged
  <2>2. CASE Today' = Today
    <3>1. UNCHANGED <<bill, unseen, lives>>
      BY <1>1, <1>2, <2>2
    <3>2. Spent(b)' = Spent(b) /\ OwnSpent(b)' = OwnSpent(b)
      BY <1>1, <2>2 DEF Spent, OwnSpent, Rolled, OwnRolled
    <3>. QED
      BY <1>3, <2>1, <3>1, <3>2, FitsLess DEF Quiet
  <2>3. CASE Today' # Today
    <3>1. lives' = 1 /\ bill'[b] = 0 /\ unseen'[b] = 0
      BY <1>1, <1>2, <2>3 DEF Zero
    <3>2. ledger'.day # Today' /\ own'[b].day # Today'
      <4>1. ledger.day <= Today /\ own[b].day <= Today /\ ledger.day \in Nat /\ own[b].day \in Nat
        BY DEF MoneyType
      <4>. QED
        BY <1>1, <1>2, <2>3, <4>1
    <3>3. Spent(b)' = 0 /\ OwnSpent(b)' = 0
      BY <3>2 DEF Spent, OwnSpent, Rolled, OwnRolled, Zero
    <3>. QED
      BY <1>3, <2>1, <3>1, <3>3, FitsFresh
  <2>. QED
    BY <2>2, <2>3
<1>. QED
  BY <1>3, <1>4

LEMMA MoneyRestart ==
    ASSUME MoneyInv, ReviewInv', Restart
    PROVE  MoneyInv'
<1>. USE DEF MoneyInv
<1>1. /\ UNCHANGED <<now, bill, unseen, catalyst>> /\ lives' = lives + 1
      /\ ledger' = [day |-> Today, by |-> Zero, all |-> 0]
      /\ own' = [b \in Buckets |-> [day |-> Today, spent |-> 0]]
      /\ queue' = {} /\ slot' = [s \in Slots |-> Idle] /\ job' = Idle
  BY DEF Restart
<1>2. Today \in Nat /\ Today' = Today
  BY <1>1, TodayFacts DEF MoneyType, Today
<1>3. MoneyType' /\ ImportType'
  BY <1>1, <1>2 DEF MoneyType, ImportType, Works, Zero
<1>4. ASSUME NEW b \in Buckets
      PROVE  Fits(b)'
  <2>1. Spent(b)' = 0 /\ OwnSpent(b)' = 0
    BY <1>1, <1>2 DEF Spent, OwnSpent, Rolled, OwnRolled, Zero
  <2>2. Asking(b)' \subseteq Pool(b) /\ Waiting(b)' \subseteq Pool(b)
    BY DEF Asking, Waiting, Engaged, Pool
  <2>. QED
    BY <1>1, <1>3, <2>1, <2>2, FitsFresh
<1>. QED
  BY <1>3, <1>4

LEMMA MoneyInit == Init => MoneyInv
<1>. SUFFICES ASSUME Init PROVE MoneyInv
  OBVIOUS
<1>1. /\ now = 0 /\ ledger = [day |-> 0, by |-> Zero, all |-> 0]
      /\ own = [b \in Buckets |-> [day |-> 0, spent |-> 0]]
      /\ queue = {} /\ slot = [s \in Slots |-> Idle] /\ job = Idle
      /\ catalyst = [e \in Events |-> [status |-> "none", at |-> Never]]
      /\ bill = Zero /\ unseen = Zero /\ lives = 1
  BY DEF Init
<1>2. Today \in Nat
  BY <1>1, TodayFacts DEF Today
<1>3. MoneyType
  BY <1>1, <1>2 DEF MoneyType, Zero
<1>4. ImportType
  BY <1>1 DEF ImportType, Works, Rows
<1>5. ASSUME NEW b \in Buckets
      PROVE  Fits(b)
  <2>1. Spent(b) = 0 /\ OwnSpent(b) = 0
    BY <1>1, <1>3, SpentFacts DEF Zero
  <2>2. Asking(b) \in SUBSET Pool(b) /\ Waiting(b) \in SUBSET Pool(b)
    BY <1>3, SpentFacts
  <2>3. /\ Reserved(Asking(b)) <= Reserved(Pool(b)) /\ Reserved(Asking(b)) \in Nat
        /\ Reserved(Waiting(b)) <= Reserved(Pool(b)) /\ Reserved(Waiting(b)) \in Nat
    BY <2>2, ReservedFacts, PoolFacts
  <2>4. bill[b] = 0 /\ unseen[b] = 0 /\ lives - 1 = 0
    BY <1>1 DEF Zero
  <2>5. 0 * Room(b) = 0 /\ 0 * OwnRoom(b) = 0
    BY RoomFacts
  <2>. QED
    BY <2>1, <2>3, <2>4, <2>5, PoolFacts, RoomFacts DEF Fits
<1>. QED
  BY <1>3, <1>4, <1>5, ReviewInit DEF MoneyInv

\* Whatever the caps, the estimates, the number of goroutines and the costs, what is paid
\* on a day fits in one room for every life of the process, but for the answers that do
\* not parse, and with these in the client's room for every life.
THEOREM SpendingBounded == Spec => []BillIsBounded
<1>1. MoneyInv /\ [Next]_vars => MoneyInv'
  <2>. SUFFICES ASSUME MoneyInv, [Next]_vars PROVE MoneyInv'
    OBVIOUS
  <2>1. ReviewInv'
    BY ReviewOthers, ReviewSteps, ReviewRestart DEF Next, MoneyInv
  <2>2. CASE NewsNext \/ UNCHANGED vars
    <3>1. now' = now /\ UNCHANGED money /\ slot' = slot /\ job' = job /\ queue' = queue /\ catalyst' = catalyst
      BY <2>2 DEF NewsNext, StartNews, AnswerNews, MarkItem, TellNews, vars, imports, reviews
    <3>2. queue' \subseteq Events
      BY <3>1 DEF MoneyInv, ImportType
    <3>. QED
      BY <2>1, <3>1, <3>2, MoneyStutter
  <2>. QED
    BY <2>1, <2>2, MoneyTick, MoneyImporter, MoneyReview, MoneyRestart DEF Next
<1>2. MoneyInv => BillIsBounded
  <2>. SUFFICES ASSUME MoneyInv, NEW b \in Buckets
                PROVE  /\ Cap[b] > 0 => bill[b] <= lives * Room(b) + unseen[b]
                       /\ bill[b] <= lives * OwnRoom(b)
    BY DEF BillIsBounded, OwnRoom
  <2>. DEFINE R == Room(b)
              S == OwnRoom(b)
  <2>1. /\ Cap[b] > 0 => bill[b] <= (lives - 1) * R + unseen[b] + Spent(b)
        /\ bill[b] <= (lives - 1) * S + OwnSpent(b)
    BY DEF MoneyInv, Fits
  <2>2. (Cap[b] > 0 => Spent(b) <= R) /\ OwnSpent(b) <= S
    <3>1. Reserved(Asking(b)) \in Nat /\ Reserved(Waiting(b)) \in Nat
      BY SpentFacts, ReservedFacts DEF MoneyInv
    <3>. QED
      BY <3>1, SpentFacts, RoomFacts DEF MoneyInv, Fits
  <2>3. R \in Nat /\ S \in Nat /\ lives \in Nat /\ (lives - 1) + 1 = lives
    BY RoomFacts DEF MoneyInv, MoneyType
  <2>. HIDE DEF R, S
  <2>4. /\ ((lives - 1) + 1) * R = (lives - 1) * R + R /\ ((lives - 1) + 1) * S = (lives - 1) * S + S
        /\ (lives - 1) * R \in Int /\ (lives - 1) * S \in Int
    BY <2>3, Distributes
  <2>5. lives * R = (lives - 1) * R + R /\ lives * S = (lives - 1) * S + S
    BY <2>3, <2>4
  <2>6. Spent(b) \in Nat /\ OwnSpent(b) \in Nat /\ bill[b] \in Nat /\ unseen[b] \in Nat
    BY SpentFacts DEF MoneyInv
  <2>7. (Cap[b] > 0 => bill[b] <= lives * R + unseen[b]) /\ bill[b] <= lives * S
    BY <2>1, <2>2, <2>3, <2>4, <2>5, <2>6
  <2>. QED
    BY <2>7 DEF R, S
<1>. QED
  BY MoneyInit, <1>1, <1>2, PTL DEF Spec

-----------------------------------------------------------------------------
(* The event pages: PagesKeepTheirWord *)

Ages == 0 .. Old

\* What a caller carries, in the five shapes that its record goes through.
Acquirers == [step : {"acquire", "reread"}, slug : Slugs]
Showers   == [step : {"show"}, slug : Slugs, seen : Ages]
AskSteps  == {"resolve", "wait", "page", "landed", "json", "data", "html", "fail"}
Askers    == [step : AskSteps, slug : Slugs, name : Slugs, id : Nat, tries : {0, 1}, hops : Nat,
              got : Nat, age : {0, 1}, read : {0, 1}, quiet : BOOLEAN, joined : BOOLEAN,
              behind : BOOLEAN]
Storers   == [step : {"store", "rows", "mark", "fail"}, slug : Slugs, name : Slugs,
              age : {0, 1}, read : {0, 1}, lost : SUBSET Kinds, quiet : BOOLEAN,
              joined : BOOLEAN, behind : BOOLEAN]

CallersOK == caller \in [Callers -> {Resting} \cup Acquirers \cup Showers \cup Askers \cup Storers]

SiteOK    == site \in [build : Nat, name : [Slugs -> Slugs]]
ResolvOK  == resolver \in [id : Nat, age : Ages, by : Callers \cup {None}]
AliasesOK == aliases \in [memory : [Slugs -> Slugs], rows : [Slugs -> Slugs]]
PageRowsOK == /\ fetches \in [Slugs -> Ages]
              /\ pages \in [Slugs -> [Kinds -> Ages]]
              /\ kept \in [Slugs -> BOOLEAN]

PagesTyped == CallersOK /\ SiteOK /\ ResolvOK /\ AliasesOK /\ PageRowsOK

\* A page that was read is no older than its fetch.
ReadInTime == \A c \in Callers : caller[c].step \in Fetching => caller[c].read <= caller[c].age

\* One caller fetches a slug.
OneFetch ==
    \A c, d \in Callers :
        c # d /\ caller[c].step \in Fetching /\ caller[d].step \in Fetching =>
            caller[c].slug # caller[d].slug

\* Rows that stayed are no older than the fetch that is dated...
KeptRows == \A s \in Slugs : kept[s] => \A k \in Kinds : pages[s][k] <= fetches[s]

\* ... nor than the one about to be dated...
MarkedRows ==
    \A c \in Callers : caller[c].step = "mark" /\ caller[c].lost = {} =>
        \A k \in Kinds : pages[caller[c].name][k] <= caller[c].read

\* ... which is younger than the date in the table and than any that is shown.
DatedRows ==
    \A c \in Callers : caller[c].step \in Fetching =>
        /\ caller[c].age <= fetches[caller[c].slug]
        /\ \A d \in Callers : caller[d].step = "show" /\ caller[d].slug = caller[c].slug =>
              caller[c].age <= caller[d].seen

ShownRows ==
    \A c \in Callers : caller[c].step = "show" /\ kept[caller[c].slug] =>
        \/ Stale(caller[c].seen)
        \/ \A k \in Kinds : pages[caller[c].slug][k] <= caller[c].seen

RowsInv == ReadInTime /\ OneFetch /\ KeptRows /\ MarkedRows /\ DatedRows /\ ShownRows

\* A slug the site may give up and its other name go together, and no other does.
NamesFit ==
    /\ \A s \in DOMAIN Renamed :
          \/ site.name[s] = s /\ site.name[Renamed[s]] = Renamed[s]
          \/ site.name[s] \in {s, Renamed[s]} /\ site.name[Renamed[s]] = site.name[s]
    /\ \A s \in Slugs : s \notin DOMAIN Renamed /\ (\A t \in DOMAIN Renamed : Renamed[t] # s) =>
          site.name[s] = s

\* What a quiet fetch knows of the site, unless it is excused.
Excused(r) == ~r.quiet \/ r.behind \/ r.joined
Current(name) == site.name[name] = name
Lucky(r) ==
    /\ r.step = "wait" => r.joined
    /\ r.step = "fail" => Excused(r)
    /\ r.step \in AskSteps \ {"fail"} /\ ~Excused(r) =>
          /\ r.step = "landed" => r.got = site.build
          /\ r.step \in {"resolve", "page", "landed"} /\ r.tries = 1 => r.id # site.build
          /\ r.step = "json" /\ r.tries = 1 => r.id = site.build
          /\ r.step = "json" /\ r.id # site.build => Current(r.name)
          /\ r.step \in {"data", "html"} => r.id = site.build
          /\ r.tries = 1 => Current(r.name)

LuckInv == NamesFit /\ \A c \in Callers : Lucky(caller[c])

PagesInv == PagesTyped /\ RowsInv /\ LuckInv

-----------------------------------------------------------------------------
LEMMA OldIs ==
    /\ Old \in Nat /\ Old >= 1 /\ Old > RefreshInfo /\ RefreshInfo \in Nat
    /\ \A x \in Ages : Older(x) \in Ages /\ Older(x) >= 1 /\ x <= Older(x) /\ x \in Nat
    /\ \A x, y \in Ages : x <= y => Older(x) <= Older(y)
    /\ \A x \in Ages : x <= Old
BY PagesAssumption DEF Old, Older, Ages

LEMMA Shapes ==
    ASSUME CallersOK, NEW c \in Callers
    PROVE  /\ caller[c].step = "idle" => caller[c] = Resting
           /\ caller[c].step \in {"acquire", "reread"} => caller[c] \in Acquirers
           /\ caller[c].step = "show" => caller[c] \in Showers
           /\ caller[c].step \in {"store", "rows", "mark"} => caller[c] \in Storers
           /\ caller[c].step \in AskSteps \ {"fail"} => caller[c] \in Askers
           /\ caller[c].step = "fail" => caller[c] \in Askers \cup Storers
           /\ caller[c].step \in Fetching => caller[c] \in Askers \cup Storers
           /\ caller[c] \in {Resting} \cup Acquirers \cup Showers => caller[c].step \notin Fetching
BY DEF CallersOK, Resting, Acquirers, Showers, Storers, Askers, AskSteps, Fetching

\* One field of a fetch's record at a time.
LEMMA AskStep ==
    ASSUME NEW r \in Askers, NEW s \in AskSteps
    PROVE  [r EXCEPT !.step = s] \in Askers
BY DEF Askers

LEMMA AskName ==
    ASSUME NEW r \in Askers, NEW n \in Slugs
    PROVE  [r EXCEPT !.name = n] \in Askers
BY DEF Askers

LEMMA AskId ==
    ASSUME NEW r \in Askers, NEW n \in Nat
    PROVE  [r EXCEPT !.id = n] \in Askers
BY DEF Askers

LEMMA AskTries ==
    ASSUME NEW r \in Askers, NEW n \in {0, 1}
    PROVE  [r EXCEPT !.tries = n] \in Askers
BY DEF Askers

LEMMA AskHops ==
    ASSUME NEW r \in Askers, NEW n \in Nat
    PROVE  [r EXCEPT !.hops = n] \in Askers
BY DEF Askers

LEMMA AskGot ==
    ASSUME NEW r \in Askers, NEW n \in Nat
    PROVE  [r EXCEPT !.got = n] \in Askers
BY DEF Askers

LEMMA AskAge ==
    ASSUME NEW r \in Askers, NEW n \in {0, 1}
    PROVE  [r EXCEPT !.age = n] \in Askers
BY DEF Askers

LEMMA AskRead ==
    ASSUME NEW r \in Askers, NEW n \in {0, 1}
    PROVE  [r EXCEPT !.read = n] \in Askers
BY DEF Askers

LEMMA AskQuiet ==
    ASSUME NEW r \in Askers, NEW b \in BOOLEAN
    PROVE  /\ [r EXCEPT !.quiet = b] \in Askers
           /\ [r EXCEPT !.joined = b] \in Askers
           /\ [r EXCEPT !.behind = b] \in Askers
BY DEF Askers

LEMMA StoreStep ==
    ASSUME NEW r \in Storers, NEW s \in {"store", "rows", "mark", "fail"}
    PROVE  [r EXCEPT !.step = s] \in Storers
BY DEF Storers

LEMMA StoreLost ==
    ASSUME NEW r \in Storers, NEW l \in SUBSET Kinds
    PROVE  [r EXCEPT !.lost = l] \in Storers
BY DEF Storers

LEMMA StoreAge ==
    ASSUME NEW r \in Storers, NEW n \in {0, 1}
    PROVE  [r EXCEPT !.age = n] \in Storers /\ [r EXCEPT !.read = n] \in Storers
BY DEF Storers

LEMMA StoreQuiet ==
    ASSUME NEW r \in Storers, NEW b \in BOOLEAN
    PROVE  [r EXCEPT !.quiet = b] \in Storers
BY DEF Storers

-----------------------------------------------------------------------------
\* What most steps do to a caller: nothing, no fetch, or the same fetch further on.
Alike(c) ==
    \/ caller'[c] = caller[c]
    \/ caller'[c].step \notin Fetching \cup {"show"}
    \/ /\ caller[c].step \in Fetching /\ caller'[c].step \in Fetching
       /\ caller'[c].slug = caller[c].slug /\ caller'[c].age = caller[c].age
       /\ caller'[c].read \in {0, caller[c].read}
       /\ caller'[c].step = "mark" => /\ caller[c].step = "mark" /\ caller'[c].name = caller[c].name
                                      /\ caller'[c].lost = caller[c].lost
                                      /\ caller'[c].read = caller[c].read

LEMMA AlikeKeepsRows ==
    ASSUME PagesTyped, RowsInv, \A c \in Callers : Alike(c),
           UNCHANGED <<fetches, pages, kept>>
    PROVE  RowsInv'
<1>0. /\ \A c \in Callers : caller[c].step \in Fetching => caller[c].age \in {0, 1}
      /\ "show" \notin Fetching
  <2>1. \A c \in Callers : caller[c].step \in Fetching => caller[c] \in Askers \cup Storers
    BY Shapes DEF PagesTyped
  <2>2. QED BY <2>1 DEF Askers, Storers, Fetching
<1>1. ReadInTime'
  BY <1>0 DEF RowsInv, ReadInTime, Alike
<1>2. OneFetch'
  BY DEF RowsInv, OneFetch, Alike
<1>3. KeptRows'
  BY DEF RowsInv, KeptRows
<1>4. MarkedRows'
  BY DEF RowsInv, MarkedRows, Alike, Fetching
<1>5. DatedRows'
  BY <1>0 DEF RowsInv, DatedRows, Alike
<1>6. ShownRows'
  BY <1>0 DEF RowsInv, ShownRows, Alike, Stale
<1>7. QED BY <1>1, <1>2, <1>3, <1>4, <1>5, <1>6 DEF RowsInv

\* A step of one caller on a site that stays as it is.
LEMMA LuckKept ==
    ASSUME LuckInv, UNCHANGED site,
           \A c \in Callers : caller'[c] = caller[c] \/ Lucky(caller'[c])
    PROVE  LuckInv'
BY DEF LuckInv, NamesFit, Lucky, Excused, Current

\* The other callers stay when one moves.
LEMMA OneMoves ==
    ASSUME CallersOK, NEW c \in Callers, NEW r, caller' = [caller EXCEPT ![c] = r]
    PROVE  caller'[c] = r /\ \A d \in Callers \ {c} : caller'[d] = caller[d]
BY DEF CallersOK

LEMMA OneTyped ==
    ASSUME CallersOK, NEW c \in Callers,
           NEW r \in {Resting} \cup Acquirers \cup Showers \cup Askers \cup Storers,
           caller' = [caller EXCEPT ![c] = r]
    PROVE  CallersOK'
BY DEF CallersOK

\* A caller that waits for another's flight is excused, whatever he is handed.
LEMMA WokenIs ==
    ASSUME PagesInv, NEW id \in Nat, NEW d \in Callers
    PROVE  /\ Woken(id)[d] \in {Resting} \cup Acquirers \cup Showers \cup Askers \cup Storers
           /\ caller[d].step # "wait" => Woken(id)[d] = caller[d]
           /\ caller[d].step = "wait" =>
                 /\ Woken(id)[d] \in Askers /\ Woken(id)[d].step \in {"fail", "json"}
                 /\ Woken(id)[d].slug = caller[d].slug /\ Woken(id)[d].age = caller[d].age
                 /\ Woken(id)[d].read = caller[d].read /\ Woken(id)[d].joined
<1>1. CASE caller[d].step # "wait"
  BY <1>1 DEF Woken, PagesInv, PagesTyped, CallersOK
<1>2. CASE caller[d].step = "wait"
  <2>0. caller[d] \in Askers /\ caller[d].joined
    BY <1>2, Shapes DEF PagesInv, PagesTyped, AskSteps, LuckInv, Lucky
  <2> DEFINE r == caller[d]
             f == [r EXCEPT !.step = "fail"]
             j == [r EXCEPT !.step = "json"]
             k == [j EXCEPT !.id = id]
  <2>1. /\ f \in Askers /\ f.step = "fail" /\ f.slug = r.slug /\ f.age = r.age /\ f.read = r.read /\ f.joined
        /\ j \in Askers /\ j.step = "json" /\ j.slug = r.slug /\ j.age = r.age /\ j.read = r.read /\ j.joined
    <3>1. f \in Askers /\ j \in Askers
      BY <2>0, AskStep DEF AskSteps
    <3>2. QED BY <3>1, <2>0 DEF Askers
  <2>2. /\ k \in Askers /\ k.step = "json" /\ k.slug = r.slug /\ k.age = r.age /\ k.read = r.read /\ k.joined
    <3> HIDE DEF j
    <3>1. k \in Askers
      BY <2>1, AskId
    <3>2. QED BY <3>1, <2>1 DEF Askers
  <2>3. Woken(id)[d] \in {f, k}
    BY <1>2 DEF Woken, Resolved
  <2> HIDE DEF f, j, k
  <2>4. QED BY <1>2, <2>1, <2>2, <2>3
<1>3. QED BY <1>1, <1>2

-----------------------------------------------------------------------------
\* A step of one fetch: what it has to show.
LEMMA FetchMoves ==
    ASSUME PagesInv, NEW c \in Callers, caller[c].step \in Fetching,
           NEW r \in Askers \cup Storers, caller' = [caller EXCEPT ![c] = r],
           r.step \in Fetching \ {"mark"}, r.slug = caller[c].slug, r.age = caller[c].age,
           r.read \in {0, caller[c].read}, Lucky(r),
           UNCHANGED <<site, fetches, pages, kept>>, ResolvOK', AliasesOK'
    PROVE  PagesInv'
<1>1. caller'[c] = r /\ \A d \in Callers \ {c} : caller'[d] = caller[d]
  BY OneMoves DEF PagesInv, PagesTyped
<1>2. CallersOK'
  BY OneTyped DEF PagesInv, PagesTyped
<1>3. \A d \in Callers : Alike(d)
  BY <1>1 DEF Alike
<1>4. RowsInv'
  BY <1>3, AlikeKeepsRows DEF PagesInv
<1>5. LuckInv'
  BY <1>1, LuckKept DEF PagesInv
<1>6. SiteOK' /\ PageRowsOK'
  BY DEF PagesInv, PagesTyped, SiteOK, PageRowsOK
<1>7. QED BY <1>2, <1>4, <1>5, <1>6 DEF PagesInv, PagesTyped

\* A step that leaves a caller without a fetch and without a summary.
LEMMA FetchEnds ==
    ASSUME PagesInv, NEW c \in Callers,
           NEW r \in {Resting} \cup Acquirers, caller' = [caller EXCEPT ![c] = r],
           UNCHANGED <<site, resolver, aliases, fetches, pages, kept>>
    PROVE  PagesInv'
<1>1. caller'[c] = r /\ \A d \in Callers \ {c} : caller'[d] = caller[d]
  BY OneMoves DEF PagesInv, PagesTyped
<1>2. CallersOK'
  BY OneTyped DEF PagesInv, PagesTyped
<1>3. r.step \notin Fetching \cup {"show"} /\ Lucky(r)
  BY DEF Resting, Acquirers, Fetching, Lucky, AskSteps
<1>4. \A d \in Callers : Alike(d)
  BY <1>1, <1>3 DEF Alike
<1>5. RowsInv'
  BY <1>4, AlikeKeepsRows DEF PagesInv
<1>6. LuckInv'
  BY <1>1, <1>3, LuckKept DEF PagesInv
<1>7. SiteOK' /\ PageRowsOK' /\ ResolvOK' /\ AliasesOK'
  BY DEF PagesInv, PagesTyped, SiteOK, PageRowsOK, ResolvOK, AliasesOK
<1>8. QED BY <1>2, <1>5, <1>6, <1>7 DEF PagesInv, PagesTyped

LEMMA ResolveStep ==
    ASSUME PagesInv, NEW c \in Callers, Resolve(c)
    PROVE  PagesInv'
<1> DEFINE r == caller[c]
<1>0. /\ r \in Askers /\ r.step = "resolve" /\ Lucky(r) /\ CallersOK
      /\ ResolvOK /\ AliasesOK
  BY Shapes DEF Resolve, PagesInv, PagesTyped, AskSteps, LuckInv
<1>1. CASE Usable /\ r.tries = 0 /\ UNCHANGED resolver
           /\ caller' = [caller EXCEPT ![c] =
                 [Resolved(@, resolver.id) EXCEPT !.behind = Behind(caller[c].name)]]
  <2> DEFINE j == [r EXCEPT !.step = "json"]
             k == [j EXCEPT !.id = resolver.id]
             l == [k EXCEPT !.behind = Behind(r.name)]
  <2>1. /\ j \in Askers /\ j.step = "json" /\ j.slug = r.slug /\ j.age = r.age /\ j.read = r.read
        /\ j.tries = 0 /\ j.name = r.name
    <3>1. j \in Askers
      BY <1>0, AskStep DEF AskSteps
    <3>2. QED BY <3>1, <1>0, <1>1 DEF Askers
  <2>2. /\ k \in Askers /\ k.step = "json" /\ k.slug = r.slug /\ k.age = r.age /\ k.read = r.read
        /\ k.tries = 0 /\ k.name = r.name /\ k.id = resolver.id
    <3> HIDE DEF j
    <3>1. resolver.id \in Nat
      BY <1>0 DEF ResolvOK
    <3>2. k \in Askers
      BY <2>1, <3>1, AskId
    <3>3. QED BY <3>2, <2>1 DEF Askers
  <2>3. /\ l \in Askers /\ l.step = "json" /\ l.slug = r.slug /\ l.age = r.age /\ l.read = r.read
        /\ l.tries = 0 /\ l.name = r.name /\ l.id = resolver.id /\ l.behind = Behind(r.name)
    <3> HIDE DEF k
    <3>1. Behind(r.name) \in BOOLEAN
      BY DEF Behind
    <3>2. l \in Askers
      BY <2>2, <3>1, AskQuiet
    <3>3. QED BY <3>2, <2>2 DEF Askers
  <2>4. caller' = [caller EXCEPT ![c] = l]
    BY <1>0, <1>1 DEF Resolved, CallersOK
  <2> HIDE DEF l
  <2>5. Lucky(l)
    <3>1. ~l.behind => resolver.id = site.build \/ Current(r.name)
      BY <2>3 DEF Behind, Current
    <3>2. QED BY <2>3, <3>1 DEF Lucky, Excused, AskSteps
  <2>6. ResolvOK' /\ AliasesOK' /\ UNCHANGED <<site, fetches, pages, kept>>
    BY <1>0, <1>1 DEF ResolvOK, AliasesOK, Resolve
  <2>7. QED BY <1>0, <2>3, <2>4, <2>5, <2>6, FetchMoves DEF Fetching
<1>2. CASE caller' = [caller EXCEPT ![c].step = "wait", ![c].joined = TRUE] /\ UNCHANGED resolver
  <2> DEFINE j == [r EXCEPT !.step = "wait"]
             k == [j EXCEPT !.joined = TRUE]
  <2>1. /\ j \in Askers /\ j.step = "wait" /\ j.slug = r.slug /\ j.age = r.age /\ j.read = r.read
    <3>1. j \in Askers
      BY <1>0, AskStep DEF AskSteps
    <3>2. QED BY <3>1, <1>0 DEF Askers
  <2>2. /\ k \in Askers /\ k.step = "wait" /\ k.slug = r.slug /\ k.age = r.age /\ k.read = r.read
        /\ k.joined
    <3> HIDE DEF j
    <3>1. k \in Askers
      BY <2>1, AskQuiet
    <3>2. QED BY <3>1, <2>1 DEF Askers
  <2>3. caller' = [caller EXCEPT ![c] = k]
    BY <1>0, <1>2 DEF CallersOK
  <2> HIDE DEF k
  <2>4. Lucky(k)
    BY <2>2 DEF Lucky, Excused
  <2>5. ResolvOK' /\ AliasesOK' /\ UNCHANGED <<site, fetches, pages, kept>>
    BY <1>0, <1>2 DEF ResolvOK, AliasesOK, Resolve
  <2>6. QED BY <1>0, <2>2, <2>3, <2>4, <2>5, FetchMoves DEF Fetching
<1>3. CASE resolver' = [resolver EXCEPT !.by = c] /\ To(c, "page")
  <2> DEFINE j == [r EXCEPT !.step = "page"]
  <2>1. j \in Askers
    BY <1>0, AskStep DEF AskSteps
  <2>2. /\ j.step = "page" /\ j.slug = r.slug /\ j.age = r.age /\ j.read = r.read /\ j.tries = r.tries
        /\ j.id = r.id /\ j.name = r.name /\ j.quiet = r.quiet /\ j.behind = r.behind /\ j.joined = r.joined
    BY <1>0, <2>1 DEF Askers
  <2>3. caller' = [caller EXCEPT ![c] = j]
    BY <1>0, <1>3 DEF To, CallersOK
  <2> HIDE DEF j
  <2>4. Lucky(j)
    BY <1>0, <2>2 DEF Lucky, Excused, AskSteps
  <2>5. ResolvOK' /\ AliasesOK' /\ UNCHANGED <<site, fetches, pages, kept>>
    BY <1>0, <1>3 DEF ResolvOK, AliasesOK, Resolve
  <2>6. QED BY <1>0, <2>1, <2>2, <2>3, <2>4, <2>5, FetchMoves DEF Fetching
<1>4. QED BY <1>1, <1>2, <1>3 DEF Resolve

LEMMA FetchBuildIDStep ==
    ASSUME PagesInv, NEW c \in Callers, FetchBuildID(c)
    PROVE  PagesInv'
<1> DEFINE r == caller[c]
           j == [r EXCEPT !.step = "landed"]
           k == [j EXCEPT !.got = site.build]
<1>0. r \in Askers /\ r.step = "page" /\ Lucky(r) /\ CallersOK /\ SiteOK
  BY Shapes DEF FetchBuildID, PagesInv, PagesTyped, AskSteps, LuckInv
<1>1. j \in Askers
  BY <1>0, AskStep DEF AskSteps
<1>2. /\ j.step = "landed" /\ j.slug = r.slug /\ j.age = r.age /\ j.read = r.read /\ j.tries = r.tries
      /\ j.id = r.id /\ j.name = r.name /\ j.quiet = r.quiet /\ j.behind = r.behind /\ j.joined = r.joined
  BY <1>0, <1>1 DEF Askers
<1>3. k \in Askers
  <2> HIDE DEF j
  <2>1. QED BY <1>0, <1>1, AskGot DEF SiteOK
<1>4. /\ k.step = "landed" /\ k.slug = r.slug /\ k.age = r.age /\ k.read = r.read /\ k.tries = r.tries
      /\ k.id = r.id /\ k.name = r.name /\ k.quiet = r.quiet /\ k.behind = r.behind /\ k.joined = r.joined
      /\ k.got = site.build
  <2> HIDE DEF j
  <2>1. QED BY <1>1, <1>2 DEF Askers
<1>5. caller' = [caller EXCEPT ![c] = k]
  BY <1>0 DEF FetchBuildID, CallersOK
<1> HIDE DEF j, k
<1>6. Lucky(k)
  BY <1>0, <1>4 DEF Lucky, Excused, AskSteps
<1>7. ResolvOK' /\ AliasesOK' /\ UNCHANGED <<site, fetches, pages, kept>>
  BY DEF FetchBuildID, PagesInv, PagesTyped, ResolvOK, AliasesOK
<1>8. QED BY <1>0, <1>3, <1>4, <1>5, <1>6, <1>7, FetchMoves DEF Fetching

\* A flight ends: its pilot goes on with r, and the others with what there is.
LEMMA FlightEnds ==
    ASSUME PagesInv, NEW c \in Callers, caller[c].step \in {"page", "landed"}, NEW id \in Nat,
           NEW r \in Askers, caller' = [Woken(id) EXCEPT ![c] = r],
           r.step \in Fetching, r.slug = caller[c].slug, r.age = caller[c].age,
           r.read = caller[c].read, Lucky(r),
           UNCHANGED <<site, aliases, fetches, pages, kept>>, ResolvOK'
    PROVE  PagesInv'
<1>0. /\ caller'[c] = r
      /\ \A d \in Callers \ {c} : caller'[d] = Woken(id)[d]
      /\ caller' \in [Callers -> {Resting} \cup Acquirers \cup Showers \cup Askers \cup Storers]
  <2>1. Woken(id) \in [Callers -> {Resting} \cup Acquirers \cup Showers \cup Askers \cup Storers]
    <3>1. \A d \in Callers : Woken(id)[d] \in {Resting} \cup Acquirers \cup Showers \cup Askers \cup Storers
      BY WokenIs
    <3>2. \E f : Woken(id) = [d \in Callers |-> f[d]]
      <4>1. Woken(id) = [d \in Callers |-> Woken(id)[d]]
        BY DEF Woken
      <4>2. QED BY <4>1
    <3>3. QED BY <3>1, <3>2
  <2>2. QED BY <2>1
<1>1. CallersOK'
  BY <1>0 DEF CallersOK
<1>2. \A d \in Callers : Alike(d)
  <2>1. Alike(c)
    BY <1>0 DEF Alike, Askers, AskSteps, Fetching
  <2>2. ASSUME NEW d \in Callers \ {c}, caller[d].step # "wait"
        PROVE  Alike(d)
    BY <1>0, <2>2, WokenIs DEF Alike
  <2>3. ASSUME NEW d \in Callers \ {c}, caller[d].step = "wait"
        PROVE  Alike(d)
    BY <1>0, <2>3, WokenIs DEF Alike, Fetching
  <2>4. QED BY <2>1, <2>2, <2>3
<1>3. RowsInv'
  BY <1>2, AlikeKeepsRows DEF PagesInv
<1>4. ASSUME NEW d \in Callers
      PROVE  caller'[d] = caller[d] \/ Lucky(caller'[d])
  <2>1. CASE d = c
    BY <1>0, <2>1
  <2>2. CASE d # c /\ caller[d].step # "wait"
    BY <1>0, <2>2, WokenIs
  <2>3. CASE d # c /\ caller[d].step = "wait"
    BY <1>0, <2>3, WokenIs DEF Lucky, Excused
  <2>4. QED BY <2>1, <2>2, <2>3
<1>5. LuckInv'
  BY <1>4, LuckKept DEF PagesInv
<1>6. SiteOK' /\ PageRowsOK' /\ AliasesOK'
  BY DEF PagesInv, PagesTyped, SiteOK, PageRowsOK, AliasesOK
<1>7. QED BY <1>1, <1>3, <1>5, <1>6 DEF PagesInv, PagesTyped

LEMMA LandStep ==
    ASSUME PagesInv, NEW c \in Callers, Land(c)
    PROVE  PagesInv'
<1> DEFINE r == caller[c]
           f == [r EXCEPT !.step = "fail"]
           j == [r EXCEPT !.step = "json"]
           k == [j EXCEPT !.id = r.got]
           q == IF r.tries = 1 /\ r.got = r.id THEN f ELSE k
           z == [q EXCEPT !.got = 0]
<1>0. /\ r \in Askers /\ r.step = "landed" /\ Lucky(r) /\ CallersOK
      /\ r.got \in Nat /\ Woken(r.got)[c] = r
  <2>1. r \in Askers /\ r.step = "landed" /\ Lucky(r) /\ CallersOK
    BY Shapes DEF Land, PagesInv, PagesTyped, AskSteps, LuckInv
  <2>2. r.got \in Nat
    BY <2>1 DEF Askers
  <2>3. QED BY <2>1, <2>2, WokenIs
<1>1. f \in Askers /\ j \in Askers
  BY <1>0, AskStep DEF AskSteps
<1>2. /\ f.step = "fail" /\ f.slug = r.slug /\ f.age = r.age /\ f.read = r.read
      /\ f.quiet = r.quiet /\ f.behind = r.behind /\ f.joined = r.joined
      /\ j.step = "json" /\ j.slug = r.slug /\ j.age = r.age /\ j.read = r.read /\ j.tries = r.tries
      /\ j.quiet = r.quiet /\ j.behind = r.behind /\ j.joined = r.joined /\ j.name = r.name
  BY <1>0, <1>1 DEF Askers
<1>3. k \in Askers
  <2> HIDE DEF j
  <2>1. QED BY <1>0, <1>1, AskId
<1>4. /\ k.step = "json" /\ k.slug = r.slug /\ k.age = r.age /\ k.read = r.read /\ k.tries = r.tries
      /\ k.quiet = r.quiet /\ k.behind = r.behind /\ k.joined = r.joined /\ k.name = r.name
      /\ k.id = r.got
  <2> HIDE DEF j
  <2>1. QED BY <1>1, <1>2 DEF Askers
<1>5. q \in Askers /\ Lucky(q) /\ q.step \in {"json", "fail"} /\ q.slug = r.slug
      /\ q.age = r.age /\ q.read = r.read
  <2> HIDE DEF f, j, k
  <2>1. CASE r.tries = 1 /\ r.got = r.id
    <3>1. Excused(r)
      BY <1>0, <2>1 DEF Lucky, AskSteps
    <3>2. QED BY <1>1, <1>2, <2>1, <3>1 DEF Lucky, Excused, AskSteps
  <2>2. CASE ~(r.tries = 1 /\ r.got = r.id)
    <3>1. ~Excused(r) => r.got = site.build /\ (r.tries = 1 => Current(r.name))
      BY <1>0 DEF Lucky, AskSteps
    <3>2. QED BY <1>3, <1>4, <2>2, <3>1 DEF Lucky, Excused, AskSteps
  <2>3. QED BY <2>1, <2>2
<1>6. z \in Askers
  <2> HIDE DEF q
  <2>1. QED BY <1>5, AskGot
<1>7. /\ z.step = q.step /\ z.slug = q.slug /\ z.age = q.age /\ z.read = q.read /\ z.tries = q.tries
      /\ z.quiet = q.quiet /\ z.behind = q.behind /\ z.joined = q.joined /\ z.name = q.name
      /\ z.id = q.id
  <2> HIDE DEF q
  <2>1. QED BY <1>5 DEF Askers
<1>8. caller' = [Woken(r.got) EXCEPT ![c] = z]
  BY <1>0 DEF Land, Resolved, Woken
<1> HIDE DEF q, z
<1>9. Lucky(z)
  BY <1>5, <1>7 DEF Lucky, Excused, AskSteps
<1>10. ResolvOK' /\ UNCHANGED <<site, aliases, fetches, pages, kept>>
  BY <1>0, OldIs DEF Land, ResolvOK, Ages
<1>11. QED BY <1>0, <1>5, <1>6, <1>7, <1>8, <1>9, <1>10, FlightEnds DEF Fetching

LEMMA FailToFetchBuildIDStep ==
    ASSUME PagesInv, NEW c \in Callers, FailToFetchBuildID(c)
    PROVE  PagesInv'
<1> DEFINE r == caller[c]
           f == [r EXCEPT !.step = "fail"]
           z == [f EXCEPT !.quiet = FALSE]
<1>0. /\ r \in Askers /\ r.step \in {"page", "landed"} /\ CallersOK /\ ResolvOK
      /\ resolver.id \in Nat /\ Woken(resolver.id)[c] = r
  <2>1. r \in Askers /\ r.step \in {"page", "landed"} /\ CallersOK /\ ResolvOK
    BY Shapes DEF FailToFetchBuildID, PagesInv, PagesTyped, AskSteps
  <2>2. resolver.id \in Nat
    BY <2>1 DEF ResolvOK
  <2>3. QED BY <2>1, <2>2, WokenIs
<1>1. f \in Askers
  BY <1>0, AskStep DEF AskSteps
<1>2. f.step = "fail" /\ f.slug = r.slug /\ f.age = r.age /\ f.read = r.read
  BY <1>0, <1>1 DEF Askers
<1>3. z \in Askers
  <2> HIDE DEF f
  <2>1. QED BY <1>1, AskQuiet
<1>4. z.step = "fail" /\ z.slug = r.slug /\ z.age = r.age /\ z.read = r.read /\ z.quiet = FALSE
  <2> HIDE DEF f
  <2>1. QED BY <1>1, <1>2 DEF Askers
<1>5. caller' = [Woken(resolver.id) EXCEPT ![c] = z]
  BY <1>0 DEF FailToFetchBuildID, Woken
<1> HIDE DEF f, z
<1>6. Lucky(z)
  BY <1>4 DEF Lucky, Excused
<1>7. ResolvOK' /\ UNCHANGED <<site, aliases, fetches, pages, kept>>
  BY <1>0 DEF FailToFetchBuildID, ResolvOK
<1>8. QED BY <1>0, <1>3, <1>4, <1>5, <1>6, <1>7, FlightEnds DEF Fetching

\* A name the site uses is one it keeps to.
LEMMA NamesSettle ==
    ASSUME PagesInv, NEW s \in Slugs
    PROVE  site.name[s] \in Slugs /\ Current(site.name[s])
<1>1. SiteOK /\ NamesFit
  BY DEF PagesInv, PagesTyped, LuckInv
<1>2. CASE s \in DOMAIN Renamed
  BY <1>1, <1>2, PagesAssumption DEF SiteOK, NamesFit, Current
<1>3. CASE s \notin DOMAIN Renamed /\ \E t \in DOMAIN Renamed : Renamed[t] = s
  BY <1>1, <1>3, PagesAssumption DEF SiteOK, NamesFit, Current
<1>4. CASE s \notin DOMAIN Renamed /\ \A t \in DOMAIN Renamed : Renamed[t] # s
  BY <1>1, <1>4, PagesAssumption DEF SiteOK, NamesFit, Current
<1>5. QED BY <1>2, <1>3, <1>4

\* A fetch is given up: what the callers of To(c, "fail") have in common.
LEMMA GivesUp ==
    ASSUME PagesInv, NEW c \in Callers, caller[c] \in Askers,
           Excused(caller[c]), To(c, "fail"),
           UNCHANGED <<site, resolver, fetches, pages, kept>>, AliasesOK'
    PROVE  PagesInv'
<1> DEFINE r == caller[c]
           f == [r EXCEPT !.step = "fail"]
<1>1. f \in Askers
  BY AskStep DEF AskSteps
<1>2. /\ f.step = "fail" /\ f.slug = r.slug /\ f.age = r.age /\ f.read = r.read
      /\ f.quiet = r.quiet /\ f.behind = r.behind /\ f.joined = r.joined
  BY <1>1 DEF Askers
<1>3. caller' = [caller EXCEPT ![c] = f] /\ r.step \in Fetching
  BY DEF To, PagesInv, PagesTyped, CallersOK, Askers, AskSteps, Fetching
<1>4. ResolvOK'
  BY DEF PagesInv, PagesTyped, ResolvOK
<1> HIDE DEF f
<1>5. Lucky(f)
  BY <1>2 DEF Lucky, Excused
<1>6. QED BY <1>1, <1>2, <1>3, <1>4, <1>5, FetchMoves DEF Fetching

LEMMA StaleBuildStep ==
    ASSUME PagesInv, NEW c \in Callers, caller[c].step = "json", Gone(c), StaleBuild(c),
           UNCHANGED <<site, resolver, aliases, fetches, pages, kept>>
    PROVE  PagesInv'
<1> DEFINE r == caller[c]
           j == [r EXCEPT !.step = "resolve"]
           k == [j EXCEPT !.tries = 1]
           l == [k EXCEPT !.hops = 1]
<1>0. r \in Askers /\ r.step = "json" /\ Lucky(r) /\ CallersOK /\ r.id # site.build
  BY Shapes DEF PagesInv, PagesTyped, AskSteps, LuckInv, Gone
<1>1. CASE r.tries = 1
  <2>1. Excused(r)
    BY <1>0, <1>1 DEF Lucky, AskSteps
  <2>2. AliasesOK'
    BY DEF PagesInv, PagesTyped, AliasesOK
  <2>3. QED BY <1>0, <1>1, <2>1, <2>2, GivesUp DEF StaleBuild
<1>2. CASE r.tries # 1
  <2>1. j \in Askers
    BY <1>0, AskStep DEF AskSteps
  <2>2. /\ j.step = "resolve" /\ j.slug = r.slug /\ j.age = r.age /\ j.read = r.read /\ j.id = r.id
        /\ j.quiet = r.quiet /\ j.behind = r.behind /\ j.joined = r.joined /\ j.name = r.name
    BY <1>0, <2>1 DEF Askers
  <2>3. k \in Askers
    <3> HIDE DEF j
    <3>1. QED BY <2>1, AskTries
  <2>4. /\ k.step = "resolve" /\ k.slug = r.slug /\ k.age = r.age /\ k.read = r.read /\ k.id = r.id
        /\ k.quiet = r.quiet /\ k.behind = r.behind /\ k.joined = r.joined /\ k.name = r.name
        /\ k.tries = 1
    <3> HIDE DEF j
    <3>1. QED BY <2>1, <2>2 DEF Askers
  <2>5. l \in Askers
    <3> HIDE DEF k
    <3>1. QED BY <2>3, AskHops
  <2>6. /\ l.step = "resolve" /\ l.slug = r.slug /\ l.age = r.age /\ l.read = r.read /\ l.id = r.id
        /\ l.quiet = r.quiet /\ l.behind = r.behind /\ l.joined = r.joined /\ l.name = r.name
        /\ l.tries = 1
    <3> HIDE DEF k
    <3>1. QED BY <2>3, <2>4 DEF Askers
  <2>7. caller' = [caller EXCEPT ![c] = l]
    BY <1>0, <1>2 DEF StaleBuild, CallersOK
  <2> HIDE DEF l
  <2>8. Lucky(l)
    <3>1. ~Excused(r) => Current(r.name)
      BY <1>0 DEF Lucky, AskSteps
    <3>2. QED BY <1>0, <2>6, <3>1 DEF Lucky, Excused, AskSteps
  <2>9. ResolvOK' /\ AliasesOK'
    BY DEF PagesInv, PagesTyped, ResolvOK, AliasesOK
  <2>10. QED BY <1>0, <2>5, <2>6, <2>7, <2>8, <2>9, FetchMoves DEF Fetching
<1>3. QED BY <1>1, <1>2

LEMMA StashTyped ==
    ASSUME AliasesOK, NEW s \in Slugs, NEW n \in Slugs, Stash(s, n)
    PROVE  AliasesOK'
BY DEF AliasesOK, Stash

\* What a request that found the build knows.
LEMMA BuildIsHere ==
    ASSUME PagesInv, NEW c \in Callers, caller[c].step \in Ask, ~Gone(c)
    PROVE  /\ caller[c] \in Askers /\ Lucky(caller[c])
           /\ ~Excused(caller[c]) => /\ caller[c].id = site.build
                                     /\ caller[c].tries = 1 => Current(caller[c].name)
<1>1. caller[c] \in Askers /\ Lucky(caller[c])
  BY Shapes DEF PagesInv, PagesTyped, Ask, AskSteps, LuckInv
<1>2. QED BY <1>1 DEF Lucky, Gone, Ask, AskSteps

LEMMA RedirectedStep ==
    ASSUME PagesInv, NEW c \in Callers, caller[c].step \in Ask, ~Gone(c),
           site.name[caller[c].name] # caller[c].name,
           Redirected(c, site.name[caller[c].name]),
           UNCHANGED <<site, resolver, fetches, pages, kept>>
    PROVE  PagesInv'
<1> DEFINE r == caller[c]
           n == site.name[r.name]
           j == [r EXCEPT !.step = "json"]
           k == [j EXCEPT !.name = n]
           l == [k EXCEPT !.tries = 1]
           m == [l EXCEPT !.hops = 1]
<1>0. /\ r \in Askers /\ r.name \in Slugs /\ r.slug \in Slugs /\ n \in Slugs /\ Current(n)
      /\ ~Excused(r) => r.id = site.build /\ (r.tries = 1 => Current(r.name))
      /\ CallersOK
  <2>1. /\ r \in Askers
        /\ ~Excused(r) => r.id = site.build /\ (r.tries = 1 => Current(r.name))
    BY BuildIsHere
  <2>2. r.name \in Slugs /\ r.slug \in Slugs
    BY <2>1 DEF Askers
  <2>3. QED BY <2>1, <2>2, NamesSettle DEF PagesInv, PagesTyped
<1>1. CASE r.tries = 1
  <2>1. Excused(r)
    BY <1>0, <1>1 DEF Current
  <2>2. To(c, "fail") /\ AliasesOK'
    BY <1>1 DEF Redirected, PagesInv, PagesTyped, AliasesOK
  <2>3. QED BY <1>0, <2>1, <2>2, GivesUp
<1>2. CASE r.tries # 1
  <2>1. j \in Askers
    BY <1>0, AskStep DEF AskSteps
  <2>2. /\ j.step = "json" /\ j.slug = r.slug /\ j.age = r.age /\ j.read = r.read /\ j.id = r.id
        /\ j.quiet = r.quiet /\ j.behind = r.behind /\ j.joined = r.joined
    BY <1>0, <2>1 DEF Askers
  <2>3. k \in Askers
    <3> HIDE DEF j
    <3>1. QED BY <1>0, <2>1, AskName
  <2>4. /\ k.step = "json" /\ k.slug = r.slug /\ k.age = r.age /\ k.read = r.read /\ k.id = r.id
        /\ k.quiet = r.quiet /\ k.behind = r.behind /\ k.joined = r.joined /\ k.name = n
    <3> HIDE DEF j, n
    <3>1. QED BY <2>1, <2>2 DEF Askers
  <2>5. l \in Askers
    <3> HIDE DEF k
    <3>1. QED BY <2>3, AskTries
  <2>6. /\ l.step = "json" /\ l.slug = r.slug /\ l.age = r.age /\ l.read = r.read /\ l.id = r.id
        /\ l.quiet = r.quiet /\ l.behind = r.behind /\ l.joined = r.joined /\ l.name = n
    <3> HIDE DEF k, n
    <3>1. QED BY <2>3, <2>4 DEF Askers
  <2>7. m \in Askers
    <3> HIDE DEF l
    <3>1. QED BY <2>5, AskHops
  <2>8. /\ m.step = "json" /\ m.slug = r.slug /\ m.age = r.age /\ m.read = r.read /\ m.id = r.id
        /\ m.quiet = r.quiet /\ m.behind = r.behind /\ m.joined = r.joined /\ m.name = n
    <3> HIDE DEF l, n
    <3>1. QED BY <2>5, <2>6 DEF Askers
  <2>9. caller' = [caller EXCEPT ![c] = m] /\ Stash(r.slug, n)
    BY <1>2 DEF Redirected
  <2> HIDE DEF m, n
  <2>10. Lucky(m)
    BY <1>0, <2>8 DEF Lucky, Excused, AskSteps
  <2>11. ResolvOK' /\ AliasesOK'
    BY <1>0, <2>9, StashTyped DEF PagesInv, PagesTyped, ResolvOK
  <2>12. r.step \in Fetching
    BY DEF Ask, Fetching
  <2>13. QED BY <1>0, <2>7, <2>8, <2>9, <2>10, <2>11, <2>12, FetchMoves DEF Fetching
<1>3. QED BY <1>1, <1>2

LEMMA ServedStep ==
    ASSUME PagesInv, NEW c \in Callers, caller[c].step \in Ask, Served(c),
           UNCHANGED <<site, resolver, aliases, fetches, pages, kept>>
    PROVE  PagesInv'
<1> DEFINE r == caller[c]
           z == [step |-> "store", slug |-> r.slug, name |-> r.name, age |-> r.age, read |-> 0,
                 lost |-> {}, quiet |-> r.quiet, joined |-> FALSE, behind |-> FALSE]
<1>0. r \in Askers /\ CallersOK
  BY Shapes DEF PagesInv, PagesTyped, Ask, AskSteps
<1>1. z \in Storers
  BY <1>0 DEF Askers, Storers
<1>2. caller' = [caller EXCEPT ![c] = z]
  BY <1>0 DEF Served, CallersOK
<1>3. Lucky(z)
  BY DEF Lucky, AskSteps
<1>4. ResolvOK' /\ AliasesOK'
  BY DEF PagesInv, PagesTyped, ResolvOK, AliasesOK
<1>5. r.step \in Fetching /\ z.step \in Fetching \ {"mark"} /\ z.slug = r.slug /\ z.age = r.age /\ z.read = 0
  BY DEF Ask, Fetching
<1> HIDE DEF z
<1>6. QED BY <1>1, <1>2, <1>3, <1>4, <1>5, FetchMoves

LEMMA RequestStep ==
    ASSUME PagesInv, NEW c \in Callers, Request(c)
    PROVE  PagesInv'
<1>1. CASE Gone(c) /\ caller[c].step = "json" /\ StaleBuild(c) /\ UNCHANGED <<aliases, spare>>
  BY <1>1, StaleBuildStep DEF Request
<1>2. CASE Gone(c) /\ caller[c].step = "data" /\ To(c, "fail") /\ UNCHANGED <<aliases, spare>>
  <2>1. caller[c] \in Askers /\ Lucky(caller[c])
    BY <1>2, Shapes DEF PagesInv, PagesTyped, AskSteps, LuckInv
  <2>2. Excused(caller[c])
    BY <1>2, <2>1 DEF Lucky, Gone, AskSteps
  <2>3. AliasesOK' /\ UNCHANGED <<site, resolver, fetches, pages, kept>>
    BY <1>2 DEF Request, PagesInv, PagesTyped, AliasesOK
  <2>4. QED BY <1>2, <2>1, <2>2, <2>3, GivesUp
<1>3. CASE ~Gone(c) /\ site.name[caller[c].name] # caller[c].name
           /\ Redirected(c, site.name[caller[c].name])
  BY <1>3, RedirectedStep DEF Request
<1>4. CASE Served(c) /\ UNCHANGED <<aliases, spare>>
  BY <1>4, ServedStep DEF Request
<1>5. QED BY <1>1, <1>2, <1>3, <1>4 DEF Request

LEMMA BounceStep ==
    ASSUME PagesInv, NEW c \in Callers, Bounce(c)
    PROVE  PagesInv'
<1> DEFINE r == caller[c]
           f == [r EXCEPT !.step = "fail"]
           z == [f EXCEPT !.quiet = FALSE]
<1>0. /\ r \in Askers /\ r.step \in Ask /\ CallersOK /\ r.hops + 1 \in Nat
      /\ ~Excused(r) => r.id = site.build /\ (r.tries = 1 => Current(r.name))
  <2>1. /\ r \in Askers /\ r.step \in Ask /\ CallersOK
        /\ ~Excused(r) => r.id = site.build /\ (r.tries = 1 => Current(r.name))
    BY BuildIsHere DEF Bounce, PagesInv, PagesTyped
  <2>2. QED BY <2>1 DEF Askers
<1>1. ResolvOK' /\ AliasesOK' /\ UNCHANGED <<site, fetches, pages, kept>> /\ r.step \in Fetching
  BY <1>0 DEF Bounce, PagesInv, PagesTyped, ResolvOK, AliasesOK, Ask, Fetching
<1>2. CASE caller' = [caller EXCEPT ![c] = [r EXCEPT !.step = "fail", !.quiet = FALSE]]
  <2>1. f \in Askers
    BY <1>0, AskStep DEF AskSteps
  <2>2. f.step = "fail" /\ f.slug = r.slug /\ f.age = r.age /\ f.read = r.read
    BY <1>0, <2>1 DEF Askers
  <2>3. z \in Askers
    <3> HIDE DEF f
    <3>1. QED BY <2>1, AskQuiet
  <2>4. z.step = "fail" /\ z.slug = r.slug /\ z.age = r.age /\ z.read = r.read /\ z.quiet = FALSE
    <3> HIDE DEF f
    <3>1. QED BY <2>1, <2>2 DEF Askers
  <2>5. caller' = [caller EXCEPT ![c] = z]
    BY <1>2
  <2> HIDE DEF z
  <2>6. Lucky(z)
    BY <2>4 DEF Lucky, Excused
  <2>7. QED BY <1>1, <2>3, <2>4, <2>5, <2>6, FetchMoves DEF Fetching
<1>3. ASSUME NEW w \in {"html", "data"},
             caller' = [caller EXCEPT ![c] = [r EXCEPT !.step = w, !.hops = @ + 1]]
      PROVE  PagesInv'
  <2> DEFINE j == [r EXCEPT !.step = w]
             k == [j EXCEPT !.hops = r.hops + 1]
  <2>1. j \in Askers
    BY <1>0, AskStep DEF AskSteps
  <2>2. /\ j.step = w /\ j.slug = r.slug /\ j.age = r.age /\ j.read = r.read /\ j.id = r.id
        /\ j.quiet = r.quiet /\ j.behind = r.behind /\ j.joined = r.joined /\ j.name = r.name
        /\ j.tries = r.tries /\ j.hops = r.hops
    BY <1>0, <2>1 DEF Askers
  <2>3. k \in Askers
    <3> HIDE DEF j
    <3>1. QED BY <1>0, <2>1, AskHops
  <2>4. /\ k.step = w /\ k.slug = r.slug /\ k.age = r.age /\ k.read = r.read /\ k.id = r.id
        /\ k.quiet = r.quiet /\ k.behind = r.behind /\ k.joined = r.joined /\ k.name = r.name
        /\ k.tries = r.tries
    <3> HIDE DEF j
    <3>1. QED BY <2>1, <2>2 DEF Askers
  <2>5. caller' = [caller EXCEPT ![c] = k]
    BY <1>0, <1>3 DEF Askers
  <2> HIDE DEF k
  <2>6. Lucky(k)
    BY <1>0, <2>4 DEF Lucky, Excused, AskSteps
  <2>7. QED BY <1>1, <2>3, <2>4, <2>5, <2>6, FetchMoves DEF Fetching
<1>4. QED BY <1>2, <1>3 DEF Bounce, Bounced

LEMMA FailRequestStep ==
    ASSUME PagesInv, NEW c \in Callers, FailRequest(c)
    PROVE  PagesInv'
<1> DEFINE r == caller[c]
           f == [r EXCEPT !.step = "fail"]
           z == [f EXCEPT !.quiet = FALSE]
<1>0. r \in Askers /\ r.step \in Fetching /\ CallersOK
  BY Shapes DEF FailRequest, PagesInv, PagesTyped, Ask, AskSteps, Fetching
<1>1. ResolvOK' /\ AliasesOK' /\ UNCHANGED <<site, fetches, pages, kept>>
  BY DEF FailRequest, PagesInv, PagesTyped, ResolvOK, AliasesOK
<1>2. f \in Askers
  BY <1>0, AskStep DEF AskSteps
<1>3. f.step = "fail" /\ f.slug = r.slug /\ f.age = r.age /\ f.read = r.read
  BY <1>0, <1>2 DEF Askers
<1>4. z \in Askers
  <2> HIDE DEF f
  <2>1. QED BY <1>2, AskQuiet
<1>5. z.step = "fail" /\ z.slug = r.slug /\ z.age = r.age /\ z.read = r.read /\ z.quiet = FALSE
  <2> HIDE DEF f
  <2>1. QED BY <1>2, <1>3 DEF Askers
<1>6. caller' = [caller EXCEPT ![c] = z]
  BY <1>0 DEF FailRequest, CallersOK
<1> HIDE DEF f, z
<1>7. Lucky(z)
  BY <1>5 DEF Lucky, Excused
<1>8. QED BY <1>0, <1>1, <1>4, <1>5, <1>6, <1>7, FetchMoves DEF Fetching

LEMMA StoreSnapshotStep ==
    ASSUME PagesInv, NEW c \in Callers, StoreSnapshot(c)
    PROVE  PagesInv'
<1> DEFINE r == caller[c]
           f == [r EXCEPT !.step = "fail"]
           z == [f EXCEPT !.quiet = FALSE]
           j == [r EXCEPT !.step = "rows"]
<1>0. r \in Storers /\ r.step \in Fetching /\ CallersOK
  BY Shapes DEF StoreSnapshot, PagesInv, PagesTyped, Fetching
<1>1. ResolvOK' /\ AliasesOK' /\ UNCHANGED <<site, fetches, pages, kept>>
  BY DEF StoreSnapshot, PagesInv, PagesTyped, ResolvOK, AliasesOK
<1>2. CASE To(c, "rows")
  <2>1. j \in Storers
    BY <1>0, StoreStep
  <2>2. j.step = "rows" /\ j.slug = r.slug /\ j.age = r.age /\ j.read = r.read
    BY <1>0, <2>1 DEF Storers
  <2>3. caller' = [caller EXCEPT ![c] = j]
    BY <1>0, <1>2 DEF To, CallersOK
  <2> HIDE DEF j
  <2>4. Lucky(j)
    BY <2>2 DEF Lucky, AskSteps
  <2>5. QED BY <1>0, <1>1, <2>1, <2>2, <2>3, <2>4, FetchMoves DEF Fetching
<1>3. CASE caller' = [caller EXCEPT ![c].step = "fail", ![c].quiet = FALSE]
  <2>1. f \in Storers
    BY <1>0, StoreStep
  <2>2. f.step = "fail" /\ f.slug = r.slug /\ f.age = r.age /\ f.read = r.read
    BY <1>0, <2>1 DEF Storers
  <2>3. z \in Storers
    <3> HIDE DEF f
    <3>1. QED BY <2>1, StoreQuiet
  <2>4. z.step = "fail" /\ z.slug = r.slug /\ z.age = r.age /\ z.read = r.read /\ z.quiet = FALSE
    <3> HIDE DEF f
    <3>1. QED BY <2>1, <2>2 DEF Storers
  <2>5. caller' = [caller EXCEPT ![c] = z]
    BY <1>0, <1>3 DEF CallersOK
  <2> HIDE DEF z
  <2>6. Lucky(z)
    BY <2>4 DEF Lucky, Excused
  <2>7. QED BY <1>0, <1>1, <2>3, <2>4, <2>5, <2>6, FetchMoves DEF Fetching
<1>4. QED BY <1>2, <1>3 DEF StoreSnapshot

\* The summary is read: its age is that of the row, or unknown.
LEMMA ShowStep ==
    ASSUME PagesInv, NEW c \in Callers, caller[c].step \notin Fetching,
           NEW s \in Slugs, NEW seen \in {fetches[s], Old},
           caller' = [caller EXCEPT ![c] = [step |-> "show", slug |-> s, seen |-> seen]],
           UNCHANGED <<site, resolver, aliases, fetches, pages, kept>>
    PROVE  PagesInv'
<1> DEFINE z == [step |-> "show", slug |-> s, seen |-> seen]
<1>1. seen \in Ages /\ z \in Showers /\ z.step = "show" /\ z.slug = s /\ z.seen = seen
  BY OldIs DEF PagesInv, PagesTyped, PageRowsOK, Showers, Ages
<1>2. caller' = [caller EXCEPT ![c] = z]
  OBVIOUS
<1> HIDE DEF z
<1>3. caller'[c] = z /\ \A d \in Callers \ {c} : caller'[d] = caller[d]
  BY <1>2, OneMoves DEF PagesInv, PagesTyped
<1>4. CallersOK'
  BY <1>1, <1>2, OneTyped DEF PagesInv, PagesTyped
<1>5. LuckInv'
  <2>1. Lucky(z)
    BY <1>1 DEF Lucky, AskSteps
  <2>2. QED BY <1>3, <2>1, LuckKept DEF PagesInv
<1>6. z.step \notin Fetching /\ z.step # "mark"
  BY <1>1 DEF Fetching
<1>7. ReadInTime' /\ OneFetch' /\ KeptRows' /\ MarkedRows'
  BY <1>3, <1>6 DEF PagesInv, RowsInv, ReadInTime, OneFetch, KeptRows, MarkedRows
<1>8. DatedRows'
  <2>1. \A d \in Callers : caller[d].step \in Fetching => caller[d].age <= Old
    <3>1. \A d \in Callers : caller[d].step \in Fetching => caller[d].age \in {0, 1}
      BY Shapes DEF PagesInv, PagesTyped, Askers, Storers
    <3>2. QED BY <3>1, OldIs
  <2>2. \A d \in Callers : caller[d].step \in Fetching /\ caller[d].slug = s => caller[d].age <= seen
    BY <2>1 DEF PagesInv, RowsInv, DatedRows
  <2>3. QED BY <1>1, <1>3, <1>6, <2>2 DEF PagesInv, RowsInv, DatedRows
<1>9. ShownRows'
  <2>1. kept[s] => Stale(seen) \/ \A k \in Kinds : pages[s][k] <= seen
    BY OldIs DEF PagesInv, RowsInv, KeptRows, Stale
  <2>2. QED BY <1>1, <1>3, <2>1 DEF PagesInv, RowsInv, ShownRows, Stale
<1>10. SiteOK' /\ PageRowsOK' /\ ResolvOK' /\ AliasesOK'
  BY DEF PagesInv, PagesTyped, SiteOK, PageRowsOK, ResolvOK, AliasesOK
<1>11. QED BY <1>4, <1>5, <1>7, <1>8, <1>9, <1>10 DEF PagesInv, PagesTyped, RowsInv

LEMMA LoadStep ==
    ASSUME PagesInv, NEW c \in Callers, NEW s \in Slugs, NEW hot, Load(c, s, hot)
    PROVE  PagesInv'
<1>1. PICK age \in {fetches[s], Old} :
          caller' = [caller EXCEPT ![c] =
              IF age > TTL(hot) THEN [step |-> "acquire", slug |-> s]
              ELSE [step |-> "show", slug |-> s, seen |-> age]]
  BY DEF Load
<1>2. caller[c].step \notin Fetching /\ UNCHANGED <<site, resolver, aliases, fetches, pages, kept>>
  BY DEF Load, Fetching
<1>3. CASE age > TTL(hot)
  <2>1. [step |-> "acquire", slug |-> s] \in Acquirers
    BY DEF Acquirers
  <2>2. QED BY <1>1, <1>2, <1>3, <2>1, FetchEnds
<1>4. CASE ~(age > TTL(hot))
  BY <1>1, <1>2, <1>4, ShowStep
<1>5. QED BY <1>3, <1>4

LEMMA RereadStep ==
    ASSUME PagesInv, NEW c \in Callers, Reread(c)
    PROVE  PagesInv'
<1>1. caller[c].step \notin Fetching /\ caller[c].slug \in Slugs /\ CallersOK
      /\ UNCHANGED <<site, resolver, aliases, fetches, pages, kept>>
  BY Shapes DEF Reread, Fetching, PagesInv, PagesTyped, Acquirers
<1>2. PICK age \in {fetches[caller[c].slug], Old} :
          caller' = [caller EXCEPT ![c] = [step |-> "show", slug |-> @.slug, seen |-> age]]
  BY DEF Reread
<1>3. caller' = [caller EXCEPT ![c] = [step |-> "show", slug |-> caller[c].slug, seen |-> age]]
  BY <1>1, <1>2 DEF CallersOK
<1>4. QED BY <1>1, <1>3, ShowStep

LEMMA BuildSummaryStep ==
    ASSUME PagesInv, NEW c \in Callers, BuildSummary(c)
    PROVE  PagesInv'
BY FetchEnds DEF BuildSummary

\* A fetch begins: nobody else fetches the slug, and no page is younger.
LEMMA BeginStep ==
    ASSUME PagesInv, NEW c \in Callers, caller[c].step = "acquire", ~Busy(caller[c].slug),
           NEW n \in Slugs, caller' = [caller EXCEPT ![c] = Begun(caller[c].slug, n)],
           UNCHANGED <<site, resolver, fetches, pages, kept>>, AliasesOK'
    PROVE  PagesInv'
<1> DEFINE s == caller[c].slug
           z == Begun(s, n)
<1>0. caller[c] \in Acquirers /\ s \in Slugs
  <2>1. caller[c] \in Acquirers
    BY Shapes DEF PagesInv, PagesTyped
  <2>2. QED BY <2>1 DEF Acquirers
<1>1. z \in Askers
  BY <1>0 DEF Begun, Askers, AskSteps
<1>2. z.step = "resolve" /\ z.slug = s /\ z.age = 0 /\ z.read = 0 /\ z.tries = 0
  BY DEF Begun
<1>3. caller' = [caller EXCEPT ![c] = z]
  OBVIOUS
<1> HIDE DEF z
<1>4. caller'[c] = z /\ \A d \in Callers \ {c} : caller'[d] = caller[d]
  BY <1>3, OneMoves DEF PagesInv, PagesTyped
<1>5. CallersOK'
  BY <1>1, <1>3, OneTyped DEF PagesInv, PagesTyped
<1>6. LuckInv'
  <2>1. Lucky(z)
    BY <1>2 DEF Lucky, AskSteps
  <2>2. QED BY <1>4, <2>1, LuckKept DEF PagesInv
<1>7. ReadInTime' /\ KeptRows' /\ MarkedRows' /\ ShownRows'
  BY <1>2, <1>4 DEF PagesInv, RowsInv, ReadInTime, KeptRows, MarkedRows, ShownRows, Stale
<1>8. OneFetch'
  BY <1>2, <1>4 DEF PagesInv, RowsInv, OneFetch, Busy
<1>9. DatedRows'
  <2>1. fetches[s] >= 0
    BY <1>0, OldIs DEF PagesInv, PagesTyped, PageRowsOK, Ages
  <2>2. \A d \in Callers : caller[d].step = "show" => caller[d].seen >= 0
    BY Shapes, OldIs DEF PagesInv, PagesTyped, Showers, Ages
  <2>3. QED BY <1>2, <1>4, <2>1, <2>2 DEF PagesInv, RowsInv, DatedRows
<1>10. SiteOK' /\ PageRowsOK' /\ ResolvOK'
  BY DEF PagesInv, PagesTyped, SiteOK, PageRowsOK, ResolvOK
<1>11. QED BY <1>5, <1>6, <1>7, <1>8, <1>9, <1>10 DEF PagesInv, PagesTyped, RowsInv

LEMMA AcquireStep ==
    ASSUME PagesInv, NEW c \in Callers, Acquire(c)
    PROVE  PagesInv'
<1> DEFINE r == caller[c]
           s == r.slug
<1>0. r \in Acquirers /\ r.step = "acquire" /\ s \in Slugs /\ CallersOK /\ AliasesOK
      /\ Alias(s) \in Slugs
  <2>1. r \in Acquirers /\ r.step = "acquire" /\ CallersOK /\ AliasesOK
    BY Shapes DEF Acquire, PagesInv, PagesTyped
  <2>2. s \in Slugs
    BY <2>1 DEF Acquirers
  <2>3. QED BY <2>1, <2>2 DEF Alias, AliasesOK
<1>1. CASE To(c, "reread") /\ UNCHANGED aliases
  <2>1. [r EXCEPT !.step = "reread"] \in Acquirers
    BY <1>0 DEF Acquirers
  <2>2. caller' = [caller EXCEPT ![c] = [r EXCEPT !.step = "reread"]]
    BY <1>0, <1>1 DEF To, CallersOK
  <2>3. QED BY <1>1, <2>1, <2>2, FetchEnds DEF Acquire
<1>2. CASE ~Busy(s) /\ caller' = [caller EXCEPT ![c] = Begun(s, Alias(s))]
           /\ aliases' = [aliases EXCEPT !.memory[s] = Alias(s)]
  <2>1. AliasesOK'
    BY <1>0, <1>2 DEF AliasesOK
  <2>2. QED BY <1>0, <1>2, <2>1, BeginStep DEF Acquire
<1>3. CASE ~Busy(s) /\ caller' = [caller EXCEPT ![c] = Begun(s, s)] /\ UNCHANGED aliases
  <2>1. AliasesOK'
    BY <1>0, <1>3 DEF AliasesOK
  <2>2. QED BY <1>0, <1>3, <2>1, BeginStep DEF Acquire
<1>4. QED BY <1>1, <1>2, <1>3 DEF Acquire

LEMMA StoreRowsStep ==
    ASSUME PagesInv, NEW c \in Callers, StoreRows(c)
    PROVE  PagesInv'
<1> DEFINE r == caller[c]
           n == r.name
<1>1. PICK lost \in SUBSET Kinds :
         /\ pages' = [pages EXCEPT ![n] = [k \in Kinds |-> IF k \in lost THEN @[k] ELSE r.read]]
         /\ kept' = [kept EXCEPT ![n] = @ /\ \A k \in Kinds \ lost : r.read <= pages[n][k]]
         /\ caller' = [d \in Callers |->
                IF d = c THEN [r EXCEPT !.step = "mark", !.lost = lost]
                ELSE IF Overtaken(d, c) THEN [caller[d] EXCEPT !.lost = Kinds]
                ELSE caller[d]]
  BY DEF StoreRows
<1> DEFINE j == [r EXCEPT !.step = "mark"]
           z == [j EXCEPT !.lost = lost]
<1>2. /\ r \in Storers /\ r.step = "rows" /\ n \in Slugs /\ r.read \in {0, 1}
      /\ CallersOK /\ PageRowsOK /\ UNCHANGED <<site, resolver, aliases, fetches>>
  <2>1. r \in Storers /\ r.step = "rows" /\ CallersOK /\ PageRowsOK
        /\ UNCHANGED <<site, resolver, aliases, fetches>>
    BY Shapes DEF StoreRows, PagesInv, PagesTyped
  <2>2. QED BY <2>1 DEF Storers
<1>3. j \in Storers /\ z \in Storers
  <2>1. j \in Storers
    BY <1>2, StoreStep
  <2> HIDE DEF j
  <2>2. QED BY <2>1, StoreLost
<1>4. /\ z.step = "mark" /\ z.slug = r.slug /\ z.name = n /\ z.age = r.age /\ z.read = r.read
      /\ z.lost = lost
  <2>1. j.step = "mark" /\ j.slug = r.slug /\ j.name = n /\ j.age = r.age /\ j.read = r.read
    BY <1>2, <1>3 DEF Storers
  <2> HIDE DEF j
  <2>2. QED BY <1>3, <2>1 DEF Storers
<1>5. caller'[c] = z
  BY <1>1
<1> HIDE DEF z
<1>6. ASSUME NEW d \in Callers \ {c}
      PROVE  /\ caller'[d].step = caller[d].step
             /\ caller'[d] \in {Resting} \cup Acquirers \cup Showers \cup Askers \cup Storers
             /\ ~Overtaken(d, c) => caller'[d] = caller[d]
             /\ Overtaken(d, c) => /\ caller[d].step = "mark" /\ caller'[d].lost = Kinds
                                   /\ caller'[d].slug = caller[d].slug
                                   /\ caller'[d].name = caller[d].name
                                   /\ caller'[d].age = caller[d].age
                                   /\ caller'[d].read = caller[d].read
  <2>1. CASE ~Overtaken(d, c)
    BY <1>1, <1>2, <2>1 DEF CallersOK
  <2>2. CASE Overtaken(d, c)
    <3>1. caller[d] \in Storers /\ caller[d].step = "mark"
      BY <1>2, <2>2, Shapes DEF Overtaken
    <3>2. caller'[d] = [caller[d] EXCEPT !.lost = Kinds]
      BY <1>1, <2>2
    <3>3. caller'[d] \in Storers
      BY <3>1, <3>2, StoreLost
    <3>4. QED BY <2>2, <3>1, <3>2, <3>3 DEF Storers
  <2>3. QED BY <2>1, <2>2
<1>7. /\ caller'[c].step = "mark" /\ r.step \in Fetching /\ "mark" \in Fetching
      /\ caller'[c].slug = r.slug /\ caller'[c].age = r.age /\ caller'[c].read = r.read
      /\ \A d \in Callers : caller'[d].step \in Fetching => caller[d].step \in Fetching
      /\ \A d \in Callers : caller'[d].step \in Fetching =>
            caller'[d].slug = caller[d].slug /\ caller'[d].age = caller[d].age
            /\ caller'[d].read = caller[d].read
      /\ \A d \in Callers : caller'[d].step = "show" => caller'[d] = caller[d]
  <2>1. /\ caller'[c].step = "mark" /\ r.step \in Fetching /\ "mark" \in Fetching
        /\ caller'[c].slug = r.slug /\ caller'[c].age = r.age /\ caller'[c].read = r.read
    BY <1>2, <1>4, <1>5 DEF Fetching
  <2>2. QED BY <1>6, <2>1
<1>8. CallersOK'
  <2>1. \A d \in Callers : caller'[d] \in {Resting} \cup Acquirers \cup Showers \cup Askers \cup Storers
    BY <1>3, <1>5, <1>6
  <2>2. QED BY <1>1, <2>1 DEF CallersOK
<1>9. \A s \in Slugs \ {n} : pages'[s] = pages[s] /\ kept'[s] = kept[s]
  BY <1>1, <1>2 DEF PageRowsOK
<1>10. /\ kept'[n] => kept[n]
       /\ \A k \in lost : pages'[n][k] = pages[n][k]
       /\ \A k \in Kinds \ lost : pages'[n][k] = r.read
       /\ kept'[n] => \A k \in Kinds : pages'[n][k] <= pages[n][k]
  <2>1. /\ pages'[n] = [k \in Kinds |-> IF k \in lost THEN pages[n][k] ELSE r.read]
        /\ kept'[n] = (kept[n] /\ \A k \in Kinds \ lost : r.read <= pages[n][k])
    BY <1>1, <1>2 DEF PageRowsOK
  <2>2. \A k \in Kinds : pages[n][k] <= pages[n][k]
    BY <1>2, OldIs DEF PageRowsOK, Ages
  <2>3. QED BY <2>1, <2>2
<1>11. PageRowsOK'
  <2>1. pages'[n] \in [Kinds -> Ages]
    <3>1. r.read \in Ages
      BY <1>2, OldIs DEF Ages
    <3>2. QED BY <1>1, <1>2, <3>1 DEF PageRowsOK
  <2>2. pages' \in [Slugs -> [Kinds -> Ages]]
    BY <1>1, <1>2, <2>1 DEF PageRowsOK
  <2>3. kept' \in [Slugs -> BOOLEAN]
    BY <1>1, <1>2 DEF PageRowsOK
  <2>4. QED BY <1>2, <2>2, <2>3 DEF PageRowsOK
<1>12. ReadInTime' /\ OneFetch' /\ DatedRows'
  <2>1. ReadInTime'
    BY <1>7 DEF PagesInv, RowsInv, ReadInTime
  <2>2. OneFetch'
    BY <1>7 DEF PagesInv, RowsInv, OneFetch
  <2>3. DatedRows'
    BY <1>2, <1>7 DEF PagesInv, RowsInv, DatedRows
  <2>4. QED BY <2>1, <2>2, <2>3
<1>13. KeptRows'
  <2>1. \A k \in Kinds : pages[n][k] \in Nat /\ pages'[n][k] \in Nat /\ fetches[n] \in Nat
    BY <1>2, <1>11, OldIs DEF PageRowsOK, Ages
  <2>2. kept'[n] => \A k \in Kinds : pages'[n][k] <= fetches[n]
    BY <1>2, <1>10, <2>1 DEF PagesInv, RowsInv, KeptRows
  <2>3. QED BY <1>2, <1>9, <2>2 DEF PagesInv, RowsInv, KeptRows
<1>14. MarkedRows'
  <2>1. SUFFICES ASSUME NEW d \in Callers, caller'[d].step = "mark", caller'[d].lost = {},
                        NEW k \in Kinds
                 PROVE  pages'[caller'[d].name][k] <= caller'[d].read
    BY DEF MarkedRows
  <2>2. CASE d = c
    <3>1. lost = {}
      BY <1>4, <1>5, <2>1, <2>2
    <3>2. QED BY <1>2, <1>4, <1>5, <1>10, <2>2, <3>1
  <2>3. CASE d # c
    <3>1. ~Overtaken(d, c)
      BY <1>6, <2>1, <2>3 DEF Kinds
    <3>2. caller'[d] = caller[d] /\ caller[d] \in Storers
      BY <1>2, <1>6, <2>1, <2>3, <3>1, Shapes
    <3>3. caller[d].name \in Slugs /\ caller[d].read \in {0, 1}
      BY <3>2 DEF Storers
    <3>4. pages[caller[d].name][k] <= caller[d].read
      BY <2>1, <3>2 DEF PagesInv, RowsInv, MarkedRows
    <3>5. CASE caller[d].name # n
      BY <1>9, <3>2, <3>3, <3>4, <3>5
    <3>6. CASE caller[d].name = n
      <4>1. r.read <= caller[d].read
        BY <1>2, <2>1, <3>1, <3>2, <3>3, <3>6 DEF Overtaken
      <4>2. QED BY <1>10, <3>2, <3>4, <3>6, <4>1
    <3>7. QED BY <3>5, <3>6
  <2>4. QED BY <2>2, <2>3
<1>15. ShownRows'
  <2>1. SUFFICES ASSUME NEW d \in Callers, caller'[d].step = "show", kept'[caller'[d].slug],
                        ~Stale(caller'[d].seen), NEW k \in Kinds
                 PROVE  pages'[caller'[d].slug][k] <= caller'[d].seen
    BY DEF ShownRows, Stale
  <2>2. caller'[d] = caller[d] /\ caller[d] \in Showers
    BY <1>2, <1>7, <2>1, Shapes
  <2>3. caller[d].slug \in Slugs /\ caller[d].seen \in Nat
    BY <2>2, OldIs DEF Showers, Ages
  <2>4. kept[caller[d].slug]
    BY <1>9, <1>10, <2>1, <2>2, <2>3
  <2>5. pages[caller[d].slug][k] <= caller[d].seen
    BY <2>1, <2>2, <2>4 DEF PagesInv, RowsInv, ShownRows
  <2>6. pages'[caller[d].slug][k] <= pages[caller[d].slug][k]
        /\ pages'[caller[d].slug][k] \in Nat /\ pages[caller[d].slug][k] \in Nat
    <3>1. pages'[caller[d].slug][k] \in Nat /\ pages[caller[d].slug][k] \in Nat
      BY <1>2, <1>11, <2>3, OldIs DEF PageRowsOK, Ages
    <3>2. QED BY <1>9, <1>10, <2>1, <2>2, <2>3, <3>1
  <2>7. QED BY <2>2, <2>3, <2>5, <2>6
<1>16. LuckInv'
  <2>1. Lucky(z)
    BY <1>4 DEF Lucky, AskSteps
  <2>2. ASSUME NEW d \in Callers \ {c}
        PROVE  caller'[d] = caller[d] \/ Lucky(caller'[d])
    BY <1>6 DEF Lucky, AskSteps
  <2>3. QED BY <1>2, <1>5, <2>1, <2>2, LuckKept DEF PagesInv
<1>17. SiteOK' /\ ResolvOK' /\ AliasesOK'
  BY <1>2 DEF PagesInv, PagesTyped, SiteOK, ResolvOK, AliasesOK
<1>18. QED BY <1>8, <1>11, <1>12, <1>13, <1>14, <1>15, <1>16, <1>17 DEF PagesInv, PagesTyped, RowsInv

\* A fetch is dated by its beginning; whether its rows stayed is noted truly.
LEMMA DateStep ==
    ASSUME PagesInv, NEW c \in Callers, caller[c].step \in Fetching,
           NEW all \in BOOLEAN, MarkFetch(c, all), Released(c),
           all => \A k \in Kinds : pages[caller[c].slug][k] <= caller[c].read,
           UNCHANGED <<site, resolver, aliases, pages>>
    PROVE  PagesInv'
<1> DEFINE r == caller[c]
           s == r.slug
           z == [step |-> "reread", slug |-> s]
<1>0. /\ r \in Askers \cup Storers /\ CallersOK /\ PageRowsOK
      /\ s \in Slugs /\ r.age \in {0, 1} /\ r.read \in {0, 1} /\ r.read <= r.age
  <2>1. r \in Askers \cup Storers /\ CallersOK /\ PageRowsOK /\ r.read <= r.age
    BY Shapes DEF PagesInv, PagesTyped, RowsInv, ReadInTime
  <2>2. QED BY <2>1 DEF Askers, Storers
<1>1. caller' = [caller EXCEPT ![c] = z] /\ z \in Acquirers /\ z.step = "reread"
  BY <1>0 DEF Released, CallersOK, Acquirers
<1> HIDE DEF z
<1>2. CASE UNCHANGED <<fetches, kept>>
  BY <1>1, <1>2, FetchEnds
<1>3. CASE fetches' = [fetches EXCEPT ![s] = r.age] /\ kept' = [kept EXCEPT ![s] = all]
  <2>1. caller'[c] = z /\ \A d \in Callers \ {c} : caller'[d] = caller[d]
    BY <1>1, OneMoves DEF PagesInv, PagesTyped
  <2>2. z.step \notin Fetching \cup {"show"} /\ "show" \notin Fetching
    BY <1>1 DEF Fetching
  <2>3. CallersOK'
    BY <1>0, <1>1, OneTyped
  <2>4. LuckInv'
    <3>1. Lucky(z)
      BY <1>1 DEF Lucky, AskSteps
    <3>2. QED BY <2>1, <3>1, LuckKept DEF PagesInv
  <2>5. PageRowsOK'
    <3>1. r.age \in Ages
      BY <1>0, OldIs DEF Ages
    <3>2. QED BY <1>0, <1>3, <3>1 DEF PageRowsOK
  <2>6. /\ fetches'[s] = r.age /\ kept'[s] = all
        /\ \A t \in Slugs \ {s} : fetches'[t] = fetches[t] /\ kept'[t] = kept[t]
    BY <1>0, <1>3 DEF PageRowsOK
  <2>7. all => \A k \in Kinds : pages[s][k] <= r.age
    <3>1. \A k \in Kinds : pages[s][k] \in Nat
      BY <1>0, OldIs DEF PageRowsOK, Ages
    <3>2. QED BY <1>0, <3>1
  <2>8. ReadInTime' /\ OneFetch' /\ MarkedRows'
    BY <2>1, <2>2 DEF PagesInv, RowsInv, ReadInTime, OneFetch, MarkedRows, Fetching
  <2>9. KeptRows'
    BY <1>0, <2>6, <2>7 DEF PagesInv, RowsInv, KeptRows
  <2>10. DatedRows'
    <3>1. \A d \in Callers \ {c} : caller[d].step \in Fetching =>
             caller[d].slug \in Slugs \ {s}
      <4>1. \A d \in Callers : caller[d].step \in Fetching => caller[d].slug \in Slugs
        BY <1>0, Shapes DEF Askers, Storers
      <4>2. QED BY <4>1 DEF PagesInv, RowsInv, OneFetch
    <3>2. QED BY <2>1, <2>2, <2>6, <3>1 DEF PagesInv, RowsInv, DatedRows
  <2>11. ShownRows'
    <3>1. SUFFICES ASSUME NEW d \in Callers, caller'[d].step = "show", kept'[caller'[d].slug],
                          ~Stale(caller'[d].seen), NEW k \in Kinds
                   PROVE  pages'[caller'[d].slug][k] <= caller'[d].seen
      BY DEF ShownRows, Stale
    <3>2. d # c /\ caller'[d] = caller[d] /\ caller[d] \in Showers
      BY <1>0, <2>1, <2>2, <3>1, Shapes
    <3>3. caller[d].slug \in Slugs /\ caller[d].seen \in Nat
      BY <3>2, OldIs DEF Showers, Ages
    <3>4. CASE caller[d].slug = s
      <4>1. r.age <= caller[d].seen
        BY <3>1, <3>2, <3>4 DEF PagesInv, RowsInv, DatedRows
      <4>2. pages[s][k] <= r.age /\ pages[s][k] \in Nat
        BY <1>0, <2>6, <2>7, <3>1, <3>2, <3>4, OldIs DEF PageRowsOK, Ages
      <4>3. QED BY <1>0, <3>2, <3>3, <3>4, <4>1, <4>2
    <3>5. CASE caller[d].slug # s
      BY <2>6, <3>1, <3>2, <3>3, <3>5 DEF PagesInv, RowsInv, ShownRows
    <3>6. QED BY <3>4, <3>5
  <2>12. SiteOK' /\ ResolvOK' /\ AliasesOK'
    BY DEF PagesInv, PagesTyped, SiteOK, ResolvOK, AliasesOK
  <2>13. QED BY <2>3, <2>4, <2>5, <2>8, <2>9, <2>10, <2>11, <2>12 DEF PagesInv, PagesTyped, RowsInv
<1>4. QED BY <1>2, <1>3 DEF MarkFetch

LEMMA MarkSuccessStep ==
    ASSUME PagesInv, NEW c \in Callers, MarkSuccess(c)
    PROVE  PagesInv'
<1> DEFINE all == caller[c].name = caller[c].slug /\ caller[c].lost = {}
<1>1. all => \A k \in Kinds : pages[caller[c].slug][k] <= caller[c].read
  BY DEF MarkSuccess, PagesInv, RowsInv, MarkedRows
<1>2. caller[c].step \in Fetching /\ MarkFetch(c, all) /\ Released(c)
      /\ UNCHANGED <<site, resolver, aliases, pages>> /\ all \in BOOLEAN
  BY DEF MarkSuccess, Fetching
<1> HIDE DEF all
<1>3. QED BY <1>1, <1>2, DateStep

LEMMA MarkFailureStep ==
    ASSUME PagesInv, NEW c \in Callers, MarkFailure(c)
    PROVE  PagesInv'
BY DateStep DEF MarkFailure, Fetching

-----------------------------------------------------------------------------
(* The steps of the world around the callers *)

\* The site changed: whoever is fetching is excused.
LEMMA UnluckyIs ==
    ASSUME CallersOK, NEW c \in Callers
    PROVE  /\ Unlucky[c] \in {Resting} \cup Acquirers \cup Showers \cup Askers \cup Storers
           /\ caller[c].step \notin Fetching => Unlucky[c] = caller[c]
           /\ caller[c].step \in Fetching =>
                 /\ Unlucky[c].step = caller[c].step /\ Unlucky[c].slug = caller[c].slug
                 /\ Unlucky[c].name = caller[c].name /\ Unlucky[c].age = caller[c].age
                 /\ Unlucky[c].read = caller[c].read /\ Unlucky[c].quiet = FALSE
                 /\ Unlucky[c].joined = caller[c].joined
                 /\ caller[c].step = "mark" => Unlucky[c].lost = caller[c].lost
<1> DEFINE r == caller[c]
           z == [r EXCEPT !.quiet = FALSE]
<1>1. CASE r.step \notin Fetching
  BY <1>1 DEF Unlucky, CallersOK
<1>2. CASE r.step \in Fetching
  <2>1. Unlucky[c] = z
    BY <1>2 DEF Unlucky
  <2>2. CASE r \in Askers
    <3>1. z \in Askers
      BY <2>2, AskQuiet
    <3>2. z.step = r.step /\ z.slug = r.slug /\ z.name = r.name /\ z.age = r.age /\ z.read = r.read
          /\ z.quiet = FALSE /\ z.joined = r.joined /\ r.step # "mark"
      BY <2>2, <3>1 DEF Askers, AskSteps
    <3> HIDE DEF z
    <3>3. QED BY <1>2, <2>1, <3>1, <3>2
  <2>3. CASE r \in Storers
    <3>1. z \in Storers
      BY <2>3, StoreQuiet
    <3>2. z.step = r.step /\ z.slug = r.slug /\ z.name = r.name /\ z.age = r.age /\ z.read = r.read
          /\ z.quiet = FALSE /\ z.joined = r.joined /\ z.lost = r.lost
      BY <2>3, <3>1 DEF Storers
    <3> HIDE DEF z
    <3>3. QED BY <1>2, <2>1, <3>1, <3>2
  <2>4. QED BY <1>2, <2>2, <2>3, Shapes
<1>3. QED BY <1>1, <1>2

LEMMA SiteChanges ==
    ASSUME PagesInv, caller' = Unlucky, SiteOK', NamesFit',
           UNCHANGED <<resolver, aliases, fetches, pages, kept>>
    PROVE  PagesInv'
<1>1. CallersOK /\ \A c \in Callers : caller'[c] = Unlucky[c]
  BY DEF PagesInv, PagesTyped
<1>2. CallersOK'
  <2>1. \A c \in Callers : caller'[c] \in {Resting} \cup Acquirers \cup Showers \cup Askers \cup Storers
    BY <1>1, UnluckyIs
  <2>2. QED BY <2>1 DEF CallersOK, Unlucky
<1>3. \A c \in Callers : Alike(c)
  BY <1>1, UnluckyIs DEF Alike
<1>4. RowsInv'
  BY <1>3, AlikeKeepsRows DEF PagesInv
<1>5. ASSUME NEW c \in Callers
      PROVE  Lucky(caller[c])'
  <2>1. CASE caller[c].step \notin Fetching
    <3>1. caller'[c].step \notin Fetching
      BY <1>1, <2>1, UnluckyIs
    <3>2. AskSteps \subseteq Fetching
      BY DEF AskSteps, Fetching
    <3>3. caller'[c].step \notin AskSteps /\ caller'[c].step # "wait" /\ caller'[c].step # "fail"
      BY <3>1, <3>2 DEF Fetching
    <3>4. QED BY <3>3 DEF Lucky
  <2>2. CASE caller[c].step \in Fetching
    <3>1. caller'[c].quiet = FALSE /\ caller'[c].step = caller[c].step
          /\ caller'[c].joined = caller[c].joined
      BY <1>1, <2>2, UnluckyIs
    <3>2. caller[c].step = "wait" => caller[c].joined
      BY DEF PagesInv, LuckInv, Lucky
    <3>3. QED BY <3>1, <3>2 DEF Lucky, Excused
  <2>3. QED BY <2>1, <2>2
<1>6. LuckInv'
  BY <1>5 DEF LuckInv
<1>7. PageRowsOK' /\ ResolvOK' /\ AliasesOK'
  BY DEF PagesInv, PagesTyped, PageRowsOK, ResolvOK, AliasesOK
<1>8. QED BY <1>2, <1>4, <1>6, <1>7 DEF PagesInv, PagesTyped

LEMMA DeployStep ==
    ASSUME PagesInv, Deploy
    PROVE  PagesInv'
<1>1. SiteOK /\ NamesFit
  BY DEF PagesInv, PagesTyped, LuckInv
<1>2. SiteOK' /\ site'.name = site.name
  BY <1>1 DEF Deploy, SiteOK
<1>3. NamesFit'
  BY <1>1, <1>2 DEF NamesFit
<1>4. QED BY <1>2, <1>3, SiteChanges DEF Deploy

LEMMA RenameStep ==
    ASSUME PagesInv, NEW s \in Slugs, NEW name \in Slugs, Rename(s, name)
    PROVE  PagesInv'
<1> DEFINE o == Renamed[s]
           nm == [site.name EXCEPT ![s] = name]
           nn == [nm EXCEPT ![o] = name]
<1>1. /\ SiteOK /\ NamesFit /\ s \in DOMAIN Renamed /\ name \in {s, o} /\ o \in Slugs /\ o # s
      /\ site.name \in [Slugs -> Slugs]
  BY PagesAssumption DEF PagesInv, PagesTyped, LuckInv, Rename, SiteOK
<1>2. site'.name = nn /\ SiteOK'
  <2>1. site' = [site EXCEPT !.name[s] = name, !.name[o] = name]
    BY DEF Rename
  <2>2. site' = [site EXCEPT !.name = nn]
    BY <1>1, <2>1 DEF SiteOK
  <2>3. nn \in [Slugs -> Slugs]
    BY <1>1
  <2> HIDE DEF nn
  <2>4. QED BY <1>1, <2>2, <2>3 DEF SiteOK
<1>3. /\ nn[s] = name /\ nn[o] = name
      /\ \A t \in Slugs \ {s, o} : nn[t] = site.name[t]
  BY <1>1
<1> HIDE DEF nn, nm
<1>4. NamesFit'
  <2>1. ASSUME NEW t \in DOMAIN Renamed
        PROVE  \/ site'.name[t] = t /\ site'.name[Renamed[t]] = Renamed[t]
               \/ site'.name[t] \in {t, Renamed[t]} /\ site'.name[Renamed[t]] = site'.name[t]
    <3>1. CASE t = s
      BY <1>1, <1>2, <1>3, <3>1
    <3>2. CASE t # s
      <4>1. t \in Slugs \ {s, o} /\ Renamed[t] \in Slugs \ {s, o}
        BY <1>1, <3>2, PagesAssumption
      <4>2. QED BY <1>1, <1>2, <1>3, <4>1 DEF NamesFit
    <3>3. QED BY <3>1, <3>2
  <2>2. ASSUME NEW t \in Slugs, t \notin DOMAIN Renamed, \A u \in DOMAIN Renamed : Renamed[u] # t
        PROVE  site'.name[t] = t
    <3>1. t \in Slugs \ {s, o}
      BY <1>1, <2>2
    <3>2. QED BY <1>1, <1>2, <1>3, <2>2, <3>1 DEF NamesFit
  <2>3. QED BY <2>1, <2>2 DEF NamesFit
<1>5. QED BY <1>2, <1>4, SiteChanges DEF Rename

LEMMA RebootStep ==
    ASSUME PagesInv, Reboot
    PROVE  PagesInv'
<1>1. /\ \A c \in Callers : caller'[c] = Resting
      /\ UNCHANGED <<site, fetches, pages, kept>> /\ resolver' = NoFlight
      /\ aliases' = [aliases EXCEPT !.memory = Same]
  BY DEF Reboot
<1>2. CallersOK'
  BY DEF Reboot, CallersOK
<1>3. Resting.step \notin Fetching \cup {"show"} /\ Lucky(Resting)
  BY DEF Resting, Fetching, Lucky, AskSteps
<1>4. RowsInv'
  <2>1. \A c \in Callers : Alike(c)
    BY <1>1, <1>3 DEF Alike
  <2>2. QED BY <1>1, <2>1, AlikeKeepsRows DEF PagesInv
<1>5. LuckInv'
  BY <1>1, <1>3, LuckKept DEF PagesInv
<1>6. SiteOK' /\ PageRowsOK'
  BY <1>1 DEF PagesInv, PagesTyped, SiteOK, PageRowsOK
<1>7. ResolvOK' /\ AliasesOK'
  BY <1>1, OldIs DEF PagesInv, PagesTyped, ResolvOK, AliasesOK, NoFlight, Same, Ages
<1>8. QED BY <1>2, <1>4, <1>5, <1>6, <1>7 DEF PagesInv, PagesTyped

\* Time passes: a fetch that has just begun grows as old as its page.
LEMMA GrownIs ==
    ASSUME PagesInv, Grow, NEW c \in Callers
    PROVE  /\ caller'[c] \in {Resting} \cup Acquirers \cup Showers \cup Askers \cup Storers
           /\ caller'[c].step = caller[c].step
           /\ caller[c].step \notin Fetching \cup {"show"} => caller'[c] = caller[c]
           /\ caller[c].step = "show" =>
                 /\ caller'[c].slug = caller[c].slug /\ caller'[c].seen = Older(caller[c].seen)
                 /\ caller[c].seen \in Ages /\ caller[c].slug \in Slugs
           /\ caller[c].step \in Fetching =>
                 /\ caller'[c].slug = caller[c].slug /\ caller[c].slug \in Slugs
                 /\ caller'[c].age = 1 /\ caller'[c].read = 1 /\ caller[c].read = 0
                 /\ Lucky(caller[c]) => Lucky(caller'[c])
                 /\ caller[c].step = "mark" => /\ caller'[c].name = caller[c].name
                                               /\ caller[c].name \in Slugs
                                               /\ caller'[c].lost = caller[c].lost
<1> DEFINE r == caller[c]
           f == [r EXCEPT !.age = 1]
           z == [f EXCEPT !.read = 1]
<1>0. CallersOK
  BY DEF PagesInv, PagesTyped
<1>1. CASE r.step \notin Fetching \cup {"show"}
  <2>1. caller'[c] = r
    BY <1>1 DEF Grow
  <2>2. QED BY <1>0, <1>1, <2>1 DEF CallersOK
<1>2. CASE r.step = "show"
  <2>1. caller'[c] = [r EXCEPT !.seen = Older(@)] /\ "show" \notin Fetching
    BY <1>2 DEF Grow, Fetching
  <2>2. r \in Showers
    BY <1>0, <1>2, Shapes
  <2>3. Older(r.seen) \in Ages
    BY <2>2, OldIs DEF Showers
  <2>4. QED BY <1>2, <2>1, <2>2, <2>3 DEF Showers
<1>3. CASE r.step \in Fetching
  <2>1. r \in Askers \cup Storers /\ r.age = 0 /\ r.read <= r.age
    BY <1>0, <1>3, Shapes DEF Grow, PagesInv, RowsInv, ReadInTime
  <2>2. r.read = 0 /\ r.slug \in Slugs /\ r.step # "show"
    BY <1>3, <2>1 DEF Askers, Storers, Fetching
  <2>3. Older(0) = 1
    BY OldIs DEF Older
  <2>4. caller'[c] = [r EXCEPT !.age = 1, !.read = Older(@)]
    BY <1>3 DEF Grow, Fetching
  <2>5. CASE r \in Askers
    <3>1. f \in Askers
      BY <2>5, AskAge
    <3>2. /\ f.step = r.step /\ f.slug = r.slug /\ f.name = r.name /\ f.id = r.id /\ f.tries = r.tries
          /\ f.got = r.got /\ f.age = 1 /\ f.read = 0 /\ f.quiet = r.quiet /\ f.joined = r.joined
          /\ f.behind = r.behind
      BY <2>2, <2>5, <3>1 DEF Askers
    <3>3. z \in Askers
      <4> HIDE DEF f
      <4>1. QED BY <3>1, AskRead
    <3>4. /\ z.step = r.step /\ z.slug = r.slug /\ z.name = r.name /\ z.id = r.id /\ z.tries = r.tries
          /\ z.got = r.got /\ z.age = 1 /\ z.read = 1 /\ z.quiet = r.quiet /\ z.joined = r.joined
          /\ z.behind = r.behind
      <4> HIDE DEF f
      <4>1. QED BY <3>1, <3>2 DEF Askers
    <3>5. caller'[c] = z /\ r.step # "mark"
      BY <2>2, <2>3, <2>4, <2>5 DEF Askers, AskSteps
    <3> HIDE DEF z
    <3>6. Lucky(r) => Lucky(z)
      BY <3>4 DEF Lucky, Excused
    <3>7. QED BY <1>3, <2>2, <3>3, <3>4, <3>5, <3>6
  <2>6. CASE r \in Storers
    <3>1. f \in Storers
      BY <2>6, StoreAge
    <3>2. /\ f.step = r.step /\ f.slug = r.slug /\ f.name = r.name
          /\ f.age = 1 /\ f.read = 0 /\ f.quiet = r.quiet /\ f.joined = r.joined
          /\ f.behind = r.behind /\ f.lost = r.lost
      BY <2>2, <2>6, <3>1 DEF Storers
    <3>3. z \in Storers
      <4> HIDE DEF f
      <4>1. QED BY <3>1, StoreAge
    <3>4. /\ z.step = r.step /\ z.slug = r.slug /\ z.name = r.name
          /\ z.age = 1 /\ z.read = 1 /\ z.quiet = r.quiet /\ z.joined = r.joined
          /\ z.behind = r.behind /\ z.lost = r.lost
      <4> HIDE DEF f
      <4>1. QED BY <3>1, <3>2 DEF Storers
    <3>5. caller'[c] = z /\ r.name \in Slugs /\ r.step \in {"store", "rows", "mark", "fail"}
      BY <2>2, <2>3, <2>4, <2>6 DEF Storers
    <3> HIDE DEF z
    <3>6. Lucky(r) => Lucky(z)
      BY <3>4, <3>5 DEF Lucky, Excused, AskSteps
    <3>7. QED BY <1>3, <2>2, <3>3, <3>4, <3>5, <3>6
  <2>7. QED BY <2>1, <2>5, <2>6
<1>4. QED BY <1>1, <1>2, <1>3

LEMMA GrowStep ==
    ASSUME PagesInv, Grow
    PROVE  PagesInv'
<1>1. /\ \A s \in Slugs : fetches'[s] = Older(fetches[s]) /\ kept'[s] = kept[s]
      /\ \A s \in Slugs : \A k \in Kinds : pages'[s][k] = Older(pages[s][k])
      /\ UNCHANGED <<site, aliases, kept>>
  BY DEF Grow
<1>2. /\ \A s \in Slugs : fetches[s] \in Ages
      /\ \A s \in Slugs : \A k \in Kinds : pages[s][k] \in Ages
      /\ CallersOK
  BY DEF PagesInv, PagesTyped, PageRowsOK
<1>3. CallersOK'
  <2>1. \A c \in Callers : caller'[c] \in {Resting} \cup Acquirers \cup Showers \cup Askers \cup Storers
    BY GrownIs
  <2>2. QED BY <2>1 DEF CallersOK, Grow
<1>4. PageRowsOK'
  BY <1>2, OldIs DEF Grow, PagesInv, PagesTyped, PageRowsOK
<1>5. ReadInTime' /\ OneFetch'
  BY GrownIs DEF PagesInv, RowsInv, ReadInTime, OneFetch
<1>6. KeptRows'
  BY <1>1, <1>2, OldIs DEF PagesInv, RowsInv, KeptRows
<1>7. MarkedRows'
  <2>1. SUFFICES ASSUME NEW c \in Callers, caller'[c].step = "mark", caller'[c].lost = {},
                        NEW k \in Kinds
                 PROVE  pages'[caller'[c].name][k] <= caller'[c].read
    BY DEF MarkedRows
  <2>2. /\ caller[c].step = "mark" /\ caller[c].lost = {} /\ caller'[c].name = caller[c].name
        /\ caller[c].name \in Slugs /\ caller'[c].read = 1 /\ caller[c].read = 0
    BY <2>1, GrownIs DEF Fetching
  <2>3. pages[caller[c].name][k] <= 0
    BY <2>2 DEF PagesInv, RowsInv, MarkedRows
  <2>4. pages[caller[c].name][k] = 0
    BY <1>2, <2>2, <2>3 DEF Ages
  <2>5. QED BY <1>1, <2>2, <2>4, OldIs DEF Older
<1>8. DatedRows'
  <2>1. SUFFICES ASSUME NEW c \in Callers, caller'[c].step \in Fetching
                 PROVE  /\ caller'[c].age <= fetches'[caller'[c].slug]
                        /\ \A d \in Callers : caller'[d].step = "show" => caller'[c].age <= caller'[d].seen
    BY DEF DatedRows
  <2>2. caller'[c].age = 1 /\ caller'[c].slug \in Slugs
    BY <2>1, GrownIs
  <2>3. 1 <= fetches'[caller'[c].slug]
    BY <1>1, <1>2, <2>2, OldIs
  <2>4. \A d \in Callers : caller'[d].step = "show" => 1 <= caller'[d].seen
    BY GrownIs, OldIs
  <2>5. QED BY <2>2, <2>3, <2>4
<1>9. ShownRows'
  <2>1. SUFFICES ASSUME NEW c \in Callers, caller'[c].step = "show", kept'[caller'[c].slug],
                        ~Stale(caller'[c].seen), NEW k \in Kinds
                 PROVE  pages'[caller'[c].slug][k] <= caller'[c].seen
    BY DEF ShownRows, Stale
  <2>2. /\ caller[c].step = "show" /\ caller'[c].slug = caller[c].slug /\ caller[c].slug \in Slugs
        /\ caller'[c].seen = Older(caller[c].seen) /\ caller[c].seen \in Ages
    BY <2>1, GrownIs
  <2>3. kept[caller[c].slug] /\ ~Stale(caller[c].seen)
    BY <1>1, <2>1, <2>2, OldIs DEF Stale
  <2>4. pages[caller[c].slug][k] <= caller[c].seen
    BY <2>2, <2>3 DEF PagesInv, RowsInv, ShownRows
  <2>5. QED BY <1>1, <1>2, <2>2, <2>4, OldIs
<1>10. LuckInv'
  <2>1. \A c \in Callers : caller'[c] = caller[c] \/ Lucky(caller'[c])
    <3>1. SUFFICES ASSUME NEW c \in Callers PROVE caller'[c] = caller[c] \/ Lucky(caller'[c])
      OBVIOUS
    <3>2. CASE caller[c].step \in Fetching
      BY <3>2, GrownIs DEF PagesInv, LuckInv
    <3>3. CASE caller[c].step = "show"
      <4>1. caller'[c].step = "show"
        BY <3>3, GrownIs
      <4>2. QED BY <4>1 DEF Lucky, AskSteps
    <3>4. QED BY <3>2, <3>3, GrownIs
  <2>2. QED BY <1>1, <2>1, LuckKept DEF PagesInv
<1>11. SiteOK' /\ AliasesOK'
  BY <1>1 DEF PagesInv, PagesTyped, SiteOK, AliasesOK
<1>12. ResolvOK'
  BY OldIs DEF Grow, PagesInv, PagesTyped, ResolvOK
<1>13. QED BY <1>3, <1>4, <1>5, <1>6, <1>7, <1>8, <1>9, <1>10, <1>11, <1>12 DEF PagesInv, PagesTyped, RowsInv

-----------------------------------------------------------------------------
LEMMA PagesStart == PagesInit => PagesInv
<1> SUFFICES ASSUME PagesInit PROVE PagesInv
  OBVIOUS
<1>1. \A c \in Callers : caller[c] = Resting
  BY DEF PagesInit
<1>2. Resting.step \notin Fetching \cup {"show", "mark"} /\ Lucky(Resting)
  BY DEF Resting, Fetching, Lucky, AskSteps
<1>3. PagesTyped
  BY OldIs DEF PagesInit, PagesTyped, CallersOK, SiteOK, ResolvOK, AliasesOK, PageRowsOK, NoFlight, Same, Ages
<1>4. RowsInv
  BY <1>1, <1>2 DEF PagesInit, RowsInv, ReadInTime, OneFetch, KeptRows, MarkedRows, DatedRows, ShownRows
<1>5. LuckInv
  BY <1>1, <1>2, PagesAssumption DEF PagesInit, LuckInv, NamesFit, Same
<1>6. QED BY <1>3, <1>4, <1>5 DEF PagesInv

LEMMA PagesStep == PagesInv /\ [PagesNext]_pageVars => PagesInv'
<1> SUFFICES ASSUME PagesInv, [PagesNext]_pageVars PROVE PagesInv'
  OBVIOUS
<1>1. CASE UNCHANGED pageVars
  <2>1. \A c \in Callers : Alike(c)
    BY <1>1 DEF Alike, pageVars
  <2>2. RowsInv' /\ LuckInv'
    BY <1>1, <2>1, AlikeKeepsRows, LuckKept DEF PagesInv, pageVars
  <2>3. PagesTyped'
    BY <1>1 DEF PagesInv, pageVars, PagesTyped, CallersOK, SiteOK, ResolvOK, AliasesOK, PageRowsOK
  <2>4. QED BY <2>2, <2>3 DEF PagesInv
<1>2. CASE Grow
  BY <1>2, GrowStep
<1>3. CASE Deploy
  BY <1>3, DeployStep
<1>4. CASE Reboot
  BY <1>4, RebootStep
<1>5. ASSUME NEW s \in Slugs, NEW name \in Slugs, Rename(s, name)
      PROVE  PagesInv'
  BY <1>5, RenameStep
<1>6. ASSUME NEW c \in Callers, NEW s \in Slugs, NEW hot \in BOOLEAN, Load(c, s, hot)
      PROVE  PagesInv'
  BY <1>6, LoadStep
<1>7. ASSUME NEW c \in Callers, CallerNext(c)
      PROVE  PagesInv'
  BY <1>7, AcquireStep, ResolveStep, FetchBuildIDStep, LandStep, FailToFetchBuildIDStep, RequestStep,
     BounceStep, FailRequestStep, StoreSnapshotStep, StoreRowsStep, MarkSuccessStep, MarkFailureStep,
     RereadStep, BuildSummaryStep DEF CallerNext
<1>8. QED BY <1>1, <1>2, <1>3, <1>4, <1>5, <1>6, <1>7 DEF PagesNext

\* The invariant of the event pages holds for any callers, events, names the
\* site gives up, redirects and faults.
THEOREM PagesInvariance == PagesSpec => []PagesInv
<1>1. QED BY PagesStart, PagesStep, PTL DEF PagesSpec

\* A summary of an event page is no older than it says, or says that it is
\* stale or incomplete; and a fetch nothing went wrong for finds its page,
\* whatever the site deploys, renames or the process forgets meanwhile.
THEOREM SummariesHonest == PagesSpec => []PagesKeepTheirWord
<1>1. PagesInv => PagesKeepTheirWord
  <2>1. PagesInv => SummaryIsAsOldAsItSays
    BY DEF PagesInv, RowsInv, ShownRows, SummaryIsAsOldAsItSays, Shown
  <2>2. PagesInv => QuietFetchSucceeds
    BY DEF PagesInv, LuckInv, Lucky, Excused, QuietFetchSucceeds
  <2>3. QED BY <2>1, <2>2 DEF PagesKeepTheirWord
<1>2. QED BY <1>1, PagesInvariance, PTL


-----------------------------------------------------------------------------
(* The analyst note and the way to the chat: SecondAnswerHasCause,         *)
(* VerdictIsOfTheNote and MessagesFindTheirChat                            *)

\* What a sender carries, a row of the table and an alert's history
SendSteps == {"latest", "ask", "answer", "version", "insert", "text", "attribute", "send"}
Sends     == [step : SendSteps, alert : Alerts, verdict : PickVerdict, marks : SUBSET Marks,
              version : Nat, note : Nat]
Note      == [verdict : PickVerdict, marks : SUBSET Marks, old : BOOLEAN]
Past      == [paid : Nat, lost : Nat, aged : Nat, shared : Nat,
              unwritten : BOOLEAN, seen : BOOLEAN]

NotesTyped ==
    /\ alert \in [Alerts -> {"ready", "out", "sent", "failed"}]
    /\ notes \in [Alerts -> Seq(Note)]
    /\ attribution \in [Alerts -> PickVerdict]
    /\ sender \in [Senders -> {NoSend} \cup Sends]
    /\ past \in [Alerts -> Past]

\* Who may still pay for an alert's answer, who has paid and not stored it.
MayPay  == {"latest", "ask", "answer"}
Storing == {"version", "insert"}
Among(a, steps) == {s \in Senders : sender[s].step \in steps /\ sender[s].alert = a}
Payers(a)  == Among(a, MayPay)
Paid(a)    == Among(a, Storing)
Bound(a)   == Among(a, {"ask", "answer", "version", "insert"})
Excess(a)  == 1 + past[a].lost + past[a].aged + past[a].shared - past[a].paid

\* Without a fresh note there is an answer to spare for everybody who may ask,
\* and one more when nobody is at it; a fresh note lets those who have only
\* come to look go by without one.
AnswersLeft(a) ==
    /\ ~Fresh(a) => Excess(a) >= Cardinality(Payers(a))
    /\ ~Fresh(a) /\ Payers(a) = {} /\ Paid(a) = {} => Excess(a) >= 1
    /\ Fresh(a) /\ Bound(a) # {} => Excess(a) >= Cardinality(Payers(a))
    /\ Excess(a) >= 0 /\ Excess(a) + 1 >= Cardinality(Payers(a))

\* One send has an alert unless it was shared...
OneSend ==
    \A s, t \in Senders :
        ~At(s, "idle") /\ ~At(t, "idle") /\ sender[s].alert = sender[t].alert
        /\ past[sender[s].alert].shared = 0 => s = t

OfLatest(a, verdict) == verdict # NoVerdict => notes[a] # << >> /\ verdict = Latest(a).verdict

\* ... and what that one carries is of the latest note.
Carries(s) ==
    LET a == sender[s].alert IN
    ~At(s, "idle") /\ past[a].shared = 0 =>
        /\ sender[s].step \in {"text", "attribute"} => OfLatest(a, sender[s].verdict)
        /\ sender[s].note \in {0, Len(notes[a])}
        /\ At(s, "send") => OfLatest(a, attribution[a]) \/ past[a].unwritten

CarriesLatest == \A s \in Senders : Carries(s)

\* Before it reads, a sender carries nothing.
NothingYet ==
    \A s \in Senders :
        /\ sender[s].step \in MayPay => sender[s].verdict = NoVerdict
        /\ ~At(s, "idle") /\ sender[s].step \notin {"attribute", "send"} => sender[s].note = 0

NotesExist == \A s \in Senders : ~At(s, "idle") => sender[s].note <= Len(notes[sender[s].alert])

RouteInv ==
    /\ router \in RouterConfigs
    /\ posted = NoReport \/ posted.to = Reaches(router, posted.surface, posted.marks)

NotesInv ==
    /\ NotesTyped /\ RouteInv
    /\ \A a \in Alerts : AnswersLeft(a)
    /\ OneSend /\ CarriesLatest /\ NothingYet /\ NotesExist
    /\ SentWasSeen

-----------------------------------------------------------------------------
(* Only one sender and one alert are in a step of a sender. *)

Turn(s, a) ==
    /\ a \in Alerts
    /\ \A t \in Senders \ {s} : sender'[t] = sender[t]
    /\ sender[s].step # "idle" => sender[s].alert = a
    /\ sender'[s].step # "idle" => sender'[s].alert = a
    /\ \A b \in Alerts \ {a} : /\ notes'[b] = notes[b] /\ past'[b] = past[b]
                               /\ attribution'[b] = attribution[b] /\ alert'[b] = alert[b]

LEMMA SendIs ==
    ASSUME NotesTyped, NEW s \in Senders, ~At(s, "idle")
    PROVE  sender[s] \in Sends
BY DEF NotesTyped, At, NoSend

LEMMA SendWith ==
    ASSUME NEW r \in Sends
    PROVE  /\ \A x \in SendSteps : [r EXCEPT !.step = x] \in Sends
           /\ \A x \in PickVerdict : [r EXCEPT !.verdict = x] \in Sends
           /\ \A x \in SUBSET Marks : [r EXCEPT !.marks = x] \in Sends
           /\ \A x \in Nat : [r EXCEPT !.version = x] \in Sends
           /\ \A x \in Nat : [r EXCEPT !.note = x] \in Sends
<1>1. \A x \in SendSteps : [r EXCEPT !.step = x] \in Sends  BY DEF Sends
<1>2. \A x \in PickVerdict : [r EXCEPT !.verdict = x] \in Sends  BY DEF Sends
<1>3. \A x \in SUBSET Marks : [r EXCEPT !.marks = x] \in Sends  BY DEF Sends
<1>4. \A x \in Nat : [r EXCEPT !.version = x] \in Sends  BY DEF Sends
<1>5. \A x \in Nat : [r EXCEPT !.note = x] \in Sends  BY DEF Sends
<1> QED  BY <1>1, <1>2, <1>3, <1>4, <1>5

\* A sender whose record is replaced by one of the same alert
LEMMA Replaced ==
    ASSUME NotesTyped, NEW s \in Senders, ~At(s, "idle"), NEW r \in {NoSend} \cup Sends,
           r.step # "idle" => r.alert = sender[s].alert,
           sender' = [sender EXCEPT ![s] = r]
    PROVE  /\ sender' \in [Senders -> {NoSend} \cup Sends] /\ sender'[s] = r
           /\ sender[s].alert \in Alerts
           /\ \A t \in Senders \ {s} : sender'[t] = sender[t]
<1>1. sender[s] \in Sends  BY SendIs
<1> QED  BY <1>1 DEF NotesTyped, Sends

LEMMA Stepped ==
    ASSUME NotesTyped, NEW s \in Senders, ~At(s, "idle"), NEW x \in SendSteps, Goes(s, x)
    PROVE  /\ sender' \in [Senders -> {NoSend} \cup Sends]
           /\ sender'[s] = [sender[s] EXCEPT !.step = x]
           /\ sender[s].alert \in Alerts
           /\ \A t \in Senders \ {s} : sender'[t] = sender[t]
<1> DEFINE r == [sender[s] EXCEPT !.step = x]
<1>1. sender[s] \in Sends  BY SendIs
<1>2. r \in Sends  BY <1>1, SendWith
<1>3. r.alert = sender[s].alert  BY <1>1 DEF Sends
<1>4. sender' = [sender EXCEPT ![s] = r]  BY DEF Goes
<1> HIDE DEF r
<1>5. /\ sender' \in [Senders -> {NoSend} \cup Sends] /\ sender'[s] = r
      /\ sender[s].alert \in Alerts /\ \A t \in Senders \ {s} : sender'[t] = sender[t]
  BY <1>2, <1>3, <1>4, Replaced
<1> QED  BY <1>5 DEF r

\* A count or a mark of an alert's history
LEMMA Counted ==
    ASSUME NEW p \in Past
    PROVE  /\ \A n \in Nat : /\ [p EXCEPT !.paid = n] \in Past /\ [p EXCEPT !.lost = n] \in Past
                             /\ [p EXCEPT !.aged = n] \in Past /\ [p EXCEPT !.shared = n] \in Past
           /\ \A x \in BOOLEAN : [p EXCEPT !.unwritten = x] \in Past /\ [p EXCEPT !.seen = x] \in Past
<1>1. \A n \in Nat : [p EXCEPT !.paid = n] \in Past  BY DEF Past
<1>2. \A n \in Nat : [p EXCEPT !.lost = n] \in Past  BY DEF Past
<1>3. \A n \in Nat : [p EXCEPT !.aged = n] \in Past  BY DEF Past
<1>4. \A n \in Nat : [p EXCEPT !.shared = n] \in Past  BY DEF Past
<1>5. \A x \in BOOLEAN : [p EXCEPT !.unwritten = x] \in Past  BY DEF Past
<1>6. \A x \in BOOLEAN : [p EXCEPT !.seen = x] \in Past  BY DEF Past
<1> QED  BY <1>1, <1>2, <1>3, <1>4, <1>5, <1>6

-----------------------------------------------------------------------------
(* What each step of a sender does *)

LEMMA PickTurn ==
    ASSUME NotesTyped, NEW s \in Senders, NEW a \in Alerts, Pick(s, a)
    PROVE  /\ NotesTyped' /\ Turn(s, a) /\ notes' = notes /\ attribution' = attribution
           /\ At(s, "idle") /\ sender'[s].step = "latest" /\ sender'[s].verdict = NoVerdict
           /\ sender'[s].note = 0 /\ alert'[a] = "out"
           /\ past'[a] = [past[a] EXCEPT !.shared = @ + IF Held(a) THEN 1 ELSE 0]
<1> DEFINE r == [step |-> "latest", alert |-> a, verdict |-> NoVerdict, marks |-> {},
                 version |-> 0, note |-> 0]
           k == IF Held(a) THEN 1 ELSE 0
           p == [past[a] EXCEPT !.shared = @ + k]
<1>1. r \in Sends  BY DEF Sends, SendSteps, PickVerdict
<1>2. sender' = [sender EXCEPT ![s] = r]  BY DEF Pick
<1>3. past' = [past EXCEPT ![a] = p]  BY DEF Pick, NotesTyped
<1>4. k \in Nat  OBVIOUS
<1>5. p \in Past
  <2> HIDE DEF k
  <2>1. past[a] \in Past /\ past[a].shared + k \in Nat  BY <1>4 DEF NotesTyped, Past
  <2> QED  BY <2>1, Counted
<1>6. r.step = "latest" /\ r.alert = a /\ r.verdict = NoVerdict /\ r.note = 0  OBVIOUS
<1> HIDE DEF r, p, k
<1>7. sender' \in [Senders -> {NoSend} \cup Sends] /\ sender'[s] = r
  BY <1>1, <1>2 DEF NotesTyped
<1>8. past' \in [Alerts -> Past] /\ past'[a] = p  BY <1>3, <1>5 DEF NotesTyped
<1>9. NotesTyped'  BY <1>7, <1>8 DEF NotesTyped, Pick
<1>10. Turn(s, a)  BY <1>2, <1>3, <1>6, <1>7 DEF Turn, Pick, At, NotesTyped
<1>11. alert'[a] = "out"  BY DEF Pick, NotesTyped
<1> QED  BY <1>6, <1>7, <1>8, <1>9, <1>10, <1>11 DEF Pick, p, k

\* A step that only moves the sender on
LEMMA MovesOn ==
    ASSUME NotesTyped, NEW s \in Senders, ~At(s, "idle"), NEW x \in SendSteps, Goes(s, x),
           UNCHANGED <<alert, notes, attribution, past>>
    PROVE  /\ NotesTyped' /\ Turn(s, sender[s].alert)
           /\ sender'[s].step = x /\ sender'[s].verdict = sender[s].verdict
           /\ sender'[s].note = sender[s].note
<1>1. /\ sender' \in [Senders -> {NoSend} \cup Sends]
      /\ sender'[s] = [sender[s] EXCEPT !.step = x]
      /\ sender[s].alert \in Alerts /\ \A t \in Senders \ {s} : sender'[t] = sender[t]
  BY Stepped
<1>2. sender[s] \in Sends  BY SendIs
<1>3. sender'[s].step = x /\ sender'[s].verdict = sender[s].verdict
      /\ sender'[s].note = sender[s].note /\ sender'[s].alert = sender[s].alert
  BY <1>1, <1>2 DEF Sends
<1> QED  BY <1>1, <1>3 DEF NotesTyped, Turn

LEMMA ReadLatestTurn ==
    ASSUME NotesTyped, NEW s \in Senders, ReadLatest(s)
    PROVE  /\ NotesTyped' /\ Turn(s, sender[s].alert) /\ At(s, "latest")
           /\ UNCHANGED <<alert, notes, attribution, past>>
           /\ sender'[s].note = sender[s].note
           /\ \/ Fresh(sender[s].alert) /\ sender'[s].step = "text"
                 /\ sender'[s].verdict = Latest(sender[s].alert).verdict
              \/ ~Fresh(sender[s].alert) /\ sender'[s].step = "ask"
                 /\ sender'[s].verdict = sender[s].verdict
              \/ sender'[s].step = "attribute" /\ sender'[s].verdict = sender[s].verdict
<1> DEFINE a == sender[s].alert
<1>0. ~At(s, "idle") /\ At(s, "latest") /\ UNCHANGED <<alert, notes, attribution, past>>
  BY DEF ReadLatest, At
<1>s. sender[s] \in Sends /\ a \in Alerts  BY <1>0, SendIs DEF Sends
<1>1. CASE Goes(s, "attribute")
  <2>1. "attribute" \in SendSteps  BY DEF SendSteps
  <2> QED  BY <1>0, <1>1, <2>1, MovesOn
<1>2. CASE ~Fresh(a) /\ Goes(s, "ask")
  <2>1. "ask" \in SendSteps  BY DEF SendSteps
  <2> QED  BY <1>0, <1>2, <2>1, MovesOn
<1>3. CASE /\ Fresh(a)
           /\ sender' = [sender EXCEPT ![s].step = "text", ![s].verdict = Latest(a).verdict]
  <2> DEFINE j == [sender[s] EXCEPT !.step = "text"]
             r == [j EXCEPT !.verdict = Latest(a).verdict]
  <2>1. j \in Sends  BY <1>s, SendWith DEF SendSteps
  <2>2. Latest(a).verdict \in PickVerdict
    <3>1. notes[a] \in Seq(Note) /\ notes[a] # << >>  BY <1>3, <1>s DEF NotesTyped, Fresh
    <3>2. Len(notes[a]) \in 1 .. Len(notes[a])  BY <3>1
    <3>3. notes[a][Len(notes[a])] \in Note  BY <3>1, <3>2
    <3> QED  BY <3>3 DEF Latest, Note
  <2>3. j.step = "text" /\ j.alert = a /\ j.note = sender[s].note  BY <1>s DEF Sends
  <2>4. sender' = [sender EXCEPT ![s] = r]  BY <1>3 DEF NotesTyped
  <2> HIDE DEF j
  <2>5. r \in Sends  BY <2>1, <2>2, SendWith
  <2>6. r.step = "text" /\ r.alert = a /\ r.note = sender[s].note /\ r.verdict = Latest(a).verdict
    BY <2>1, <2>3 DEF Sends
  <2> HIDE DEF r
  <2>7. /\ sender' \in [Senders -> {NoSend} \cup Sends] /\ sender'[s] = r
        /\ \A t \in Senders \ {s} : sender'[t] = sender[t]
    BY <1>0, <2>4, <2>5, <2>6, Replaced
  <2>8. NotesTyped'  BY <1>0, <2>7 DEF NotesTyped
  <2>9. Turn(s, a)  BY <1>0, <1>s, <2>6, <2>7 DEF Turn
  <2> QED  BY <1>0, <1>3, <2>6, <2>7, <2>8, <2>9
<1> QED  BY <1>1, <1>2, <1>3 DEF ReadLatest

LEMMA AskModelTurn ==
    ASSUME NotesTyped, NEW s \in Senders, AskModel(s)
    PROVE  /\ NotesTyped' /\ Turn(s, sender[s].alert) /\ At(s, "ask")
           /\ UNCHANGED <<alert, notes, attribution, past>>
           /\ sender'[s].note = sender[s].note /\ sender'[s].verdict = sender[s].verdict
           /\ sender'[s].step \in {"answer", "text"}
<1>0. ~At(s, "idle") /\ At(s, "ask") /\ UNCHANGED <<alert, notes, attribution, past>>
  BY DEF AskModel, At
<1>1. PICK x \in {"answer", "text"} : Goes(s, x)  BY DEF AskModel
<1>2. x \in SendSteps  BY DEF SendSteps
<1> QED  BY <1>0, <1>1, <1>2, MovesOn

LEMMA LatestVersionTurn ==
    ASSUME NotesTyped, NEW s \in Senders, LatestVersion(s)
    PROVE  /\ NotesTyped' /\ Turn(s, sender[s].alert) /\ At(s, "version")
           /\ UNCHANGED <<alert, notes, attribution, past>>
           /\ sender'[s].note = sender[s].note /\ sender'[s].step = "insert"
<1> DEFINE a == sender[s].alert
           j == [sender[s] EXCEPT !.step = "insert"]
           r == [j EXCEPT !.version = Len(notes[a]) + 1]
<1>0. ~At(s, "idle") /\ At(s, "version") /\ UNCHANGED <<alert, notes, attribution, past>>
  BY DEF LatestVersion, At
<1>s. sender[s] \in Sends /\ a \in Alerts  BY <1>0, SendIs DEF Sends
<1>1. j \in Sends  BY <1>s, SendWith DEF SendSteps
<1>2. Len(notes[a]) + 1 \in Nat  BY <1>s DEF NotesTyped
<1>3. j.step = "insert" /\ j.alert = a /\ j.note = sender[s].note  BY <1>s DEF Sends
<1>4. sender' = [sender EXCEPT ![s] = r]  BY DEF NotesTyped, LatestVersion
<1> HIDE DEF j
<1>5. r \in Sends  BY <1>1, <1>2, SendWith
<1>6. r.step = "insert" /\ r.alert = a /\ r.note = sender[s].note
  BY <1>1, <1>3 DEF Sends
<1> HIDE DEF r
<1>7. /\ sender' \in [Senders -> {NoSend} \cup Sends] /\ sender'[s] = r
      /\ \A t \in Senders \ {s} : sender'[t] = sender[t]
  BY <1>0, <1>4, <1>5, <1>6, Replaced
<1>8. NotesTyped'  BY <1>0, <1>7 DEF NotesTyped
<1>9. Turn(s, a)  BY <1>0, <1>s, <1>6, <1>7 DEF Turn
<1> QED  BY <1>0, <1>6, <1>7, <1>8, <1>9

\* A history that is replaced for one alert
LEMMA Recorded ==
    ASSUME NotesTyped, NEW a \in Alerts, NEW p \in Past, past' = [past EXCEPT ![a] = p]
    PROVE  /\ past' \in [Alerts -> Past] /\ past'[a] = p
           /\ \A b \in Alerts \ {a} : past'[b] = past[b]
BY DEF NotesTyped

LEMMA LostOne ==
    ASSUME NotesTyped, NEW a \in Alerts, Count(a, "lost")
    PROVE  /\ past' \in [Alerts -> Past] /\ past'[a] = [past[a] EXCEPT !.lost = @ + 1]
           /\ \A b \in Alerts \ {a} : past'[b] = past[b]
<1> DEFINE p == [past[a] EXCEPT !.lost = @ + 1]
<1>1. past[a] \in Past /\ past[a].lost + 1 \in Nat  BY DEF NotesTyped, Past
<1>2. p \in Past  BY <1>1, Counted
<1>3. past' = [past EXCEPT ![a] = p]  BY DEF Count, NotesTyped
<1> HIDE DEF p
<1>4. /\ past' \in [Alerts -> Past] /\ past'[a] = p
      /\ \A b \in Alerts \ {a} : past'[b] = past[b]
  BY <1>2, <1>3, Recorded
<1> QED  BY <1>4 DEF p

LEMMA PaidOne ==
    ASSUME NotesTyped, NEW a \in Alerts, Count(a, "paid")
    PROVE  /\ past' \in [Alerts -> Past] /\ past'[a] = [past[a] EXCEPT !.paid = @ + 1]
           /\ \A b \in Alerts \ {a} : past'[b] = past[b]
<1> DEFINE p == [past[a] EXCEPT !.paid = @ + 1]
<1>1. past[a] \in Past /\ past[a].paid + 1 \in Nat  BY DEF NotesTyped, Past
<1>2. p \in Past  BY <1>1, Counted
<1>3. past' = [past EXCEPT ![a] = p]  BY DEF Count, NotesTyped
<1> HIDE DEF p
<1>4. /\ past' \in [Alerts -> Past] /\ past'[a] = p
      /\ \A b \in Alerts \ {a} : past'[b] = past[b]
  BY <1>2, <1>3, Recorded
<1> QED  BY <1>4 DEF p

LEMMA PaidAndLost ==
    ASSUME NotesTyped, NEW a \in Alerts,
           past' = [past EXCEPT ![a].paid = @ + 1, ![a].lost = @ + 1]
    PROVE  /\ past' \in [Alerts -> Past]
           /\ past'[a].paid = past[a].paid + 1 /\ past'[a].lost = past[a].lost + 1
           /\ past'[a].aged = past[a].aged /\ past'[a].shared = past[a].shared
           /\ past'[a].unwritten = past[a].unwritten /\ past'[a].seen = past[a].seen
           /\ \A b \in Alerts \ {a} : past'[b] = past[b]
<1> DEFINE q == [past[a] EXCEPT !.paid = @ + 1]
           p == [q EXCEPT !.lost = @ + 1]
<1>1. past[a] \in Past /\ past[a].paid + 1 \in Nat  BY DEF NotesTyped, Past
<1>2. q \in Past  BY <1>1, Counted
<1>3. /\ q.lost = past[a].lost /\ q.paid = past[a].paid + 1 /\ q.aged = past[a].aged
      /\ q.shared = past[a].shared /\ q.unwritten = past[a].unwritten /\ q.seen = past[a].seen
  BY <1>1 DEF Past
<1>4. past' = [past EXCEPT ![a] = p]  BY DEF NotesTyped
<1> HIDE DEF q
<1>5. q.lost + 1 \in Nat  BY <1>2 DEF Past
<1>6. p \in Past  BY <1>2, <1>5, Counted
<1>7. /\ p.paid = q.paid /\ p.lost = q.lost + 1 /\ p.aged = q.aged /\ p.shared = q.shared
      /\ p.unwritten = q.unwritten /\ p.seen = q.seen
  BY <1>2 DEF Past
<1> HIDE DEF p
<1>8. /\ past' \in [Alerts -> Past] /\ past'[a] = p
      /\ \A b \in Alerts \ {a} : past'[b] = past[b]
  BY <1>4, <1>6, Recorded
<1> QED  BY <1>3, <1>7, <1>8

\* The alert of a sender that moves on with a new history
LEMMA MovesOnWith ==
    ASSUME NotesTyped, NEW s \in Senders, ~At(s, "idle"), NEW x \in SendSteps, Goes(s, x),
           UNCHANGED <<alert, notes, attribution>>, past' \in [Alerts -> Past],
           \A b \in Alerts \ {sender[s].alert} : past'[b] = past[b]
    PROVE  /\ NotesTyped' /\ Turn(s, sender[s].alert)
           /\ sender'[s].step = x /\ sender'[s].verdict = sender[s].verdict
           /\ sender'[s].note = sender[s].note
<1>1. /\ sender' \in [Senders -> {NoSend} \cup Sends]
      /\ sender'[s] = [sender[s] EXCEPT !.step = x]
      /\ sender[s].alert \in Alerts /\ \A t \in Senders \ {s} : sender'[t] = sender[t]
  BY Stepped
<1>2. sender[s] \in Sends  BY SendIs
<1>3. sender'[s].step = x /\ sender'[s].verdict = sender[s].verdict
      /\ sender'[s].note = sender[s].note /\ sender'[s].alert = sender[s].alert
  BY <1>1, <1>2 DEF Sends
<1> QED  BY <1>1, <1>3 DEF NotesTyped, Turn

LEMMA AnswerTurn ==
    ASSUME NotesTyped, NEW s \in Senders, Answer(s)
    PROVE  /\ NotesTyped' /\ Turn(s, sender[s].alert) /\ At(s, "answer")
           /\ UNCHANGED <<alert, notes, attribution>>
           /\ sender'[s].note = sender[s].note
           /\ past'[sender[s].alert].shared = past[sender[s].alert].shared
           /\ past'[sender[s].alert].aged = past[sender[s].alert].aged
           /\ past'[sender[s].alert].unwritten = past[sender[s].alert].unwritten
           /\ past'[sender[s].alert].seen = past[sender[s].alert].seen
           /\ \/ /\ sender'[s].step = "version"
                 /\ past'[sender[s].alert].paid = past[sender[s].alert].paid + 1
                 /\ past'[sender[s].alert].lost = past[sender[s].alert].lost
              \/ /\ sender'[s].step = "text" /\ sender'[s].verdict = sender[s].verdict
                 /\ past'[sender[s].alert].paid = past[sender[s].alert].paid + 1
                 /\ past'[sender[s].alert].lost = past[sender[s].alert].lost + 1
              \/ /\ sender'[s].step = "text" /\ sender'[s].verdict = sender[s].verdict
                 /\ past' = past
<1> DEFINE a == sender[s].alert
<1>0. ~At(s, "idle") /\ At(s, "answer") /\ UNCHANGED <<alert, notes, attribution>>
  BY DEF Answer, At
<1>s. sender[s] \in Sends /\ a \in Alerts  BY <1>0, SendIs DEF Sends
<1>t. "text" \in SendSteps  BY DEF SendSteps
<1>1. CASE Goes(s, "text") /\ past' = past
  <2> QED  BY <1>0, <1>1, <1>t, MovesOn
<1>2. CASE Goes(s, "text") /\ past' = [past EXCEPT ![a].paid = @ + 1, ![a].lost = @ + 1]
  <2>1. /\ past' \in [Alerts -> Past]
        /\ past'[a].paid = past[a].paid + 1 /\ past'[a].lost = past[a].lost + 1
        /\ past'[a].aged = past[a].aged /\ past'[a].shared = past[a].shared
        /\ past'[a].unwritten = past[a].unwritten /\ past'[a].seen = past[a].seen
        /\ \A b \in Alerts \ {a} : past'[b] = past[b]
    BY <1>2, <1>s, PaidAndLost
  <2>2. /\ NotesTyped' /\ Turn(s, a) /\ sender'[s].step = "text"
        /\ sender'[s].verdict = sender[s].verdict /\ sender'[s].note = sender[s].note
    BY <1>0, <1>2, <1>t, <2>1, MovesOnWith
  <2> QED  BY <1>0, <2>1, <2>2
<1>3. ASSUME Count(a, "paid"), NEW answer \in Answers,
             sender' = [sender EXCEPT ![s].step = "version", ![s].verdict = answer.verdict,
                                      ![s].marks = answer.marks]
      PROVE  /\ NotesTyped' /\ Turn(s, a) /\ sender'[s].step = "version"
             /\ sender'[s].note = sender[s].note
             /\ past'[a] = [past[a] EXCEPT !.paid = @ + 1]
  <2> DEFINE j == [sender[s] EXCEPT !.step = "version"]
             k == [j EXCEPT !.verdict = answer.verdict]
             r == [k EXCEPT !.marks = answer.marks]
  <2>0. answer.verdict \in PickVerdict /\ answer.marks \in SUBSET Marks
    BY AnalysisAssumption
  <2>1. sender' = [sender EXCEPT ![s] = r]  BY <1>3 DEF NotesTyped
  <2>2. j \in Sends  BY <1>s, SendWith DEF SendSteps
  <2>3. j.step = "version" /\ j.alert = a /\ j.note = sender[s].note  BY <1>s DEF Sends
  <2> HIDE DEF j
  <2>4. k \in Sends  BY <2>0, <2>2, SendWith
  <2>5. k.step = "version" /\ k.alert = a /\ k.note = sender[s].note  BY <2>2, <2>3 DEF Sends
  <2> HIDE DEF k
  <2>6. r \in Sends  BY <2>0, <2>4, SendWith
  <2>7. r.step = "version" /\ r.alert = a /\ r.note = sender[s].note  BY <2>4, <2>5 DEF Sends
  <2> HIDE DEF r
  <2>8. /\ sender' \in [Senders -> {NoSend} \cup Sends] /\ sender'[s] = r
        /\ \A t \in Senders \ {s} : sender'[t] = sender[t]
    BY <1>0, <2>1, <2>6, <2>7, Replaced
  <2>9. /\ past' \in [Alerts -> Past] /\ past'[a] = [past[a] EXCEPT !.paid = @ + 1]
        /\ \A b \in Alerts \ {a} : past'[b] = past[b]
    BY <1>3, <1>s, PaidOne
  <2>10. NotesTyped'  BY <1>0, <2>8, <2>9 DEF NotesTyped
  <2>11. Turn(s, a)  BY <1>0, <1>s, <2>7, <2>8, <2>9 DEF Turn
  <2> QED  BY <2>7, <2>8, <2>9, <2>10, <2>11
<1>4. past[a] \in Past  BY <1>s DEF NotesTyped
<1>5. CASE \E answer \in Answers :
              /\ Count(a, "paid")
              /\ sender' = [sender EXCEPT ![s].step = "version", ![s].verdict = answer.verdict,
                                          ![s].marks = answer.marks]
  <2>1. /\ NotesTyped' /\ Turn(s, a) /\ sender'[s].step = "version"
        /\ sender'[s].note = sender[s].note /\ past'[a] = [past[a] EXCEPT !.paid = @ + 1]
    BY <1>3, <1>5
  <2>2. /\ past'[a].paid = past[a].paid + 1 /\ past'[a].lost = past[a].lost
        /\ past'[a].aged = past[a].aged /\ past'[a].shared = past[a].shared
        /\ past'[a].unwritten = past[a].unwritten /\ past'[a].seen = past[a].seen
    BY <1>4, <2>1 DEF Past
  <2> QED  BY <1>0, <2>1, <2>2
<1>6. \/ Goes(s, "text") /\ past' = past
      \/ Goes(s, "text") /\ past' = [past EXCEPT ![a].paid = @ + 1, ![a].lost = @ + 1]
      \/ \E answer \in Answers :
              /\ Count(a, "paid")
              /\ sender' = [sender EXCEPT ![s].step = "version", ![s].verdict = answer.verdict,
                                          ![s].marks = answer.marks]
  BY DEF Answer, Rejected
<1> QED  BY <1>1, <1>2, <1>5, <1>6

\* A sender that drops what it carries of an answer
LEMMA LetsGo ==
    ASSUME NotesTyped, NEW s \in Senders, ~At(s, "idle"), NEW x \in SendSteps,
           sender' = [sender EXCEPT ![s].step = x, ![s].verdict = NoVerdict,
                                    ![s].version = 0, ![s].marks = {}]
    PROVE  /\ sender' \in [Senders -> {NoSend} \cup Sends] /\ sender[s].alert \in Alerts
           /\ sender'[s].step = x /\ sender'[s].alert = sender[s].alert
           /\ sender'[s].verdict = NoVerdict /\ sender'[s].note = sender[s].note
           /\ \A t \in Senders \ {s} : sender'[t] = sender[t]
<1> DEFINE i == [sender[s] EXCEPT !.step = x]
           j == [i EXCEPT !.verdict = NoVerdict]
           k == [j EXCEPT !.version = 0]
           r == [k EXCEPT !.marks = {}]
<1>s. sender[s] \in Sends /\ sender[s].alert \in Alerts  BY SendIs DEF Sends
<1>0. NoVerdict \in PickVerdict /\ 0 \in Nat /\ {} \in SUBSET Marks  BY DEF PickVerdict
<1>1. sender' = [sender EXCEPT ![s] = r]  BY DEF NotesTyped
<1>2. i \in Sends  BY <1>s, SendWith
<1>3. i.step = x /\ i.alert = sender[s].alert /\ i.note = sender[s].note  BY <1>s DEF Sends
<1> HIDE DEF i
<1>4. j \in Sends  BY <1>0, <1>2, SendWith
<1>5. j.step = x /\ j.alert = sender[s].alert /\ j.note = sender[s].note /\ j.verdict = NoVerdict
  BY <1>2, <1>3 DEF Sends
<1> HIDE DEF j
<1>6. k \in Sends  BY <1>0, <1>4, SendWith
<1>7. k.step = x /\ k.alert = sender[s].alert /\ k.note = sender[s].note /\ k.verdict = NoVerdict
  BY <1>4, <1>5 DEF Sends
<1> HIDE DEF k
<1>8. r \in Sends  BY <1>0, <1>6, SendWith
<1>9. r.step = x /\ r.alert = sender[s].alert /\ r.note = sender[s].note /\ r.verdict = NoVerdict
  BY <1>6, <1>7 DEF Sends
<1> HIDE DEF r
<1>10. /\ sender' \in [Senders -> {NoSend} \cup Sends] /\ sender'[s] = r
       /\ \A t \in Senders \ {s} : sender'[t] = sender[t]
  BY <1>1, <1>8, <1>9, Replaced
<1> QED  BY <1>s, <1>9, <1>10

LEMMA LoseAnswerTurn ==
    ASSUME NotesTyped, NEW s \in Senders, LoseAnswer(s)
    PROVE  /\ NotesTyped' /\ Turn(s, sender[s].alert) /\ sender[s].step \in Storing
           /\ UNCHANGED <<alert, notes, attribution>>
           /\ sender'[s].note = sender[s].note
           /\ sender'[s].step = "attribute" /\ sender'[s].verdict = NoVerdict
           /\ past'[sender[s].alert] = [past[sender[s].alert] EXCEPT !.lost = @ + 1]
<1> DEFINE a == sender[s].alert
<1>0. /\ ~At(s, "idle") /\ sender[s].step \in Storing /\ UNCHANGED <<alert, notes, attribution>>
      /\ Count(a, "lost")
      /\ sender' = [sender EXCEPT ![s].step = "attribute", ![s].verdict = NoVerdict,
                                  ![s].version = 0, ![s].marks = {}]
  BY DEF LoseAnswer, At, Storing
<1>x. "attribute" \in SendSteps  BY DEF SendSteps
<1>1. /\ sender' \in [Senders -> {NoSend} \cup Sends] /\ a \in Alerts
      /\ sender'[s].step = "attribute" /\ sender'[s].alert = a
      /\ sender'[s].verdict = NoVerdict /\ sender'[s].note = sender[s].note
      /\ \A t \in Senders \ {s} : sender'[t] = sender[t]
  BY <1>0, <1>x, LetsGo
<1>2. /\ past' \in [Alerts -> Past] /\ past'[a] = [past[a] EXCEPT !.lost = @ + 1]
      /\ \A b \in Alerts \ {a} : past'[b] = past[b]
  BY <1>0, <1>1, LostOne
<1>3. NotesTyped'  BY <1>0, <1>1, <1>2 DEF NotesTyped
<1>4. Turn(s, a)  BY <1>0, <1>1, <1>2 DEF Turn
<1> QED  BY <1>0, <1>1, <1>2, <1>3, <1>4

LEMMA InsertTurn ==
    ASSUME NotesTyped, NEW s \in Senders, Insert(s)
    PROVE  /\ NotesTyped' /\ Turn(s, sender[s].alert) /\ At(s, "insert")
           /\ UNCHANGED <<alert, attribution>>
           /\ sender'[s].note = sender[s].note /\ sender'[s].step = "text"
           /\ \/ /\ past' = past /\ sender'[s].verdict = sender[s].verdict
                 /\ \E n \in Note :
                       /\ n.verdict = sender[s].verdict /\ n.old = FALSE
                       /\ notes'[sender[s].alert] = Append(notes[sender[s].alert], n)
              \/ /\ sender'[s].verdict = NoVerdict /\ notes' = notes
                 /\ past'[sender[s].alert] = [past[sender[s].alert] EXCEPT !.lost = @ + 1]
<1> DEFINE a == sender[s].alert
<1>0. ~At(s, "idle") /\ At(s, "insert") /\ UNCHANGED <<alert, attribution>>
  BY DEF Insert, At
<1>s. sender[s] \in Sends /\ a \in Alerts  BY <1>0, SendIs DEF Sends
<1>x. "text" \in SendSteps  BY DEF SendSteps
<1>1. CASE /\ notes' = notes /\ Count(a, "lost")
           /\ sender' = [sender EXCEPT ![s].step = "text", ![s].verdict = NoVerdict,
                                       ![s].version = 0, ![s].marks = {}]
  <2>1. /\ sender' \in [Senders -> {NoSend} \cup Sends] /\ a \in Alerts
        /\ sender'[s].step = "text" /\ sender'[s].alert = a
        /\ sender'[s].verdict = NoVerdict /\ sender'[s].note = sender[s].note
        /\ \A t \in Senders \ {s} : sender'[t] = sender[t]
    BY <1>0, <1>1, <1>x, LetsGo
  <2>2. /\ past' \in [Alerts -> Past] /\ past'[a] = [past[a] EXCEPT !.lost = @ + 1]
        /\ \A b \in Alerts \ {a} : past'[b] = past[b]
    BY <1>1, <2>1, LostOne
  <2>3. NotesTyped'  BY <1>0, <1>1, <2>1, <2>2 DEF NotesTyped
  <2>4. Turn(s, a)  BY <1>0, <1>1, <2>1, <2>2 DEF Turn
  <2> QED  BY <1>0, <1>1, <2>1, <2>2, <2>3, <2>4
<1>2. CASE /\ past' = past
           /\ notes' = [notes EXCEPT ![a] =
                  Append(@, [verdict |-> sender[s].verdict, marks |-> sender[s].marks,
                             old |-> FALSE])]
           /\ sender' = [sender EXCEPT ![s].step = "text", ![s].version = 0, ![s].marks = {}]
  <2> DEFINE i == [sender[s] EXCEPT !.step = "text"]
             j == [i EXCEPT !.version = 0]
             r == [j EXCEPT !.marks = {}]
             n == [verdict |-> sender[s].verdict, marks |-> sender[s].marks, old |-> FALSE]
  <2>0. 0 \in Nat /\ {} \in SUBSET Marks  OBVIOUS
  <2>1. sender' = [sender EXCEPT ![s] = r]  BY <1>2 DEF NotesTyped
  <2>n. n \in Note /\ n.verdict = sender[s].verdict /\ n.old = FALSE  BY <1>s DEF Note, Sends
  <2>m. notes' = [notes EXCEPT ![a] = Append(notes[a], n)]  BY <1>2, <1>s DEF NotesTyped
  <2>2. i \in Sends  BY <1>s, <1>x, SendWith
  <2>3. i.step = "text" /\ i.alert = a /\ i.note = sender[s].note /\ i.verdict = sender[s].verdict
    BY <1>s DEF Sends
  <2> HIDE DEF i, n
  <2>4. j \in Sends  BY <2>0, <2>2, SendWith
  <2>5. j.step = "text" /\ j.alert = a /\ j.note = sender[s].note /\ j.verdict = sender[s].verdict
    BY <2>2, <2>3 DEF Sends
  <2> HIDE DEF j
  <2>6. r \in Sends  BY <2>0, <2>4, SendWith
  <2>7. r.step = "text" /\ r.alert = a /\ r.note = sender[s].note /\ r.verdict = sender[s].verdict
    BY <2>4, <2>5 DEF Sends
  <2> HIDE DEF r
  <2>8. /\ sender' \in [Senders -> {NoSend} \cup Sends] /\ sender'[s] = r
        /\ \A t \in Senders \ {s} : sender'[t] = sender[t]
    BY <1>0, <2>1, <2>6, <2>7, Replaced
  <2>9. notes[a] \in Seq(Note)  BY <1>s DEF NotesTyped
  <2>10. Append(notes[a], n) \in Seq(Note)  BY <2>n, <2>9
  <2>11. /\ notes' \in [Alerts -> Seq(Note)] /\ notes'[a] = Append(notes[a], n)
         /\ \A b \in Alerts \ {a} : notes'[b] = notes[b]
    BY <1>s, <2>m, <2>10 DEF NotesTyped
  <2>12. NotesTyped'  BY <1>0, <1>2, <2>8, <2>11 DEF NotesTyped
  <2>13. Turn(s, a)  BY <1>0, <1>2, <1>s, <2>7, <2>8, <2>11 DEF Turn
  <2> QED  BY <1>0, <1>2, <2>7, <2>8, <2>11, <2>12, <2>13, <2>n
<1> QED  BY <1>1, <1>2 DEF Insert

LEMMA LatestTextTurn ==
    ASSUME NotesTyped, NEW s \in Senders, LatestText(s)
    PROVE  /\ NotesTyped' /\ Turn(s, sender[s].alert) /\ At(s, "text")
           /\ UNCHANGED <<alert, notes, attribution, past>>
           /\ sender'[s].step = "attribute" /\ sender'[s].verdict = sender[s].verdict
           /\ sender'[s].note \in {sender[s].note, Len(notes[sender[s].alert])}
<1> DEFINE a == sender[s].alert
           j == [sender[s] EXCEPT !.step = "attribute"]
           r == [j EXCEPT !.note = Len(notes[a])]
<1>0. ~At(s, "idle") /\ At(s, "text") /\ UNCHANGED <<alert, notes, attribution, past>>
  BY DEF LatestText, At
<1>s. sender[s] \in Sends /\ a \in Alerts  BY <1>0, SendIs DEF Sends
<1>x. "attribute" \in SendSteps  BY DEF SendSteps
<1>1. CASE Goes(s, "attribute")
  BY <1>0, <1>1, <1>x, MovesOn
<1>2. CASE sender' = [sender EXCEPT ![s].step = "attribute", ![s].note = TextVersion(a)]
  <2>1. j \in Sends  BY <1>s, <1>x, SendWith
  <2>2. Len(notes[a]) \in Nat  BY <1>s DEF NotesTyped
  <2>3. j.step = "attribute" /\ j.alert = a /\ j.verdict = sender[s].verdict  BY <1>s DEF Sends
  <2>4. sender' = [sender EXCEPT ![s] = r]  BY <1>2 DEF NotesTyped, TextVersion
  <2> HIDE DEF j
  <2>5. r \in Sends  BY <2>1, <2>2, SendWith
  <2>6. r.step = "attribute" /\ r.alert = a /\ r.note = Len(notes[a]) /\ r.verdict = sender[s].verdict
    BY <2>1, <2>3 DEF Sends
  <2> HIDE DEF r
  <2>7. /\ sender' \in [Senders -> {NoSend} \cup Sends] /\ sender'[s] = r
        /\ \A t \in Senders \ {s} : sender'[t] = sender[t]
    BY <1>0, <2>4, <2>5, <2>6, Replaced
  <2>8. NotesTyped'  BY <1>0, <2>7 DEF NotesTyped
  <2>9. Turn(s, a)  BY <1>0, <1>s, <2>6, <2>7 DEF Turn
  <2> QED  BY <1>0, <2>6, <2>7, <2>8, <2>9
<1> QED  BY <1>1, <1>2 DEF LatestText

LEMMA WriteAttributionTurn ==
    ASSUME NotesTyped, NEW s \in Senders, WriteAttribution(s)
    PROVE  /\ NotesTyped' /\ Turn(s, sender[s].alert) /\ At(s, "attribute")
           /\ UNCHANGED <<alert, notes>>
           /\ sender'[s].step = "send" /\ sender'[s].note = sender[s].note
           /\ \/ attribution'[sender[s].alert] = sender[s].verdict
              \/ past'[sender[s].alert].unwritten
           /\ \E x \in BOOLEAN :
                 past'[sender[s].alert] = [past[sender[s].alert] EXCEPT !.unwritten = x]
<1> DEFINE a == sender[s].alert
           j == [sender[s] EXCEPT !.step = "send"]
           r == [j EXCEPT !.verdict = NoVerdict]
<1>0. ~At(s, "idle") /\ At(s, "attribute") /\ UNCHANGED <<alert, notes>>
  BY DEF WriteAttribution, At
<1>s. sender[s] \in Sends /\ a \in Alerts  BY <1>0, SendIs DEF Sends
<1>1. j \in Sends  BY <1>s, SendWith DEF SendSteps
<1>2. NoVerdict \in PickVerdict  BY DEF PickVerdict
<1>3. j.step = "send" /\ j.alert = a /\ j.note = sender[s].note  BY <1>s DEF Sends
<1>4. sender' = [sender EXCEPT ![s] = r]  BY DEF NotesTyped, WriteAttribution
<1> HIDE DEF j
<1>5. r \in Sends  BY <1>1, <1>2, SendWith
<1>6. r.step = "send" /\ r.alert = a /\ r.note = sender[s].note
  BY <1>1, <1>3 DEF Sends
<1> HIDE DEF r
<1>7. /\ sender' \in [Senders -> {NoSend} \cup Sends] /\ sender'[s] = r
      /\ \A t \in Senders \ {s} : sender'[t] = sender[t]
  BY <1>0, <1>4, <1>5, <1>6, Replaced
<1>8. \E x \in BOOLEAN : /\ past' = [past EXCEPT ![a].unwritten = x]
                         /\ \/ x = TRUE /\ UNCHANGED attribution
                            \/ x = FALSE /\ attribution' = [attribution EXCEPT ![a] = sender[s].verdict]
  BY DEF WriteAttribution
<1>9. PICK x \in BOOLEAN : /\ past' = [past EXCEPT ![a].unwritten = x]
                           /\ \/ x = TRUE /\ UNCHANGED attribution
                              \/ x = FALSE /\ attribution' = [attribution EXCEPT ![a] = sender[s].verdict]
  BY <1>8
<1> DEFINE p == [past[a] EXCEPT !.unwritten = x]
<1>10. past[a] \in Past  BY <1>s DEF NotesTyped
<1>11. p \in Past  BY <1>10, Counted
<1>12. past' = [past EXCEPT ![a] = p]  BY <1>9 DEF NotesTyped
<1>13. p.unwritten = x  BY <1>10 DEF Past
<1> HIDE DEF p
<1>14. /\ past' \in [Alerts -> Past] /\ past'[a] = p
       /\ \A b \in Alerts \ {a} : past'[b] = past[b]
  BY <1>s, <1>11, <1>12, Recorded
<1>15. sender[s].verdict \in PickVerdict  BY <1>s DEF Sends
<1>16. /\ attribution' \in [Alerts -> PickVerdict]
       /\ \A b \in Alerts \ {a} : attribution'[b] = attribution[b]
       /\ x = TRUE \/ attribution'[a] = sender[s].verdict
  BY <1>s, <1>9, <1>15 DEF NotesTyped
<1>17. NotesTyped'  BY <1>0, <1>7, <1>14, <1>16 DEF NotesTyped
<1>18. Turn(s, a)  BY <1>0, <1>s, <1>6, <1>7, <1>14, <1>16 DEF Turn
<1>19. attribution'[a] = sender[s].verdict \/ past'[a].unwritten  BY <1>13, <1>14, <1>16
<1>20. \E y \in BOOLEAN : past'[a] = [past[a] EXCEPT !.unwritten = y]
  BY <1>9, <1>14 DEF p
<1> QED  BY <1>0, <1>6, <1>7, <1>17, <1>18, <1>19, <1>20

LEMMA DeliverTurn ==
    ASSUME NotesTyped, NEW s \in Senders, Deliver(s)
    PROVE  /\ NotesTyped' /\ Turn(s, sender[s].alert) /\ At(s, "send")
           /\ UNCHANGED <<notes, attribution>> /\ sender'[s] = NoSend
           /\ alert'[sender[s].alert] = "sent" =>
                 \/ alert[sender[s].alert] = "sent"
                 \/ Accepted(sender[s].alert, sender[s].note)
           /\ \/ past' = past
              \/ past'[sender[s].alert] =
                    [past[sender[s].alert] EXCEPT !.seen = @ \/
                         Reaches(router, SurfaceOf(KindOf[sender[s].alert]),
                                 Body(sender[s].alert, sender[s].note)) # Nobody]
<1> DEFINE a == sender[s].alert
           reached == Reaches(router, SurfaceOf(KindOf[a]), Body(a, sender[s].note)) # Nobody
           p == [past[a] EXCEPT !.seen = @ \/ reached]
<1>0. ~At(s, "idle") /\ At(s, "send") /\ UNCHANGED <<notes, attribution>>
  BY DEF Deliver, At
<1>s. sender[s] \in Sends /\ a \in Alerts  BY <1>0, SendIs DEF Sends
<1>1. sender' = [sender EXCEPT ![s] = NoSend]  BY DEF Deliver
<1>2. NoSend.step = "idle"  BY DEF NoSend
<1>3. /\ sender' \in [Senders -> {NoSend} \cup Sends] /\ sender'[s] = NoSend
      /\ \A t \in Senders \ {s} : sender'[t] = sender[t]
  BY <1>0, <1>1, <1>2, Replaced
<1>4. past[a] \in Past  BY <1>s DEF NotesTyped
<1>5. (past[a].seen \/ reached) \in BOOLEAN  OBVIOUS
<1>6. p \in Past  BY <1>4, <1>5, Counted
<1>7. Accepted(a, sender[s].note) => past' = [past EXCEPT ![a] = p]
  BY DEF Accepted, NotesTyped
<1> HIDE DEF reached, p
<1>8. Accepted(a, sender[s].note) =>
         past' \in [Alerts -> Past] /\ past'[a] = p /\ \A b \in Alerts \ {a} : past'[b] = past[b]
  BY <1>s, <1>6, <1>7, Recorded
<1>9. past' = past \/ Accepted(a, sender[s].note)  BY DEF Deliver
<1>10. past' \in [Alerts -> Past] /\ \A b \in Alerts \ {a} : past'[b] = past[b]
  BY <1>8, <1>9 DEF NotesTyped
<1>11. /\ alert' \in [Alerts -> {"ready", "out", "sent", "failed"}]
       /\ \A b \in Alerts \ {a} : alert'[b] = alert[b]
       /\ alert'[a] = "sent" => alert[a] = "sent" \/ Accepted(a, sender[s].note)
  BY <1>s DEF Deliver, Marked, NotesTyped
<1>12. NotesTyped'  BY <1>0, <1>3, <1>10, <1>11 DEF NotesTyped
<1>13. Turn(s, a)  BY <1>0, <1>s, <1>2, <1>3, <1>10, <1>11 DEF Turn
<1>14. past' = past \/ past'[a] = p  BY <1>8, <1>9
<1> QED  BY <1>0, <1>3, <1>11, <1>12, <1>13, <1>14 DEF p, reached

LEMMA DeliverEnds ==
    ASSUME NotesTyped, NEW s \in Senders, Deliver(s)
    PROVE  /\ sender'[s].step = "idle" /\ sender[s].step = "send"
           /\ Turn(s, sender[s].alert) /\ UNCHANGED <<notes, attribution>>
<1>1. sender'[s] = NoSend /\ Turn(s, sender[s].alert)  BY DeliverTurn
<1> QED  BY <1>1 DEF NoSend, Deliver, At

-----------------------------------------------------------------------------
(* AnswersLeft *)

LEMMA AmongIs ==
    ASSUME NotesTyped, NEW s \in Senders, NEW a, Turn(s, a), NEW steps, "idle" \notin steps
    PROVE  /\ Among(a, steps)' = IF sender'[s].step \in steps THEN Among(a, steps) \cup {s}
                                 ELSE Among(a, steps) \ {s}
           /\ s \in Among(a, steps) <=> sender[s].step \in steps
           /\ \A b \in Alerts \ {a} : Among(b, steps)' = Among(b, steps)
BY DEF Among, Turn

LEMMA Counting ==
    ASSUME NEW s, NEW S \in SUBSET Senders
    PROVE  /\ IsFiniteSet(S) /\ Cardinality(S) \in Nat
           /\ s \notin S => Cardinality(S \cup {s}) = Cardinality(S) + 1
           /\ s \in S => Cardinality(S \ {s}) = Cardinality(S) - 1 /\ Cardinality(S) >= 1
           /\ S = {} => Cardinality(S) = 0
<1>1. IsFiniteSet(Senders)  BY AnalysisAssumption
<1>2. IsFiniteSet(S) /\ Cardinality(S) \in Nat  BY <1>1, FS_Subset, FS_CardinalityType
<1>3. s \notin S => Cardinality(S \cup {s}) = Cardinality(S) + 1  BY <1>2, FS_AddElement
<1>4. s \in S => Cardinality(S \ {s}) = Cardinality(S) - 1  BY <1>2, FS_RemoveElement
<1>5. IsFiniteSet(S \ {s}) /\ Cardinality(S \ {s}) \in Nat  BY <1>2, FS_RemoveElement, FS_CardinalityType
<1>6. s \in S => Cardinality(S) >= 1  BY <1>2, <1>4, <1>5
<1>7. S = {} => Cardinality(S) = 0  BY FS_EmptySet
<1> QED  BY <1>2, <1>3, <1>4, <1>6, <1>7

LEMMA FreshIs ==
    ASSUME NEW a \in Alerts, notes'[a] = notes[a]
    PROVE  Fresh(a)' <=> Fresh(a)
BY DEF Fresh, Latest, ShouldRefresh

LEMMA ExcessIs ==
    ASSUME NotesTyped, NEW a \in Alerts
    PROVE  Excess(a) \in Int
BY DEF NotesTyped, Past, Excess

LEMMA OtherAnswers ==
    ASSUME NotesTyped, NEW s \in Senders, NEW a, Turn(s, a), NEW b \in Alerts \ {a}, AnswersLeft(b)
    PROVE  AnswersLeft(b)'
<1>1. Payers(b)' = Payers(b)  BY AmongIs DEF Payers, MayPay
<1>2. Paid(b)' = Paid(b)  BY AmongIs DEF Paid, Storing
<1>3. Bound(b)' = Bound(b)
  <2> DEFINE steps == {"ask", "answer", "version", "insert"}
  <2>1. "idle" \notin steps  OBVIOUS
  <2>2. Among(b, steps)' = Among(b, steps)
    <3> HIDE DEF steps
    <3> QED  BY <2>1, AmongIs
  <2> QED  BY <2>2 DEF Bound
<1>4. Fresh(b)' <=> Fresh(b)  BY FreshIs DEF Turn
<1>5. Excess(b)' = Excess(b)  BY DEF Excess, Turn
<1> QED  BY <1>1, <1>2, <1>3, <1>4, <1>5 DEF AnswersLeft

\* Who is at it, before and after a step of s
LEMMA PayersMove ==
    ASSUME NotesTyped, NEW s \in Senders, NEW a, Turn(s, a)
    PROVE  /\ Cardinality(Payers(a)) \in Nat /\ Cardinality(Payers(a))' \in Nat
           /\ sender[s].step \in MayPay => Cardinality(Payers(a)) >= 1
           /\ sender[s].step \in MayPay /\ sender'[s].step \notin MayPay =>
                 Cardinality(Payers(a))' = Cardinality(Payers(a)) - 1
           /\ sender[s].step \notin MayPay /\ sender'[s].step \in MayPay =>
                 Cardinality(Payers(a))' = Cardinality(Payers(a)) + 1
           /\ (sender[s].step \in MayPay <=> sender'[s].step \in MayPay) =>
                 Payers(a)' = Payers(a)
           /\ (sender[s].step \in Storing <=> sender'[s].step \in Storing) => Paid(a)' = Paid(a)
           /\ sender'[s].step \in Storing => Paid(a)' # {}
           /\ sender'[s].step \in MayPay => Payers(a)' # {}
           /\ sender[s].step \in MayPay => Payers(a) # {}
           /\ sender[s].step \in {"ask", "answer"} \cup Storing => Bound(a) # {}
           /\ sender'[s].step \notin {"ask", "answer"} \cup Storing => Bound(a)' \subseteq Bound(a)
<1>1. "idle" \notin MayPay /\ "idle" \notin Storing
      /\ "idle" \notin {"ask", "answer", "version", "insert"}
  BY DEF MayPay, Storing
<1>2. /\ Payers(a)' = IF sender'[s].step \in MayPay THEN Payers(a) \cup {s} ELSE Payers(a) \ {s}
      /\ s \in Payers(a) <=> sender[s].step \in MayPay
  BY <1>1, AmongIs DEF Payers
<1>3. /\ Paid(a)' = IF sender'[s].step \in Storing THEN Paid(a) \cup {s} ELSE Paid(a) \ {s}
      /\ s \in Paid(a) <=> sender[s].step \in Storing
  BY <1>1, AmongIs DEF Paid
<1>4. /\ sender'[s].step \notin {"ask", "answer"} \cup Storing => Bound(a)' = Bound(a) \ {s}
      /\ s \in Bound(a) <=> sender[s].step \in {"ask", "answer"} \cup Storing
  BY <1>1, AmongIs DEF Bound, Storing
<1>5. Payers(a) \subseteq Senders /\ Payers(a)' \subseteq Senders  BY DEF Payers, Among
<1>6. Cardinality(Payers(a)) \in Nat /\ Cardinality(Payers(a))' \in Nat
  BY <1>5, Counting
<1>7. sender[s].step \in MayPay => Cardinality(Payers(a)) >= 1  BY <1>2, <1>5, Counting
<1>8. sender[s].step \in MayPay /\ sender'[s].step \notin MayPay =>
          Cardinality(Payers(a))' = Cardinality(Payers(a)) - 1
  BY <1>2, <1>5, Counting
<1>9. sender[s].step \notin MayPay /\ sender'[s].step \in MayPay =>
          Cardinality(Payers(a))' = Cardinality(Payers(a)) + 1
  BY <1>2, <1>5, Counting
<1> QED  BY <1>2, <1>3, <1>4, <1>6, <1>7, <1>8, <1>9

LEMMA PickAnswers ==
    ASSUME NotesTyped, NEW s \in Senders, NEW a \in Alerts, Pick(s, a), AnswersLeft(a)
    PROVE  AnswersLeft(a)'
<1>1. /\ Turn(s, a) /\ notes' = notes /\ At(s, "idle") /\ sender'[s].step = "latest"
      /\ past'[a] = [past[a] EXCEPT !.shared = @ + IF Held(a) THEN 1 ELSE 0]
  BY PickTurn
<1>2. /\ Cardinality(Payers(a)) \in Nat
      /\ Cardinality(Payers(a))' = Cardinality(Payers(a)) + 1
      /\ Payers(a)' # {} /\ Bound(a)' \subseteq Bound(a)
  BY <1>1, PayersMove DEF At, MayPay, Storing
<1>3. Fresh(a)' <=> Fresh(a)  BY <1>1, FreshIs
<1>4. Excess(a) \in Int /\ past[a] \in Past  BY ExcessIs DEF NotesTyped
<1>5. CASE Held(a)
  <2>1. past'[a] = [past[a] EXCEPT !.shared = @ + 1]  BY <1>1, <1>5
  <2>2. Excess(a)' = Excess(a) + 1  BY <1>4, <2>1 DEF Past, Excess
  <2> QED  BY <1>2, <1>3, <1>4, <2>2 DEF AnswersLeft
<1>6. CASE ~Held(a)
  <2>1. Payers(a) = {} /\ Paid(a) = {} /\ Bound(a) = {}
    BY <1>6 DEF Held, At, Payers, Paid, Bound, Among, MayPay, Storing
  <2>2. Cardinality(Payers(a)) = 0  BY <2>1, FS_EmptySet
  <2>3. past'[a] = past[a]
    <3>1. past'[a] = [past[a] EXCEPT !.shared = @ + 0]  BY <1>1, <1>6
    <3> QED  BY <1>4, <3>1 DEF Past
  <2>4. Excess(a)' = Excess(a)  BY <2>3 DEF Excess
  <2> QED  BY <1>2, <1>3, <1>4, <2>1, <2>2, <2>4 DEF AnswersLeft
<1> QED  BY <1>5, <1>6

\* Steps after which nothing is paid or lost, and a reader is gone or bound
LEMMA LookAnswers ==
    ASSUME NotesTyped, NEW s \in Senders, NEW a \in Alerts, Turn(s, a), AnswersLeft(a),
           notes' = notes, Excess(a)' = Excess(a), sender'[s].step \notin Storing,
           \/ sender[s].step \in MayPay /\ sender'[s].step \notin MayPay
           \/ sender[s].step \in {"ask", "answer"} /\ sender'[s].step \in MayPay
           \/ sender[s].step \in MayPay /\ sender'[s].step \in MayPay /\ ~Fresh(a)
    PROVE  AnswersLeft(a)'
<1>1. Fresh(a)' <=> Fresh(a)  BY FreshIs
<1>2. Excess(a) \in Int  BY ExcessIs
<1>3. Cardinality(Payers(a)) \in Nat /\ Cardinality(Payers(a))' \in Nat
  BY PayersMove
<1>4. CASE sender[s].step \in MayPay /\ sender'[s].step \notin MayPay
  <2>1. /\ Cardinality(Payers(a))' = Cardinality(Payers(a)) - 1 /\ Cardinality(Payers(a)) >= 1
        /\ Bound(a)' \subseteq Bound(a)
    BY <1>4, PayersMove DEF MayPay, Storing
  <2> QED  BY <1>1, <1>2, <1>3, <2>1 DEF AnswersLeft
<1>5. CASE sender[s].step \in {"ask", "answer"} /\ sender'[s].step \in MayPay
  <2>1. Payers(a)' = Payers(a) /\ Payers(a)' # {} /\ Bound(a) # {}
    BY <1>5, PayersMove DEF MayPay
  <2> QED  BY <1>1, <1>2, <1>3, <2>1 DEF AnswersLeft
<1>6. CASE sender[s].step \in MayPay /\ sender'[s].step \in MayPay /\ ~Fresh(a)
  <2>1. Payers(a)' = Payers(a) /\ Payers(a)' # {}
    BY <1>6, PayersMove
  <2> QED  BY <1>1, <1>2, <1>3, <1>6, <2>1 DEF AnswersLeft
<1> QED  BY <1>4, <1>5, <1>6

\* Steps of a sender that cannot pay any more
LEMMA LaterAnswers ==
    ASSUME NotesTyped, NEW s \in Senders, NEW a \in Alerts, Turn(s, a), AnswersLeft(a),
           notes' = notes, Excess(a)' \in {Excess(a), Excess(a) + 1},
           sender[s].step \notin MayPay, sender'[s].step \notin MayPay,
           \/ sender'[s].step \notin Storing /\ Excess(a)' = Excess(a) + 1
           \/ sender[s].step \in Storing /\ sender'[s].step \in Storing
           \/ sender[s].step \notin Storing /\ sender'[s].step \notin Storing
    PROVE  AnswersLeft(a)'
<1>1. Fresh(a)' <=> Fresh(a)  BY FreshIs
<1>2. Excess(a) \in Int  BY ExcessIs
<1>3. Cardinality(Payers(a)) \in Nat /\ Payers(a)' = Payers(a)  BY PayersMove
<1>4. CASE sender'[s].step \notin Storing /\ Excess(a)' = Excess(a) + 1
  BY <1>1, <1>2, <1>3, <1>4 DEF AnswersLeft
<1>5. CASE sender[s].step \in Storing /\ sender'[s].step \in Storing
  <2>1. Paid(a)' = Paid(a) /\ Bound(a) # {}  BY <1>5, PayersMove
  <2> QED  BY <1>1, <1>2, <1>3, <2>1 DEF AnswersLeft
<1>6. CASE sender[s].step \notin Storing /\ sender'[s].step \notin Storing
  <2>1. Paid(a)' = Paid(a) /\ Bound(a)' \subseteq Bound(a)  BY <1>6, PayersMove DEF MayPay
  <2> QED  BY <1>1, <1>2, <1>3, <2>1 DEF AnswersLeft
<1> QED  BY <1>4, <1>5, <1>6

LEMMA AnswerAnswers ==
    ASSUME NotesTyped, NEW s \in Senders, NEW a \in Alerts, Answer(s), a = sender[s].alert,
           AnswersLeft(a)
    PROVE  AnswersLeft(a)'
<1>1. /\ Turn(s, a) /\ At(s, "answer") /\ notes' = notes
      /\ past'[a].shared = past[a].shared /\ past'[a].aged = past[a].aged
      /\ \/ /\ sender'[s].step = "version"
            /\ past'[a].paid = past[a].paid + 1 /\ past'[a].lost = past[a].lost
         \/ /\ sender'[s].step = "text"
            /\ past'[a].paid = past[a].paid + 1 /\ past'[a].lost = past[a].lost + 1
         \/ sender'[s].step = "text" /\ past' = past
  BY AnswerTurn
<1>2. past[a] \in Past /\ Excess(a) \in Int  BY ExcessIs DEF NotesTyped
<1>3. CASE sender'[s].step = "text"
  <2>1. Excess(a)' = Excess(a)  BY <1>1, <1>2, <1>3 DEF Excess, Past
  <2> QED  BY <1>1, <1>3, <2>1, LookAnswers DEF At, MayPay, Storing
<1>4. CASE sender'[s].step = "version"
  <2>1. Excess(a)' = Excess(a) - 1  BY <1>1, <1>2, <1>4 DEF Excess, Past
  <2>2. /\ Cardinality(Payers(a)) \in Nat /\ Cardinality(Payers(a)) >= 1
        /\ Cardinality(Payers(a))' = Cardinality(Payers(a)) - 1
        /\ Paid(a)' # {} /\ Bound(a) # {}
    BY <1>1, <1>4, PayersMove DEF At, MayPay, Storing
  <2> QED  BY <1>2, <2>1, <2>2 DEF AnswersLeft
<1> QED  BY <1>1, <1>3, <1>4

LEMMA LastIs ==
    ASSUME NEW S, NEW m \in Seq(S), NEW n \in S
    PROVE  Append(m, n) # << >> /\ Append(m, n)[Len(Append(m, n))] = n
<1>1. Len(Append(m, n)) = Len(m) + 1 /\ Append(m, n)[Len(m) + 1] = n  OBVIOUS
<1>2. Len(m) \in Nat /\ Len(<< >>) = 0  OBVIOUS
<1> QED  BY <1>1, <1>2

LEMMA InsertAnswers ==
    ASSUME NotesTyped, NEW s \in Senders, NEW a \in Alerts, Insert(s), a = sender[s].alert,
           AnswersLeft(a)
    PROVE  AnswersLeft(a)'
<1>1. /\ Turn(s, a) /\ At(s, "insert") /\ sender'[s].step = "text"
      /\ \/ /\ past' = past
            /\ \E n \in Note : n.old = FALSE /\ notes'[a] = Append(notes[a], n)
         \/ notes' = notes /\ past'[a] = [past[a] EXCEPT !.lost = @ + 1]
  BY InsertTurn
<1>2. past[a] \in Past /\ Excess(a) \in Int /\ notes[a] \in Seq(Note)
  BY ExcessIs DEF NotesTyped
<1>3. sender[s].step \in Storing /\ sender[s].step \notin MayPay
      /\ sender'[s].step \notin Storing /\ sender'[s].step \notin MayPay
  BY <1>1 DEF At, MayPay, Storing
<1>4. CASE notes' = notes /\ past'[a] = [past[a] EXCEPT !.lost = @ + 1]
  <2>1. Excess(a)' = Excess(a) + 1  BY <1>2, <1>4 DEF Excess, Past
  <2> QED  BY <1>1, <1>3, <1>4, <2>1, LaterAnswers
<1>5. ASSUME past' = past, NEW n \in Note, n.old = FALSE, notes'[a] = Append(notes[a], n)
      PROVE  AnswersLeft(a)'
  <2>1. Fresh(a)'
    <3>1. notes'[a] # << >> /\ notes'[a][Len(notes'[a])] = n  BY <1>2, <1>5, LastIs
    <3> QED  BY <1>5, <3>1 DEF Fresh, Latest, ShouldRefresh
  <2>2. Excess(a)' = Excess(a)  BY <1>5 DEF Excess
  <2>3. Cardinality(Payers(a)) \in Nat /\ Payers(a)' = Payers(a) /\ Bound(a) # {}
    BY <1>1, <1>3, PayersMove
  <2> QED  BY <1>2, <2>1, <2>2, <2>3 DEF AnswersLeft
<1> QED  BY <1>1, <1>4, <1>5

LEMMA SenderAnswers ==
    ASSUME NotesTyped, NEW s \in Senders, SenderNext(s), NEW a \in Alerts, AnswersLeft(a)
    PROVE  AnswersLeft(a)'
<1> DEFINE b == sender[s].alert
<1>1. ASSUME NEW c \in Alerts, Pick(s, c)  PROVE AnswersLeft(a)'
  <2>1. CASE a = c  BY <1>1, <2>1, PickAnswers
  <2>2. CASE a # c  BY <1>1, <2>2, PickTurn, OtherAnswers
  <2> QED  BY <2>1, <2>2
<1>2. CASE Answer(s)
  <2>1. CASE a = b  BY <1>2, <2>1, AnswerAnswers
  <2>2. CASE a # b  BY <1>2, <2>2, AnswerTurn, OtherAnswers
  <2> QED  BY <2>1, <2>2
<1>3. CASE Insert(s)
  <2>1. CASE a = b  BY <1>3, <2>1, InsertAnswers
  <2>2. CASE a # b  BY <1>3, <2>2, InsertTurn, OtherAnswers
  <2> QED  BY <2>1, <2>2
<1>4. CASE ReadLatest(s)
  <2>1. CASE a # b  BY <1>4, <2>1, ReadLatestTurn, OtherAnswers
  <2>2. CASE a = b
    <3>1. /\ Turn(s, a) /\ At(s, "latest") /\ notes' = notes /\ past' = past
          /\ \/ sender'[s].step = "ask" /\ ~Fresh(a)
             \/ sender'[s].step \in {"text", "attribute"}
      BY <1>4, <2>2, ReadLatestTurn
    <3>2. Excess(a)' = Excess(a)  BY <3>1 DEF Excess
    <3> QED  BY <3>1, <3>2, LookAnswers DEF At, MayPay, Storing
  <2> QED  BY <2>1, <2>2
<1>5. CASE AskModel(s)
  <2>1. CASE a # b  BY <1>5, <2>1, AskModelTurn, OtherAnswers
  <2>2. CASE a = b
    <3>1. /\ Turn(s, a) /\ At(s, "ask") /\ notes' = notes /\ past' = past
          /\ sender'[s].step \in {"answer", "text"}
      BY <1>5, <2>2, AskModelTurn
    <3>2. Excess(a)' = Excess(a)  BY <3>1 DEF Excess
    <3> QED  BY <3>1, <3>2, LookAnswers DEF At, MayPay, Storing
  <2> QED  BY <2>1, <2>2
<1>6. CASE LoseAnswer(s)
  <2>1. CASE a # b  BY <1>6, <2>1, LoseAnswerTurn, OtherAnswers
  <2>2. CASE a = b
    <3>1. /\ Turn(s, a) /\ sender[s].step \in Storing /\ notes' = notes
          /\ sender'[s].step = "attribute" /\ past'[a] = [past[a] EXCEPT !.lost = @ + 1]
      BY <1>6, <2>2, LoseAnswerTurn
    <3>2. past[a] \in Past  BY DEF NotesTyped
    <3>3. Excess(a)' = Excess(a) + 1  BY <3>1, <3>2 DEF Excess, Past
    <3> QED  BY <3>1, <3>3, LaterAnswers DEF MayPay, Storing
  <2> QED  BY <2>1, <2>2
<1>7. CASE LatestVersion(s)
  <2>1. CASE a # b  BY <1>7, <2>1, LatestVersionTurn, OtherAnswers
  <2>2. CASE a = b
    <3>1. /\ Turn(s, a) /\ At(s, "version") /\ notes' = notes /\ past' = past
          /\ sender'[s].step = "insert"
      BY <1>7, <2>2, LatestVersionTurn
    <3>2. Excess(a)' = Excess(a)  BY <3>1 DEF Excess
    <3> QED  BY <3>1, <3>2, LaterAnswers DEF At, MayPay, Storing
  <2> QED  BY <2>1, <2>2
<1>8. CASE LatestText(s)
  <2>1. CASE a # b  BY <1>8, <2>1, LatestTextTurn, OtherAnswers
  <2>2. CASE a = b
    <3>1. /\ Turn(s, a) /\ At(s, "text") /\ notes' = notes /\ past' = past
          /\ sender'[s].step = "attribute"
      BY <1>8, <2>2, LatestTextTurn
    <3>2. Excess(a)' = Excess(a)  BY <3>1 DEF Excess
    <3> QED  BY <3>1, <3>2, LaterAnswers DEF At, MayPay, Storing
  <2> QED  BY <2>1, <2>2
<1>9. CASE WriteAttribution(s)
  <2>1. CASE a # b  BY <1>9, <2>1, WriteAttributionTurn, OtherAnswers
  <2>2. CASE a = b
    <3>1. /\ Turn(s, a) /\ At(s, "attribute") /\ notes' = notes /\ sender'[s].step = "send"
          /\ \E x \in BOOLEAN : past'[a] = [past[a] EXCEPT !.unwritten = x]
      BY <1>9, <2>2, WriteAttributionTurn
    <3>2. past[a] \in Past  BY DEF NotesTyped
    <3>3. Excess(a)' = Excess(a)  BY <3>1, <3>2 DEF Excess, Past
    <3> QED  BY <3>1, <3>3, LaterAnswers DEF At, MayPay, Storing
  <2> QED  BY <2>1, <2>2
<1>10. CASE Deliver(s)
  <2>1. CASE a # b  BY <1>10, <2>1, DeliverTurn, OtherAnswers
  <2>2. CASE a = b
    <3> DEFINE x == past[a].seen \/
                    Reaches(router, SurfaceOf(KindOf[a]), Body(a, sender[s].note)) # Nobody
    <3>1. /\ Turn(s, a) /\ At(s, "send") /\ notes' = notes /\ sender'[s] = NoSend
          /\ past' = past \/ past'[a] = [past[a] EXCEPT !.seen = x]
      BY <1>10, <2>2, DeliverTurn
    <3> HIDE DEF x
    <3>2. past[a] \in Past  BY DEF NotesTyped
    <3>3. Excess(a)' = Excess(a)  BY <3>1, <3>2 DEF Excess, Past
    <3> QED  BY <3>1, <3>3, LaterAnswers DEF At, MayPay, Storing, NoSend
  <2> QED  BY <2>1, <2>2
<1> QED  BY <1>1, <1>2, <1>3, <1>4, <1>5, <1>6, <1>7, <1>8, <1>9, <1>10 DEF SenderNext

-----------------------------------------------------------------------------
(* What a sender carries *)

\* A step of a sender that has an alert
OwnTurn(s, a) ==
    /\ Turn(s, a) /\ ~At(s, "idle") /\ a = sender[s].alert
    /\ past'[a].shared = past[a].shared

LEMMA SenderTurn ==
    ASSUME NotesTyped, NEW s \in Senders, SenderNext(s)
    PROVE  /\ NotesTyped'
           /\ \E a \in Alerts : Pick(s, a) \/ OwnTurn(s, a)
<1> DEFINE b == sender[s].alert
<1>1. ASSUME NEW c \in Alerts, Pick(s, c)  PROVE NotesTyped'  BY <1>1, PickTurn
<1>2. CASE ReadLatest(s)  BY <1>2, ReadLatestTurn DEF OwnTurn, At, Turn
<1>3. CASE AskModel(s)  BY <1>3, AskModelTurn DEF OwnTurn, At, Turn
<1>4. CASE Answer(s)  BY <1>4, AnswerTurn DEF OwnTurn, At, Turn
<1>5. CASE LoseAnswer(s)
  <2>1. /\ NotesTyped' /\ Turn(s, b) /\ sender[s].step \in Storing
        /\ past'[b] = [past[b] EXCEPT !.lost = @ + 1]
    BY <1>5, LoseAnswerTurn
  <2>2. b \in Alerts /\ past[b] \in Past  BY <2>1 DEF Turn, NotesTyped
  <2>3. past'[b].shared = past[b].shared  BY <2>1, <2>2 DEF Past
  <2> QED  BY <2>1, <2>2, <2>3 DEF OwnTurn, At, Storing
<1>6. CASE LatestVersion(s)  BY <1>6, LatestVersionTurn DEF OwnTurn, At, Turn
<1>7. CASE Insert(s)
  <2>1. /\ NotesTyped' /\ Turn(s, b) /\ At(s, "insert")
        /\ past' = past \/ past'[b] = [past[b] EXCEPT !.lost = @ + 1]
    BY <1>7, InsertTurn
  <2>2. b \in Alerts /\ past[b] \in Past  BY <2>1 DEF Turn, NotesTyped
  <2>3. past'[b].shared = past[b].shared  BY <2>1, <2>2 DEF Past
  <2> QED  BY <2>1, <2>2, <2>3 DEF OwnTurn, At
<1>8. CASE LatestText(s)  BY <1>8, LatestTextTurn DEF OwnTurn, At, Turn
<1>9. CASE WriteAttribution(s)
  <2>1. /\ NotesTyped' /\ Turn(s, b) /\ At(s, "attribute")
        /\ \E x \in BOOLEAN : past'[b] = [past[b] EXCEPT !.unwritten = x]
    BY <1>9, WriteAttributionTurn
  <2>2. b \in Alerts /\ past[b] \in Past  BY <2>1 DEF Turn, NotesTyped
  <2>3. past'[b].shared = past[b].shared  BY <2>1, <2>2 DEF Past
  <2> QED  BY <2>1, <2>2, <2>3 DEF OwnTurn, At
<1>10. CASE Deliver(s)
  <2> DEFINE x == past[b].seen \/
                  Reaches(router, SurfaceOf(KindOf[b]), Body(b, sender[s].note)) # Nobody
  <2>1. /\ NotesTyped' /\ Turn(s, b) /\ At(s, "send")
        /\ past' = past \/ past'[b] = [past[b] EXCEPT !.seen = x]
    BY <1>10, DeliverTurn
  <2> HIDE DEF x
  <2>2. b \in Alerts /\ past[b] \in Past  BY <2>1 DEF Turn, NotesTyped
  <2>3. past'[b].shared = past[b].shared  BY <2>1, <2>2 DEF Past
  <2> QED  BY <2>1, <2>2, <2>3 DEF OwnTurn, At
<1> QED  BY <1>1, <1>2, <1>3, <1>4, <1>5, <1>6, <1>7, <1>8, <1>9, <1>10 DEF SenderNext

LEMMA AlertOf ==
    ASSUME NotesTyped, NEW s \in Senders, sender[s].step # "idle"
    PROVE  sender[s].alert \in Alerts /\ past[sender[s].alert] \in Past
           /\ notes[sender[s].alert] \in Seq(Note)
<1>1. sender[s] \in Sends  BY SendIs DEF At
<1> QED  BY <1>1 DEF Sends, NotesTyped

LEMMA SenderOneSend ==
    ASSUME NotesTyped, NotesTyped', NEW s \in Senders, SenderNext(s), OneSend
    PROVE  OneSend'
<1>1. PICK a \in Alerts : Pick(s, a) \/ OwnTurn(s, a)  BY SenderTurn
<1> SUFFICES ASSUME NEW t \in Senders, NEW u \in Senders,
                    sender'[t].step # "idle", sender'[u].step # "idle",
                    sender'[t].alert = sender'[u].alert, past'[sender'[t].alert].shared = 0
             PROVE  t = u
  BY DEF OneSend, At
<1>0. sender'[t].alert \in Alerts
  <2>1. sender'[t] \in Sends  BY DEF NotesTyped, NoSend
  <2> QED  BY <2>1 DEF Sends
<1>2. CASE Pick(s, a)
  <2>1. Turn(s, a) /\ At(s, "idle") /\ sender'[s].step = "latest"
        /\ past'[a] = [past[a] EXCEPT !.shared = @ + IF Held(a) THEN 1 ELSE 0]
    BY <1>2, PickTurn
  <2>2. past[a] \in Past  BY DEF NotesTyped
  <2>3. CASE t # s /\ u # s
    <3>1. sender'[t] = sender[t] /\ sender'[u] = sender[u]  BY <2>1, <2>3 DEF Turn
    <3>2. past[sender[t].alert].shared = 0
      <4>1. CASE sender[t].alert = a
        <5>1. Held(a)  BY <3>1, <4>1 DEF Held, At
        <5>2. past'[a] = [past[a] EXCEPT !.shared = @ + 1]  BY <2>1, <5>1
        <5>3. past'[a].shared = past[a].shared + 1 /\ past[a].shared \in Nat
          BY <2>2, <5>2 DEF Past
        <5> QED  BY <3>1, <4>1, <5>3
      <4>2. CASE sender[t].alert # a  BY <1>0, <2>1, <3>1, <4>2 DEF Turn
      <4> QED  BY <4>1, <4>2
    <3> QED  BY <3>1, <3>2 DEF OneSend, At
  <2>4. CASE t = s \/ u = s
    <3>1. SUFFICES ASSUME t # u  PROVE FALSE  OBVIOUS
    <3>2. PICK w \in {t, u} : w # s  BY <3>1
    <3>3. sender'[s].alert = a /\ sender'[w] = sender[w] /\ sender'[t].alert = a
      BY <2>1, <2>4, <3>2 DEF Turn
    <3>4. Held(a)  BY <3>2, <3>3 DEF Held, At
    <3>5. past'[a] = [past[a] EXCEPT !.shared = @ + 1]  BY <2>1, <3>4
    <3>6. past'[a].shared = past[a].shared + 1 /\ past[a].shared \in Nat
      BY <2>2, <3>5 DEF Past
    <3> QED  BY <3>3, <3>6
  <2> QED  BY <2>3, <2>4
<1>3. CASE OwnTurn(s, a)
  <2>1. /\ sender[t].step # "idle" /\ sender[t].alert = sender'[t].alert
        /\ sender[u].step # "idle" /\ sender[u].alert = sender'[u].alert
    BY <1>3 DEF OwnTurn, Turn, At
  <2>2. past[sender[t].alert].shared = 0  BY <1>0, <1>3, <2>1 DEF OwnTurn, Turn
  <2> QED  BY <2>1, <2>2 DEF OneSend, At
<1> QED  BY <1>1, <1>2, <1>3

\* Nobody else's load changes.
LEMMA OthersCarry ==
    ASSUME NotesTyped, NotesTyped', NEW s \in Senders, SenderNext(s), OneSend, OneSend',
           NEW t \in Senders \ {s}, Carries(t)
    PROVE  Carries(t)'
<1>1. PICK a \in Alerts : Pick(s, a) \/ OwnTurn(s, a)  BY SenderTurn
<1>2. Turn(s, a)  BY <1>1, PickTurn DEF OwnTurn
<1>3. sender'[t] = sender[t]  BY <1>2 DEF Turn
<1> SUFFICES ASSUME sender[t].step # "idle", past'[sender[t].alert].shared = 0
             PROVE  Carries(t)'
  BY <1>3 DEF Carries, At
<1>4. sender[t].alert \in Alerts  BY AlertOf
<1>5. sender[t].alert # a
  <2>1. SUFFICES ASSUME sender[t].alert = a  PROVE FALSE  OBVIOUS
  <2>2. CASE Pick(s, a)
    <3>1. sender'[s].step = "latest" /\ sender'[s].alert = a
      BY <1>2, <2>2, PickTurn DEF Turn
    <3> QED  BY <1>3, <2>1, <3>1 DEF OneSend, At
  <2>3. CASE OwnTurn(s, a)
    <3>1. past[a].shared = 0  BY <2>1, <2>3 DEF OwnTurn
    <3> QED  BY <2>1, <2>3, <3>1 DEF OwnTurn, OneSend, At
  <2> QED  BY <1>1, <2>2, <2>3
<1>6. LET b == sender[t].alert IN
      notes'[b] = notes[b] /\ past'[b] = past[b] /\ attribution'[b] = attribution[b]
  BY <1>2, <1>4, <1>5 DEF Turn
<1> QED  BY <1>3, <1>6 DEF Carries, OfLatest, Latest, At

LEMMA SenderNothingYet ==
    ASSUME NotesTyped, NEW s \in Senders, SenderNext(s), NothingYet
    PROVE  NothingYet'
<1> DEFINE Blank(t) == /\ sender[t].step \in MayPay => sender[t].verdict = NoVerdict
                       /\ ~At(t, "idle") /\ sender[t].step \notin {"attribute", "send"} =>
                             sender[t].note = 0
<1>0. \A t \in Senders : Blank(t)  BY DEF NothingYet
<1>1. PICK a \in Alerts : Turn(s, a)  BY SenderTurn, PickTurn DEF OwnTurn
<1>2. \A t \in Senders \ {s} : Blank(t)'  BY <1>0, <1>1 DEF Turn, At
<1>3. Blank(s)'
  <2> USE <1>0 DEF MayPay, At
  <2>1. ASSUME NEW c \in Alerts, Pick(s, c)  PROVE Blank(s)'  BY <2>1, PickTurn
  <2>2. CASE ReadLatest(s)  BY <2>2, ReadLatestTurn
  <2>3. CASE AskModel(s)  BY <2>3, AskModelTurn
  <2>4. CASE Answer(s)  BY <2>4, AnswerTurn
  <2>5. CASE LoseAnswer(s)  BY <2>5, LoseAnswerTurn
  <2>6. CASE LatestVersion(s)  BY <2>6, LatestVersionTurn
  <2>7. CASE Insert(s)  BY <2>7, InsertTurn
  <2>8. CASE LatestText(s)  BY <2>8, LatestTextTurn
  <2>9. CASE WriteAttribution(s)  BY <2>9, WriteAttributionTurn
  <2>10. CASE Deliver(s)  BY <2>10, DeliverEnds
  <2> QED  BY <2>1, <2>2, <2>3, <2>4, <2>5, <2>6, <2>7, <2>8, <2>9, <2>10 DEF SenderNext
<1> HIDE DEF Blank
<1>4. \A t \in Senders : Blank(t)'  BY <1>2, <1>3
<1> QED  BY <1>4 DEF NothingYet, Blank

LEMMA SenderCarries ==
    ASSUME NotesTyped, NotesTyped', NEW s \in Senders, SenderNext(s), OneSend, OneSend',
           NothingYet, CarriesLatest
    PROVE  CarriesLatest'
<1> DEFINE b == sender[s].alert
<1>1. \A t \in Senders \ {s} : Carries(t)'  BY OthersCarry DEF CarriesLatest
<1>2. Carries(s)  BY DEF CarriesLatest
<1>3. ~At(s, "idle") /\ sender[s].step \notin {"attribute", "send"} => sender[s].note = 0
  BY DEF NothingYet
<1>4. sender[s].step \in MayPay => sender[s].verdict = NoVerdict  BY DEF NothingYet
\* A step that keeps the alert's notes and history
<1>5. ASSUME Turn(s, b), ~At(s, "idle"), notes' = notes, past'[b].shared = past[b].shared,
             sender'[s].note \in {0, Len(notes[b])},
             sender'[s].step \in {"text", "attribute"} => OfLatest(b, sender'[s].verdict),
             sender'[s].step # "send"
      PROVE  Carries(s)'
  <2>1. sender'[s].step # "idle" => sender'[s].alert = b  BY <1>5 DEF Turn
  <2> QED  BY <1>5, <2>1 DEF Carries, OfLatest, Latest, At
<1>6. OfLatest(b, NoVerdict)  BY DEF OfLatest
<1>7. Carries(s)'
  <2>1. ASSUME NEW c \in Alerts, Pick(s, c)  PROVE Carries(s)'
    <3>1. sender'[s].step = "latest" /\ sender'[s].note = 0  BY <2>1, PickTurn
    <3> QED  BY <3>1 DEF Carries, At
  <2>2. CASE ReadLatest(s)
    <3>1. /\ Turn(s, b) /\ At(s, "latest") /\ notes' = notes /\ past' = past
          /\ sender'[s].note = sender[s].note
          /\ \/ Fresh(b) /\ sender'[s].step = "text" /\ sender'[s].verdict = Latest(b).verdict
             \/ sender'[s].step = "ask"
             \/ sender'[s].step = "attribute" /\ sender'[s].verdict = sender[s].verdict
      BY <2>2, ReadLatestTurn
    <3>2. sender'[s].step \in {"text", "attribute"} => OfLatest(b, sender'[s].verdict)
      BY <1>4, <3>1 DEF OfLatest, Fresh, At, MayPay
    <3> QED  BY <1>3, <1>5, <3>1, <3>2 DEF At
  <2>3. CASE AskModel(s)
    <3>1. /\ Turn(s, b) /\ At(s, "ask") /\ notes' = notes /\ past' = past
          /\ sender'[s].note = sender[s].note /\ sender'[s].verdict = sender[s].verdict
          /\ sender'[s].step \in {"answer", "text"}
      BY <2>3, AskModelTurn
    <3> QED  BY <1>3, <1>4, <1>5, <1>6, <3>1 DEF At, MayPay
  <2>4. CASE Answer(s)
    <3>1. /\ Turn(s, b) /\ At(s, "answer") /\ notes' = notes /\ past'[b].shared = past[b].shared
          /\ sender'[s].note = sender[s].note
          /\ \/ sender'[s].step = "version"
             \/ sender'[s].step = "text" /\ sender'[s].verdict = sender[s].verdict
      BY <2>4, AnswerTurn
    <3> QED  BY <1>3, <1>4, <1>5, <1>6, <3>1 DEF At, MayPay
  <2>5. CASE LoseAnswer(s)
    <3>1. /\ Turn(s, b) /\ sender[s].step \in Storing /\ notes' = notes
          /\ sender'[s].note = sender[s].note /\ sender'[s].step = "attribute"
          /\ sender'[s].verdict = NoVerdict
          /\ past'[b] = [past[b] EXCEPT !.lost = @ + 1]
      BY <2>5, LoseAnswerTurn
    <3>2. ~At(s, "idle") /\ sender[s].step \notin {"attribute", "send"}
      BY <3>1 DEF At, Storing
    <3>3. past'[b].shared = past[b].shared
      <4>1. past[b] \in Past  BY <3>2, AlertOf DEF At
      <4> QED  BY <3>1, <4>1 DEF Past
    <3> QED  BY <1>3, <1>5, <1>6, <3>1, <3>2, <3>3
  <2>6. CASE LatestVersion(s)
    <3>1. /\ Turn(s, b) /\ At(s, "version") /\ notes' = notes /\ past' = past
          /\ sender'[s].note = sender[s].note /\ sender'[s].step = "insert"
      BY <2>6, LatestVersionTurn
    <3> QED  BY <1>3, <1>5, <3>1 DEF At
  <2>7. CASE Insert(s)
    <3>1. /\ Turn(s, b) /\ At(s, "insert") /\ sender'[s].step = "text"
          /\ sender'[s].note = sender[s].note
          /\ \/ /\ sender'[s].verdict = sender[s].verdict
                /\ \E n \in Note : n.verdict = sender[s].verdict
                                   /\ notes'[b] = Append(notes[b], n)
             \/ /\ sender'[s].verdict = NoVerdict
      BY <2>7, InsertTurn
    <3>2. sender'[s].note = 0 /\ sender'[s].alert = b /\ notes[b] \in Seq(Note)
      BY <1>3, <3>1, AlertOf DEF At, Turn
    <3>3. CASE sender'[s].verdict = NoVerdict
      BY <3>1, <3>2, <3>3 DEF Carries, OfLatest, At
    <3>4. ASSUME NEW n \in Note, n.verdict = sender'[s].verdict, notes'[b] = Append(notes[b], n)
          PROVE  Carries(s)'
      <4>1. notes'[b] # << >> /\ notes'[b][Len(notes'[b])] = n  BY <3>2, <3>4, LastIs
      <4>2. OfLatest(sender[s].alert, sender[s].verdict)'
        BY <3>2, <3>4, <4>1 DEF OfLatest, Latest
      <4> QED  BY <3>1, <3>2, <4>2 DEF Carries, At
    <3> QED  BY <3>1, <3>3, <3>4
  <2>8. CASE LatestText(s)
    <3>1. /\ Turn(s, b) /\ At(s, "text") /\ notes' = notes /\ past' = past
          /\ sender'[s].step = "attribute" /\ sender'[s].verdict = sender[s].verdict
          /\ sender'[s].note \in {sender[s].note, Len(notes[b])}
      BY <2>8, LatestTextTurn
    <3>2. sender'[s].note \in {0, Len(notes[b])}  BY <1>3, <3>1 DEF At
    <3>3. sender'[s].alert = b  BY <3>1 DEF Turn
    <3> QED  BY <1>2, <3>1, <3>2, <3>3 DEF Carries, OfLatest, Latest, At
  <2>9. CASE WriteAttribution(s)
    <3>1. /\ Turn(s, b) /\ At(s, "attribute") /\ notes' = notes
          /\ sender'[s].step = "send" /\ sender'[s].note = sender[s].note
          /\ attribution'[b] = sender[s].verdict \/ past'[b].unwritten
          /\ \E x \in BOOLEAN : past'[b] = [past[b] EXCEPT !.unwritten = x]
      BY <2>9, WriteAttributionTurn
    <3>2. past[b] \in Past  BY <3>1, AlertOf DEF At
    <3>3. past'[b].shared = past[b].shared  BY <3>1, <3>2 DEF Past
    <3>4. sender'[s].alert = b  BY <3>1 DEF Turn
    <3> QED  BY <1>2, <3>1, <3>3, <3>4 DEF Carries, OfLatest, Latest, At
  <2>10. CASE Deliver(s)
    <3>1. sender'[s].step = "idle"  BY <2>10, DeliverEnds
    <3> QED  BY <3>1 DEF Carries, At
  <2> QED  BY <2>1, <2>2, <2>3, <2>4, <2>5, <2>6, <2>7, <2>8, <2>9, <2>10 DEF SenderNext
<1> QED  BY <1>1, <1>7 DEF CarriesLatest

\* The versions of an alert stay, with their marks.
Longer(m, n) ==
    /\ Len(m) <= Len(n)
    /\ \A i \in 1 .. Len(m) : n[i].marks = m[i].marks /\ n[i].verdict = m[i].verdict

LEMMA NotesGrow ==
    ASSUME NotesTyped, NEW s \in Senders, SenderNext(s), NEW a \in Alerts
    PROVE  Longer(notes[a], notes'[a])
<1> DEFINE b == sender[s].alert
<1>0. notes[a] \in Seq(Note)  BY DEF NotesTyped
<1>1. CASE notes'[a] = notes[a]  BY <1>0, <1>1 DEF Longer
<1>2. ASSUME NEW n \in Note, notes'[a] = Append(notes[a], n)  PROVE Longer(notes[a], notes'[a])
  BY <1>0, <1>2 DEF Longer
<1>3. CASE Insert(s)
  <2>1. /\ Turn(s, b)
        /\ notes' = notes \/ \E n \in Note : notes'[b] = Append(notes[b], n)
    BY <1>3, InsertTurn
  <2>2. CASE a = b  BY <1>1, <1>2, <2>1, <2>2
  <2>3. CASE a # b  BY <1>1, <2>1, <2>3 DEF Turn
  <2> QED  BY <2>2, <2>3
<1>4. CASE ~Insert(s)
  BY <1>1, <1>4 DEF SenderNext, Pick, ReadLatest, AskModel, Answer, LoseAnswer, LatestVersion,
                    LatestText, WriteAttribution, Deliver
<1> QED  BY <1>3, <1>4

LEMMA SenderNotesExist ==
    ASSUME NotesTyped, NotesTyped', NEW s \in Senders, SenderNext(s), NothingYet', NotesExist
    PROVE  NotesExist'
<1> SUFFICES ASSUME NEW t \in Senders, sender'[t].step # "idle"
             PROVE  sender'[t].note <= Len(notes'[sender'[t].alert])
  BY DEF NotesExist, At
<1>0. sender'[t] \in Sends /\ sender'[t].alert \in Alerts
  <2>1. sender'[t] \in Sends  BY DEF NotesTyped, NoSend
  <2> QED  BY <2>1 DEF Sends
<1>1. PICK a \in Alerts : Pick(s, a) \/ OwnTurn(s, a)  BY SenderTurn
<1>2. Turn(s, a)  BY <1>1, PickTurn DEF OwnTurn
<1>3. Longer(notes[sender'[t].alert], notes'[sender'[t].alert])  BY <1>0, NotesGrow
<1>4. notes[sender'[t].alert] \in Seq(Note) /\ notes'[sender'[t].alert] \in Seq(Note)
  BY <1>0 DEF NotesTyped
<1>5. CASE sender'[t].note = 0  BY <1>4, <1>5
<1>6. CASE sender[t].step # "idle" /\ sender'[t].alert = sender[t].alert
           /\ sender'[t].note = sender[t].note
  <2>1. sender[t].note <= Len(notes[sender[t].alert])  BY <1>6 DEF NotesExist, At
  <2>2. sender'[t].note \in Nat  BY <1>0 DEF Sends
  <2> QED  BY <1>3, <1>4, <1>6, <2>1, <2>2 DEF Longer
<1>7. CASE t = s /\ LatestText(s)
  <2>1. /\ Turn(s, sender[s].alert) /\ At(s, "text") /\ notes' = notes
        /\ sender'[s].note \in {sender[s].note, Len(notes[sender[s].alert])}
        /\ sender'[s].step = "attribute"
    BY <1>7, LatestTextTurn
  <2>2. sender'[s].alert = sender[s].alert  BY <2>1 DEF Turn
  <2>3. sender[s].note <= Len(notes[sender[s].alert])  BY <2>1 DEF NotesExist, At
  <2> QED  BY <1>4, <1>7, <2>1, <2>2, <2>3
<1>8. CASE t # s  BY <1>2, <1>6, <1>8 DEF Turn
<1>9. CASE t = s /\ ~LatestText(s)
  <2>1. CASE sender'[s].step \notin {"attribute", "send"}
    BY <1>5, <1>9, <2>1 DEF NothingYet, At
  <2>2. CASE ReadLatest(s) \/ LoseAnswer(s) \/ WriteAttribution(s)
    BY <1>6, <1>9, <2>2, ReadLatestTurn, LoseAnswerTurn, WriteAttributionTurn
       DEF Turn, At, Storing
  <2>3. CASE sender'[s].step \in {"attribute", "send"}
    <3>1. \A c \in Alerts : ~Pick(s, c)  BY <2>3, PickTurn
    <3>2. ~AskModel(s)  BY <2>3, AskModelTurn
    <3>3. ~Answer(s)  BY <2>3, AnswerTurn
    <3>4. ~LatestVersion(s)  BY <2>3, LatestVersionTurn
    <3>5. ~Insert(s)  BY <2>3, InsertTurn
    <3>6. ~Deliver(s)  BY <2>3, DeliverEnds
    <3> QED  BY <1>9, <2>2, <3>1, <3>2, <3>3, <3>4, <3>5, <3>6 DEF SenderNext
  <2> QED  BY <2>1, <2>3
<1> QED  BY <1>7, <1>8, <1>9

-----------------------------------------------------------------------------
(* The way to the chat *)

WasSeen(a) ==
    alert[a] = "sent" /\ ~past[a].seen =>
        \E note \in 0 .. Len(notes[a]) : Suppressed(router, router.signal, Body(a, note))

LEMMA BodyStays ==
    ASSUME NEW a \in Alerts, notes[a] \in Seq(Note), Longer(notes[a], notes'[a]),
           NEW note \in 0 .. Len(notes[a])
    PROVE  Body(a, note)' = Body(a, note)
<1>1. CASE note = 0  BY <1>1 DEF Body
<1>2. CASE note # 0
  <2>1. note \in 1 .. Len(notes[a])  BY <1>2
  <2>2. notes'[a][note].marks = notes[a][note].marks  BY <2>1 DEF Longer
  <2> QED  BY <1>2, <2>2 DEF Body
<1> QED  BY <1>1, <1>2

LEMMA SeenStays ==
    ASSUME NotesTyped, NotesTyped', NEW a \in Alerts, Longer(notes[a], notes'[a]), router' = router,
           alert'[a] = "sent" => alert[a] = "sent", past[a].seen => past'[a].seen, WasSeen(a)
    PROVE  WasSeen(a)'
<1> SUFFICES ASSUME alert'[a] = "sent", ~past'[a].seen
             PROVE  \E note \in 0 .. Len(notes'[a]) :
                       Suppressed(router', router'.signal, Body(a, note)')
  BY DEF WasSeen
<1>1. PICK note \in 0 .. Len(notes[a]) : Suppressed(router, router.signal, Body(a, note))
  BY DEF WasSeen
<1>2. notes[a] \in Seq(Note) /\ notes'[a] \in Seq(Note)  BY DEF NotesTyped
<1>3. note \in 0 .. Len(notes'[a])  BY <1>2 DEF Longer
<1>4. Body(a, note)' = Body(a, note)  BY <1>2, BodyStays
<1> QED  BY <1>1, <1>3, <1>4

\* What carries an alert's surface and goes nowhere was dropped for its marks.
LEMMA DroppedForMarks ==
    ASSUME RouteInv, NEW kind, NEW marks, Reaches(router, SurfaceOf(kind), marks) = Nobody
    PROVE  Suppressed(router, router.signal, marks)
<1>1. router.signal # Nobody  BY RouteAssumption DEF RouteInv
<1>2. SurfaceOf(kind) \in SignalSurfaces  BY DEF SurfaceOf, SignalSurfaces
<1>3. Route(router, SurfaceOf(kind)) = router.signal  BY <1>2 DEF Route, IsSignalSurface
<1> HIDE DEF Suppressed
<1> QED  BY <1>1, <1>3 DEF Reaches

LEMMA DeliverSeen ==
    ASSUME NotesTyped, NotesTyped', RouteInv, NEW s \in Senders, Deliver(s), router' = router,
           NEW a \in Alerts, a = sender[s].alert, NEW n, n = sender[s].note, WasSeen(a), NotesExist
    PROVE  WasSeen(a)'
<1> DEFINE reached == Reaches(router, SurfaceOf(KindOf[a]), Body(a, n)) # Nobody
<1>0. past[a] \in Past /\ past \in [Alerts -> Past] /\ notes[a] \in Seq(Note)  BY DEF NotesTyped
<1>1. /\ At(s, "send") /\ notes' = notes
      /\ alert'[a] = "sent" => alert[a] = "sent" \/ Accepted(a, n)
      /\ past' = past \/ past'[a] = [past[a] EXCEPT !.seen = @ \/ reached]
  BY DeliverTurn
<1>2. n \in 0 .. Len(notes[a])
  <2>1. sender[s] \in Sends  BY <1>1, SendIs DEF At
  <2>2. n \in Nat  BY <2>1 DEF Sends
  <2>3. n <= Len(notes[a])  BY <1>1 DEF NotesExist, At
  <2> QED  BY <1>0, <2>2, <2>3
<1>3. Longer(notes[a], notes'[a])  BY <1>0, <1>1 DEF Longer
<1>4. Accepted(a, n) => past'[a].seen = (past[a].seen \/ reached)
  <2>1. Accepted(a, n) => past'[a] = [past[a] EXCEPT !.seen = past[a].seen \/ reached]
    BY <1>0 DEF Accepted
  <2> HIDE DEF reached
  <2> QED  BY <1>0, <2>1 DEF Past
<1>5. past[a].seen => past'[a].seen
  <2> HIDE DEF reached
  <2> QED  BY <1>0, <1>1 DEF Past
<1>6. CASE alert'[a] = "sent" => alert[a] = "sent"
  BY <1>3, <1>5, <1>6, SeenStays
<1>7. CASE Accepted(a, n)
  <2>1. SUFFICES ASSUME ~past'[a].seen
                 PROVE  Suppressed(router', router'.signal, Body(a, n)')
    BY <1>1, <1>2 DEF WasSeen
  <2>2. Reaches(router, SurfaceOf(KindOf[a]), Body(a, n)) = Nobody  BY <1>4, <1>7, <2>1
  <2>3. Suppressed(router, router.signal, Body(a, n))  BY <2>2, DroppedForMarks
  <2>4. Body(a, n)' = Body(a, n)  BY <1>0, <1>1, <1>2 DEF Body
  <2> QED  BY <2>3, <2>4
<1> QED  BY <1>1, <1>6, <1>7

LEMMA SenderSeen ==
    ASSUME NotesTyped, NotesTyped', RouteInv, NEW s \in Senders, SenderNext(s), router' = router,
           NEW a \in Alerts, WasSeen(a), NotesExist
    PROVE  WasSeen(a)'
<1> DEFINE b == sender[s].alert
<1>0. Longer(notes[a], notes'[a]) /\ past[a] \in Past /\ alert \in [Alerts -> {"ready", "out", "sent", "failed"}]
  BY NotesGrow DEF NotesTyped
<1>1. CASE Deliver(s)
  <2>1. CASE a = b  BY <1>1, <2>1, DeliverSeen
  <2>2. CASE a # b
    <3>1. Turn(s, b)  BY <1>1, DeliverEnds
    <3>2. alert'[a] = alert[a] /\ past'[a] = past[a]  BY <2>2, <3>1 DEF Turn
    <3> QED  BY <1>0, <3>2, SeenStays
  <2> QED  BY <2>1, <2>2
<1>2. ASSUME NEW c \in Alerts, Pick(s, c)  PROVE WasSeen(a)'
  <2>1. CASE a = c
    <3>1. alert'[a] = "out"  BY <1>2, <2>1, PickTurn
    <3> QED  BY <3>1 DEF WasSeen
  <2>2. CASE a # c
    <3>1. Turn(s, c)  BY <1>2, PickTurn
    <3>2. alert'[a] = alert[a] /\ past'[a] = past[a]  BY <2>2, <3>1 DEF Turn
    <3> QED  BY <1>0, <3>2, SeenStays
  <2> QED  BY <2>1, <2>2
\* The other steps leave the row alone, and forget nothing.
<1>3. CASE alert' = alert /\ past'[a].seen = past[a].seen
  BY <1>0, <1>3, SeenStays
<1>4. CASE ReadLatest(s)  BY <1>3, <1>4, ReadLatestTurn
<1>5. CASE AskModel(s)  BY <1>3, <1>5, AskModelTurn
<1>6. CASE LatestVersion(s)  BY <1>3, <1>6, LatestVersionTurn
<1>7. CASE LatestText(s)  BY <1>3, <1>7, LatestTextTurn
<1>8. CASE Answer(s)
  <2>1. Turn(s, b) /\ alert' = alert /\ past'[b].seen = past[b].seen  BY <1>8, AnswerTurn
  <2> QED  BY <1>3, <2>1 DEF Turn
<1>9. CASE LoseAnswer(s)
  <2>1. Turn(s, b) /\ alert' = alert /\ past'[b] = [past[b] EXCEPT !.lost = @ + 1]
    BY <1>9, LoseAnswerTurn
  <2>2. past'[a].seen = past[a].seen
    <3>1. CASE a = b  BY <1>0, <2>1, <3>1 DEF Past
    <3>2. CASE a # b  BY <2>1, <3>2 DEF Turn
    <3> QED  BY <3>1, <3>2
  <2> QED  BY <1>3, <2>1, <2>2
<1>10. CASE Insert(s)
  <2>1. /\ Turn(s, b) /\ alert' = alert
        /\ past' = past \/ past'[b] = [past[b] EXCEPT !.lost = @ + 1]
    BY <1>10, InsertTurn
  <2>2. past'[a].seen = past[a].seen
    <3>1. CASE a = b  BY <1>0, <2>1, <3>1 DEF Past
    <3>2. CASE a # b  BY <2>1, <3>2 DEF Turn
    <3> QED  BY <3>1, <3>2
  <2> QED  BY <1>3, <2>1, <2>2
<1>11. CASE WriteAttribution(s)
  <2>1. /\ Turn(s, b) /\ alert' = alert
        /\ \E x \in BOOLEAN : past'[b] = [past[b] EXCEPT !.unwritten = x]
    BY <1>11, WriteAttributionTurn
  <2>2. past'[a].seen = past[a].seen
    <3>1. CASE a = b  BY <1>0, <2>1, <3>1 DEF Past
    <3>2. CASE a # b  BY <2>1, <3>2 DEF Turn
    <3> QED  BY <3>1, <3>2
  <2> QED  BY <1>3, <2>1, <2>2
<1> QED  BY <1>1, <1>2, <1>4, <1>5, <1>6, <1>7, <1>8, <1>9, <1>10, <1>11 DEF SenderNext

-----------------------------------------------------------------------------
(* Time and death *)

LEMMA HourTypes ==
    ASSUME NotesTyped, NEW a \in Alerts, HourPasses(a)
    PROVE  /\ NotesTyped'
           /\ UNCHANGED <<alert, attribution, client, sender>>
           /\ past'[a] = [past[a] EXCEPT !.aged = @ + 1]
           /\ \A b \in Alerts \ {a} : past'[b] = past[b] /\ notes'[b] = notes[b]
           /\ Len(notes'[a]) = Len(notes[a])
           /\ \A i \in 1 .. Len(notes[a]) : /\ notes'[a][i].marks = notes[a][i].marks
                                            /\ notes'[a][i].verdict = notes[a][i].verdict
<1> DEFINE p == [past[a] EXCEPT !.aged = @ + 1]
           m == [i \in DOMAIN notes[a] |-> [notes[a][i] EXCEPT !.old = TRUE]]
<1>1. past[a] \in Past /\ past[a].aged + 1 \in Nat  BY DEF NotesTyped, Past
<1>2. p \in Past  BY <1>1, Counted
<1>3. past' = [past EXCEPT ![a] = p]  BY DEF HourPasses, Count, NotesTyped
<1>4. notes[a] \in Seq(Note)  BY DEF NotesTyped
<1>5. notes' = [notes EXCEPT ![a] = m]  BY DEF HourPasses, NotesTyped
<1>6. DOMAIN notes[a] = 1 .. Len(notes[a]) /\ Len(notes[a]) \in Nat  BY <1>4
<1>7. \A i \in 1 .. Len(notes[a]) : notes[a][i] \in Note  BY <1>4
<1>8. \A i \in 1 .. Len(notes[a]) :
         m[i] \in Note /\ m[i].marks = notes[a][i].marks /\ m[i].verdict = notes[a][i].verdict
  BY <1>6, <1>7 DEF Note
<1>9. m = [i \in 1 .. Len(notes[a]) |-> m[i]]  BY <1>6
<1> HIDE DEF m, p
<1>10. m \in Seq(Note) /\ Len(m) = Len(notes[a])
  <2>1. m \in [1 .. Len(notes[a]) -> Note]  BY <1>8, <1>9
  <2> QED  BY <1>6, <2>1
<1>11. /\ notes' \in [Alerts -> Seq(Note)] /\ notes'[a] = m
       /\ \A b \in Alerts \ {a} : notes'[b] = notes[b]
  BY <1>5, <1>10 DEF NotesTyped
<1>12. /\ past' \in [Alerts -> Past] /\ past'[a] = p
       /\ \A b \in Alerts \ {a} : past'[b] = past[b]
  BY <1>2, <1>3, Recorded
<1>13. UNCHANGED <<alert, attribution, client, sender>>  BY DEF HourPasses
<1>14. NotesTyped'  BY <1>11, <1>12, <1>13 DEF NotesTyped
<1> QED  BY <1>8, <1>10, <1>11, <1>12, <1>13, <1>14 DEF p

\* Everything but the answers: nobody has moved, and the notes say the same.
LEMMA HourKeeps ==
    ASSUME NotesInv, NEW a \in Alerts, HourPasses(a), router' = router
    PROVE  /\ NotesTyped' /\ OneSend' /\ CarriesLatest' /\ NothingYet' /\ NotesExist'
           /\ \A b \in Alerts : WasSeen(b)'
<1> USE DEF NotesInv
<1>1. /\ NotesTyped' /\ alert' = alert /\ attribution' = attribution /\ sender' = sender
      /\ past'[a] = [past[a] EXCEPT !.aged = @ + 1]
      /\ \A b \in Alerts \ {a} : past'[b] = past[b] /\ notes'[b] = notes[b]
      /\ Len(notes'[a]) = Len(notes[a])
      /\ \A i \in 1 .. Len(notes[a]) : /\ notes'[a][i].marks = notes[a][i].marks
                                       /\ notes'[a][i].verdict = notes[a][i].verdict
  BY HourTypes
<1>2. \A b \in Alerts : notes[b] \in Seq(Note) /\ notes'[b] \in Seq(Note) /\ past[b] \in Past
  BY <1>1 DEF NotesTyped
<1>3. \A b \in Alerts : /\ past'[b].shared = past[b].shared
                        /\ past'[b].seen = past[b].seen
                        /\ past'[b].unwritten = past[b].unwritten
  BY <1>1, <1>2 DEF Past
<1>4. \A b \in Alerts : Len(notes'[b]) = Len(notes[b]) /\ Longer(notes[b], notes'[b])
  BY <1>1, <1>2 DEF Longer
<1>5. \A b \in Alerts : notes[b] # << >> => notes'[b] # << >> /\ Latest(b)'.verdict = Latest(b).verdict
  <2> SUFFICES ASSUME NEW b \in Alerts, notes[b] # << >>
               PROVE  notes'[b] # << >> /\ Latest(b)'.verdict = Latest(b).verdict
    OBVIOUS
  <2>1. Len(notes[b]) \in 1 .. Len(notes[b])  BY <1>2
  <2>2. notes'[b] # << >>  BY <1>2, <1>4, <2>1
  <2> QED  BY <1>4, <2>1, <2>2 DEF Longer, Latest
<1>6. \A t \in Senders : sender[t].step # "idle" => sender[t].alert \in Alerts  BY AlertOf
<1>7. OneSend'  BY <1>1, <1>3, <1>6 DEF OneSend, At
<1>8. NothingYet'  BY <1>1 DEF NothingYet, At
<1>9. NotesExist'  BY <1>1, <1>4, <1>6 DEF NotesExist, At
<1>10. ASSUME NEW t \in Senders, Carries(t)  PROVE Carries(t)'
  <2> SUFFICES ASSUME sender[t].step # "idle", past'[sender[t].alert].shared = 0
               PROVE  Carries(t)'
    BY <1>1 DEF Carries, At
  <2>1. PICK b \in Alerts : b = sender[t].alert  BY <1>6
  <2>2. /\ sender[t].step \in {"text", "attribute"} => OfLatest(b, sender[t].verdict)
        /\ sender[t].note \in {0, Len(notes[b])}
        /\ sender[t].step = "send" => OfLatest(b, attribution[b]) \/ past[b].unwritten
    BY <1>3, <1>10, <2>1 DEF Carries, At
  <2>3. \A x : OfLatest(b, x) => (x # NoVerdict => notes'[b] # << >> /\ x = Latest(b)'.verdict)
    BY <1>5 DEF OfLatest
  <2>4. sender'[t].alert = b /\ sender'[t] = sender[t]  BY <1>1, <2>1
  <2>5. /\ sender'[t].step \in {"text", "attribute"} =>
              (sender'[t].verdict # NoVerdict => notes'[b] # << >> /\ sender'[t].verdict = Latest(b)'.verdict)
        /\ sender'[t].note \in {0, Len(notes'[b])}
        /\ sender'[t].step = "send" =>
              \/ attribution'[b] # NoVerdict => notes'[b] # << >> /\ attribution'[b] = Latest(b)'.verdict
              \/ past'[b].unwritten
    BY <1>1, <1>3, <1>4, <2>2, <2>3, <2>4
  <2> QED  BY <2>4, <2>5 DEF Carries, OfLatest, Latest, At
<1>11. CarriesLatest'  BY <1>10 DEF CarriesLatest
<1>12. ASSUME NEW b \in Alerts, WasSeen(b)  PROVE WasSeen(b)'
  BY <1>1, <1>3, <1>4, <1>12, SeenStays
<1>13. \A b \in Alerts : WasSeen(b)'  BY <1>12 DEF SentWasSeen, WasSeen
<1> QED  BY <1>1, <1>7, <1>8, <1>9, <1>11, <1>13

LEMMA HourAnswers ==
    ASSUME NotesTyped, NEW b \in Alerts, HourPasses(b), NEW a \in Alerts, AnswersLeft(a)
    PROVE  AnswersLeft(a)'
<1>1. /\ sender' = sender /\ past'[b] = [past[b] EXCEPT !.aged = @ + 1]
      /\ \A c \in Alerts \ {b} : past'[c] = past[c] /\ notes'[c] = notes[c]
  BY HourTypes
<1>2. Payers(a)' = Payers(a) /\ Paid(a)' = Paid(a) /\ Bound(a)' = Bound(a)
  BY <1>1 DEF Payers, Paid, Bound, Among
<1>3. Payers(a) \subseteq Senders  BY DEF Payers, Among
<1>4. Excess(a) \in Int /\ Cardinality(Payers(a)) \in Nat  BY <1>3, ExcessIs, Counting
<1>5. CASE a # b
  <2>1. Fresh(a)' <=> Fresh(a)  BY <1>1, <1>5, FreshIs
  <2>2. Excess(a)' = Excess(a)  BY <1>1, <1>5 DEF Excess
  <2> QED  BY <1>2, <2>1, <2>2 DEF AnswersLeft
<1>6. CASE a = b
  <2>1. past[a] \in Past  BY DEF NotesTyped
  <2>2. Excess(a)' = Excess(a) + 1  BY <1>1, <1>6, <2>1 DEF Excess, Past
  <2> QED  BY <1>2, <1>4, <2>2 DEF AnswersLeft
<1> QED  BY <1>5, <1>6

LEMMA DieTypes ==
    ASSUME NotesTyped, NEW p \in Procs, Die(p)
    PROVE  /\ NotesTyped' /\ UNCHANGED <<alert, notes, attribution>>
           /\ \A s \in Senders : IF ProcOf[s] = p THEN sender'[s] = NoSend ELSE sender'[s] = sender[s]
           /\ \A a \in Alerts :
                 past'[a] = IF \E s \in Senders : ProcOf[s] = p /\ s \in Paid(a)
                            THEN [past[a] EXCEPT !.lost = @ + 1] ELSE past[a]
<1> DEFINE dead == {s \in Senders : ProcOf[s] = p}
           Drops(a) == {s \in dead : (At(s, "version") \/ At(s, "insert")) /\ sender[s].alert = a}
<1>1. UNCHANGED <<alert, notes, attribution>>  BY DEF Die
<1>2. sender' = [s \in Senders |-> IF s \in dead THEN NoSend ELSE sender[s]]  BY DEF Die
<1>3. past' = [a \in Alerts |-> IF Drops(a) = {} THEN past[a] ELSE [past[a] EXCEPT !.lost = @ + 1]]
  BY DEF Die
<1>4. \A a \in Alerts : past[a] \in Past /\ [past[a] EXCEPT !.lost = @ + 1] \in Past
  <2> SUFFICES ASSUME NEW a \in Alerts
               PROVE  past[a] \in Past /\ [past[a] EXCEPT !.lost = @ + 1] \in Past
    OBVIOUS
  <2>1. past[a] \in Past /\ past[a].lost + 1 \in Nat  BY DEF NotesTyped, Past
  <2> QED  BY <2>1, Counted
<1>5. past' \in [Alerts -> Past]  BY <1>3, <1>4
<1>6. sender' \in [Senders -> {NoSend} \cup Sends]  BY <1>2 DEF NotesTyped
<1>7. NotesTyped'  BY <1>1, <1>5, <1>6 DEF NotesTyped
<1>8. \A a \in Alerts : Drops(a) = {} <=> ~\E s \in Senders : ProcOf[s] = p /\ s \in Paid(a)
  BY DEF Paid, Among, Storing, At
<1> QED  BY <1>1, <1>2, <1>3, <1>7, <1>8

LEMMA DieKeeps ==
    ASSUME NotesInv, NEW p \in Procs, Die(p), router' = router
    PROVE  /\ NotesTyped' /\ OneSend' /\ CarriesLatest' /\ NothingYet' /\ NotesExist'
           /\ \A b \in Alerts : WasSeen(b)'
<1> USE DEF NotesInv
<1>1. /\ NotesTyped' /\ alert' = alert /\ notes' = notes /\ attribution' = attribution
      /\ \A s \in Senders : sender'[s] = NoSend \/ sender'[s] = sender[s]
  BY DieTypes
<1>2. \A a \in Alerts : /\ past[a] \in Past
                        /\ past'[a] = past[a] \/ past'[a] = [past[a] EXCEPT !.lost = @ + 1]
  BY DieTypes DEF NotesTyped
<1>3. \A b \in Alerts : /\ past'[b].shared = past[b].shared
                        /\ past'[b].seen = past[b].seen
                        /\ past'[b].unwritten = past[b].unwritten
  BY <1>2 DEF Past
<1>4. \A s \in Senders : sender'[s].step # "idle" =>
         sender'[s] = sender[s] /\ sender[s].step # "idle" /\ sender[s].alert \in Alerts
  BY <1>1, AlertOf DEF NoSend
<1>5. \A s \in Senders : sender'[s].step = "idle" \/ sender'[s] = sender[s]  BY <1>1 DEF NoSend
<1>6. OneSend'  BY <1>3, <1>4 DEF OneSend, At
<1>7. NothingYet'  BY <1>5 DEF NothingYet, At, MayPay
<1>8. NotesExist'  BY <1>1, <1>4 DEF NotesExist, At
<1>9. CarriesLatest'
  BY <1>1, <1>3, <1>4 DEF CarriesLatest, Carries, OfLatest, Latest, At
<1>10. \A b \in Alerts : notes[b] \in Seq(Note)  BY DEF NotesTyped
<1>11. ASSUME NEW b \in Alerts, WasSeen(b)  PROVE WasSeen(b)'
  <2>1. Longer(notes[b], notes'[b])  BY <1>1, <1>10 DEF Longer
  <2> QED  BY <1>1, <1>3, <1>11, <2>1, SeenStays
<1>12. \A b \in Alerts : WasSeen(b)'  BY <1>11 DEF SentWasSeen, WasSeen
<1> QED  BY <1>1, <1>6, <1>7, <1>8, <1>9, <1>12

LEMMA DieAnswers ==
    ASSUME NotesTyped, NEW p \in Procs, Die(p), NEW a \in Alerts, AnswersLeft(a)
    PROVE  AnswersLeft(a)'
<1> DEFINE hit == \E s \in Senders : ProcOf[s] = p /\ s \in Paid(a)
<1>1. /\ notes' = notes
      /\ \A s \in Senders : IF ProcOf[s] = p THEN sender'[s] = NoSend ELSE sender'[s] = sender[s]
      /\ past'[a] = IF hit THEN [past[a] EXCEPT !.lost = @ + 1] ELSE past[a]
  BY DieTypes
<1>2. \A s \in Senders : IF ProcOf[s] = p THEN sender'[s].step = "idle" ELSE sender'[s] = sender[s]
  BY <1>1 DEF NoSend
<1>3. Payers(a)' \subseteq Payers(a) /\ Bound(a)' \subseteq Bound(a)
  BY <1>2 DEF Payers, Bound, Among, MayPay
<1>4. ~hit => Paid(a)' = Paid(a)
  BY <1>2 DEF Paid, Among, Storing
<1>5. IsFiniteSet(Payers(a)) /\ Cardinality(Payers(a)) \in Nat
  <2>1. Payers(a) \subseteq Senders  BY DEF Payers, Among
  <2> QED  BY <2>1, Counting
<1>6. Cardinality(Payers(a)') <= Cardinality(Payers(a)) /\ Cardinality(Payers(a)') \in Nat
  BY <1>3, <1>5, FS_Subset, FS_CardinalityType
<1>7. Payers(a) # {} => Cardinality(Payers(a)) >= 1
  <2>1. Cardinality(Payers(a)) = 0 <=> Payers(a) = {}  BY <1>5, FS_EmptySet
  <2> QED  BY <1>5, <2>1
<1>8. Fresh(a)' <=> Fresh(a)  BY <1>1, FreshIs
<1>9. past[a] \in Past /\ Excess(a) \in Int  BY ExcessIs DEF NotesTyped
<1> HIDE DEF hit
<1>10. CASE hit
  <2>1. Excess(a)' = Excess(a) + 1  BY <1>1, <1>9, <1>10 DEF Excess, Past
  <2> QED  BY <1>3, <1>5, <1>6, <1>8, <1>9, <2>1 DEF AnswersLeft
<1>11. CASE ~hit
  <2>1. Excess(a)' = Excess(a)  BY <1>1, <1>11 DEF Excess
  <2> QED  BY <1>3, <1>4, <1>5, <1>6, <1>7, <1>8, <1>9, <1>11, <2>1 DEF AnswersLeft
<1> QED  BY <1>10, <1>11

-----------------------------------------------------------------------------
(* The specification *)

LEMMA NotesStart == NotesInit => NotesInv
<1> SUFFICES ASSUME NotesInit  PROVE NotesInv  OBVIOUS
<1> USE DEF NotesInit
<1>1. \A s \in Senders : sender[s].step = "idle"  BY DEF NoSend
<1>2. NotesTyped
  <2>1. Clean \in Past  BY DEF Clean, Past
  <2>2. << >> \in Seq(Note) /\ NoVerdict \in PickVerdict  BY DEF PickVerdict
  <2> QED  BY <2>1, <2>2 DEF NotesTyped
<1>3. RouteInv  BY DEF RouteInv, RouteInit
<1>4. ASSUME NEW a \in Alerts  PROVE AnswersLeft(a)
  <2>1. Payers(a) = {} /\ Paid(a) = {} /\ Bound(a) = {}
    BY <1>1 DEF Payers, Paid, Bound, Among, MayPay, Storing
  <2>2. Excess(a) = 1  BY DEF Excess, Clean
  <2>3. Cardinality(Payers(a)) = 0  BY <2>1, FS_EmptySet
  <2> QED  BY <2>1, <2>2, <2>3 DEF AnswersLeft
<1>5. OneSend  BY <1>1 DEF OneSend, At
<1>6. CarriesLatest  BY <1>1 DEF CarriesLatest, Carries, At
<1>7. NothingYet  BY <1>1 DEF NothingYet, MayPay, At
<1>8. NotesExist  BY <1>1 DEF NotesExist, At
<1>9. SentWasSeen  BY DEF SentWasSeen
<1> QED  BY <1>2, <1>3, <1>4, <1>5, <1>6, <1>7, <1>8, <1>9 DEF NotesInv

\* A step that touches neither senders nor notes nor histories
LEMMA StandsStill ==
    ASSUME NotesInv, UNCHANGED <<notes, attribution, sender, past, router>>,
           alert' \in [Alerts -> {"ready", "out", "sent", "failed"}],
           \A a \in Alerts : alert'[a] = "sent" => alert[a] = "sent"
    PROVE  /\ NotesTyped' /\ OneSend' /\ CarriesLatest' /\ NothingYet' /\ NotesExist'
           /\ \A a \in Alerts : AnswersLeft(a)'
           /\ \A a \in Alerts : WasSeen(a)'
<1> USE DEF NotesInv
<1>1. NotesTyped'  BY DEF NotesTyped
<1>2. OneSend'  BY DEF OneSend, At
<1>3. CarriesLatest'  BY DEF CarriesLatest, Carries, OfLatest, Latest, At
<1>4. NothingYet'  BY DEF NothingYet, At
<1>5. NotesExist'  BY DEF NotesExist, At
<1>6. ASSUME NEW a \in Alerts  PROVE AnswersLeft(a)'
  <2>1. Payers(a)' = Payers(a) /\ Paid(a)' = Paid(a) /\ Bound(a)' = Bound(a)
    BY DEF Payers, Paid, Bound, Among
  <2>2. (Fresh(a)' <=> Fresh(a)) /\ Excess(a)' = Excess(a)  BY FreshIs DEF Excess
  <2> QED  BY <2>1, <2>2 DEF AnswersLeft
<1>7. ASSUME NEW a \in Alerts  PROVE WasSeen(a)'
  <2>1. notes[a] \in Seq(Note)  BY DEF NotesTyped
  <2>2. Longer(notes[a], notes'[a])  BY <2>1 DEF Longer
  <2>3. WasSeen(a)  BY DEF SentWasSeen, WasSeen
  <2> QED  BY <1>1, <2>2, <2>3, SeenStays
<1> QED  BY <1>1, <1>2, <1>3, <1>4, <1>5, <1>6, <1>7

LEMMA SenderStep ==
    ASSUME NotesInv, NEW s \in Senders, SenderNext(s), router' = router
    PROVE  /\ NotesTyped' /\ OneSend' /\ CarriesLatest' /\ NothingYet' /\ NotesExist'
           /\ \A a \in Alerts : AnswersLeft(a)'
           /\ \A a \in Alerts : WasSeen(a)'
<1> USE DEF NotesInv
<1>1. NotesTyped'  BY SenderTurn
<1>2. OneSend'  BY <1>1, SenderOneSend
<1>3. NothingYet'  BY SenderNothingYet
<1>4. CarriesLatest'  BY <1>1, <1>2, SenderCarries
<1>5. NotesExist'  BY <1>1, <1>3, SenderNotesExist
<1>6. \A a \in Alerts : AnswersLeft(a)'  BY SenderAnswers
<1>7. \A a \in Alerts : WasSeen(a)  BY DEF SentWasSeen, WasSeen
<1>8. \A a \in Alerts : WasSeen(a)'  BY <1>1, <1>7, SenderSeen
<1> QED  BY <1>1, <1>2, <1>3, <1>4, <1>5, <1>6, <1>8

LEMMA RouteKept ==
    ASSUME RouteInv, UNCHANGED routeVars \/ RouteNext
    PROVE  RouteInv' /\ router' = router
<1>1. CASE UNCHANGED routeVars  BY <1>1 DEF RouteInv, routeVars
<1>2. CASE RouteNext
  <2>1. PICK r \in Reports : Post(r)  BY <1>2 DEF RouteNext
  <2>2. /\ router' = router
        /\ posted' = [surface |-> r.surface, marks |-> r.marks,
                      to |-> Reaches(router, r.surface, r.marks)]
    BY <2>1 DEF Post
  <2> HIDE DEF Reaches
  <2> QED  BY <2>2 DEF RouteInv
<1> QED  BY <1>1, <1>2

LEMMA NotesStep == NotesInv /\ [NotesNext \/ Reporting]_noteVars => NotesInv'
<1> SUFFICES ASSUME NotesInv, [NotesNext \/ Reporting]_noteVars  PROVE NotesInv'
  OBVIOUS
<1>1. RouteInv' /\ router' = router
  <2>1. UNCHANGED routeVars \/ RouteNext  BY DEF NotesNext, Reporting, noteVars
  <2> QED  BY <2>1, RouteKept DEF NotesInv
<1> DEFINE AllKept == /\ NotesTyped' /\ OneSend' /\ CarriesLatest' /\ NothingYet' /\ NotesExist'
                      /\ \A c \in Alerts : AnswersLeft(c)'
                      /\ \A c \in Alerts : WasSeen(c)'
<1>2. ASSUME NEW s \in Senders, SenderNext(s)  PROVE AllKept  BY <1>1, <1>2, SenderStep
<1>3. ASSUME NEW a \in Alerts, Reset(a)  PROVE AllKept
  <2>1. /\ UNCHANGED <<notes, attribution, sender, past, router>>
        /\ alert' = [alert EXCEPT ![a] = "ready"]
    BY <1>1, <1>3 DEF Reset
  <2>2. /\ alert' \in [Alerts -> {"ready", "out", "sent", "failed"}]
        /\ \A b \in Alerts : alert'[b] = "sent" => alert[b] = "sent"
    BY <2>1 DEF NotesInv, NotesTyped
  <2> QED  BY <2>1, <2>2, StandsStill
<1>4. ASSUME NEW a \in Alerts, HourPasses(a)  PROVE AllKept
  <2>1. \A b \in Alerts : AnswersLeft(b)'  BY <1>4, HourAnswers DEF NotesInv
  <2> QED  BY <1>1, <1>4, <2>1, HourKeeps
<1>5. ASSUME NEW p \in Procs, Die(p)  PROVE AllKept
  <2>1. \A b \in Alerts : AnswersLeft(b)'  BY <1>5, DieAnswers DEF NotesInv
  <2> QED  BY <1>1, <1>5, <2>1, DieKeeps
<1>6. ASSUME UNCHANGED <<alert, notes, attribution, sender, past>>  PROVE AllKept
  <2>1. /\ alert' \in [Alerts -> {"ready", "out", "sent", "failed"}]
        /\ \A b \in Alerts : alert'[b] = "sent" => alert[b] = "sent"
    BY <1>6 DEF NotesInv, NotesTyped
  <2> QED  BY <1>1, <1>6, <2>1, StandsStill
<1>7. ASSUME NEW p \in Procs, Refill(p) \/ Midnight(p)  PROVE AllKept
  BY <1>6, <1>7 DEF Refill, Midnight
<1>8. ASSUME Reporting  PROVE AllKept  BY <1>6, <1>8 DEF Reporting
<1>9. ASSUME UNCHANGED noteVars  PROVE AllKept  BY <1>6, <1>9 DEF noteVars
<1>10. AllKept
  <2> HIDE DEF AllKept
  <2> QED  BY <1>2, <1>3, <1>4, <1>5, <1>7, <1>8, <1>9 DEF NotesNext
<1>11. SentWasSeen'  BY <1>10 DEF SentWasSeen, WasSeen
<1> QED  BY <1>1, <1>10, <1>11 DEF NotesInv

\* The invariant of the analyst note holds for any alerts, senders in any
\* number of processes, answers, faults and configurations of the router.
THEOREM NotesInvariance == NotesSpec => []NotesInv
<1>1. NotesInit => NotesInv  BY NotesStart
<1>2. NotesInv /\ [NotesNext \/ Reporting]_noteVars => NotesInv'  BY NotesStep
<1> QED  BY <1>1, <1>2, PTL DEF NotesSpec

\* However often the delivery of an alert is tried, whoever dies and whatever
\* gets lost: an answer of the model is paid for once, and again only for an
\* answer that was lost, an hour that went by or a second sender.
THEOREM AnswersAreExplained == NotesSpec => []SecondAnswerHasCause
<1>1. NotesInv => SecondAnswerHasCause
  <2> SUFFICES ASSUME NotesInv, NEW a \in Alerts
               PROVE  past[a].paid <= 1 + past[a].lost + past[a].aged + past[a].shared
    BY DEF SecondAnswerHasCause
  <2>1. past[a] \in Past  BY DEF NotesInv, NotesTyped
  <2>2. Excess(a) >= 0  BY DEF NotesInv, AnswersLeft
  <2> QED  BY <2>1, <2>2 DEF Excess, Past
<1> QED  BY <1>1, NotesInvariance, PTL

\* The verdict kept for an alert and the note in its message come by two reads
\* and two writes, and belong together all the same.
THEOREM VerdictsFitNotes == NotesSpec => []VerdictIsOfTheNote
<1>1. NotesInv => VerdictIsOfTheNote
  <2> SUFFICES ASSUME NotesInv, NEW s \in Senders, At(s, "send"), sender[s].note > 0
               PROVE  LET a == sender[s].alert IN
                      \/ attribution[a] \in {NoVerdict, notes[a][sender[s].note].verdict}
                      \/ past[a].unwritten \/ past[a].shared > 0
    BY DEF VerdictIsOfTheNote
  <2>1. PICK b \in Alerts : b = sender[s].alert /\ past[b] \in Past
    BY AlertOf DEF NotesInv, At
  <2>2. CASE past[b].shared = 0
    <3>1. /\ sender[s].note \in {0, Len(notes[b])}
          /\ OfLatest(b, attribution[b]) \/ past[b].unwritten
      BY <2>1, <2>2 DEF NotesInv, CarriesLatest, Carries, At
    <3>2. sender[s].note = Len(notes[b])  BY <3>1
    <3> QED  BY <2>1, <3>1, <3>2 DEF OfLatest, Latest
  <2>3. CASE past[b].shared # 0
    <3>1. past[b].shared > 0  BY <2>1, <2>3 DEF Past
    <3> QED  BY <2>1, <3>1
  <2> QED  BY <2>2, <2>3
<1> QED  BY <1>1, NotesInvariance, PTL

\* What a caller was told is delivered has arrived in its chat, under every
\* valid configuration, but for what the configuration or the guard dropped.
THEOREM RoutesAreKept == NotesSpec => []MessagesFindTheirChat
<1>1. RouteInv => ReportsStayInside
  <2> SUFFICES ASSUME RouteInv, IsAdminSurface(posted.surface)
               PROVE  /\ posted.to = router.signal => router.admin = router.signal /\ router.allowSame
                      /\ posted.to = Nobody =>
                            \/ ~router.adminEnabled
                            \/ AdminToggle[posted.surface] \notin router.toggles
                            \/ Classify(posted.marks)
                            \/ router.admin = router.signal /\ "quality" \in posted.marks
    BY DEF ReportsStayInside
  <2>1. /\ Valid(router) /\ router.signal \notin {NoChat, Nobody} /\ router.admin # Nobody
    BY RouteAssumption DEF RouteInv
  <2>2. posted # NoReport  BY DEF IsAdminSurface, AdminToggle, NoReport
  <2>3. posted.to = Reaches(router, posted.surface, posted.marks)  BY <2>2 DEF RouteInv
  <2>4. ~IsSignalSurface(posted.surface)
    BY DEF IsAdminSurface, AdminToggle, IsSignalSurface, SignalSurfaces
  <2>5. Route(router, posted.surface) =
           IF router.adminEnabled /\ AdminToggle[posted.surface] \in router.toggles
           THEN router.admin ELSE Nobody
    BY <2>4 DEF Route
  <2>6. posted.to = router.signal => router.admin = router.signal /\ router.allowSame
    BY <2>1, <2>3, <2>5 DEF Reaches, Valid
  <2>7. posted.to = Nobody =>
            \/ ~router.adminEnabled
            \/ AdminToggle[posted.surface] \notin router.toggles
            \/ Suppressed(router, router.admin, posted.marks)
    BY <2>1, <2>3, <2>5 DEF Reaches
  <2> QED  BY <2>6, <2>7 DEF Suppressed
<1>2. NotesInv => MessagesFindTheirChat  BY <1>1 DEF NotesInv, MessagesFindTheirChat
<1> QED  BY <1>2, NotesInvariance, PTL


=============================================================================
