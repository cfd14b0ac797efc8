------------------------- MODULE AlertFollowUpProofs -------------------------
(***************************************************************************)
(* What AlertFollowUp and PriceDrift guarantee for any alerts, markets,    *)
(* labels and windows, any number of processes, any limits, and any number *)
(* of failed statements, lost answers and crashes.                         *)
(***************************************************************************)
EXTENDS PriceDrift, FiniteSetTheorems, TLAPS

\* A tick works on a row of its list, in each phase with that phase's results.
AtWork ==
    \A p \in Procs :
        /\ phase[p] = "rest" => todo[p] = {}
        /\ view[p] # Idle => view[p].at \in todo[p]
        /\ phase[p] = "judge" /\ view[p] # Idle => view[p].says \in Verdicts \cup {"touch"}
        /\ phase[p] = "react" /\ view[p] # Idle => view[p].says \in Settled \cup {"failed"}

\* A verdict that is final, in a row or on its way to one.
IsTrue(a, v) ==
    /\ v \in {"correct", "wrong"} => Gamma(a) \in Labels /\ (v = "correct" <=> Won(a))
    /\ v = "unavailable" => Gamma(a) = "gone"

Truth ==
    /\ \A a \in Alerts : IsTrue(a, outcome[a])
    /\ \A p \in Procs : view[p] # Idle => IsTrue(view[p].at, view[p].says)

\* A row that is not contested has one judge and, until he has written, no verdict.
OneJudge ==
    \A a \in Alerts \ contested : \A p \in Procs :
        a \in InHand(p) => /\ outcome[a] = "pending"
                           /\ \A q \in Procs \ {p} : a \notin InHand(q)

\* What a tick or a postmortem has listed of such a row is what the row still says.
Current ==
    \A a \in Alerts \ contested : \A p \in Procs :
        /\ phase[p] = "react" /\ a \in todo[p] =>
              seen[p][a] = outcome[a] /\ outcome[a] # "pending"
        /\ job[p][a] # "no" => basis[p][a] = outcome[a] /\ outcome[a] # "pending"

\* Its message shows nothing or its verdict, and its verdict once that was reported.
Shows(a) ==
    /\ shown[a] \in {"none", EmojiFor(outcome[a])}
    /\ reaction[a] = "applied" => outcome[a] # "pending" /\ shown[a] = EmojiFor(outcome[a])
    /\ \A p \in Procs : view[p] # Idle /\ view[p].at = a /\ view[p].says = "applied" =>
          shown[a] = EmojiFor(outcome[a])

ShownFits == \A a \in Alerts \ (contested \cup reviewed) : Shows(a)

FollowInv == TypeOK /\ AtWork /\ Truth /\ OneJudge /\ Current /\ ShownFits

-----------------------------------------------------------------------------
(* Facts about the operators *)

\* The number of alerts is a number, and there is a place for each of them.
LEMMA Places ==
    /\ Cardinality(Alerts) \in Nat
    /\ \A a \in Alerts : Cardinality({b \in Alerts : b <= a}) \in 1 .. Cardinality(Alerts)
<1>1. Cardinality(Alerts) \in Nat
  BY AlertsAssumption, FS_CardinalityType
<1>2. ASSUME NEW a \in Alerts
      PROVE  Cardinality({b \in Alerts : b <= a}) \in 1 .. Cardinality(Alerts)
  <2>. DEFINE S == {b \in Alerts : b <= a}
  <2>1. S \subseteq Alerts /\ a \in S
    BY AlertsAssumption
  <2>2. IsFiniteSet(S) /\ Cardinality(S) <= Cardinality(Alerts)
    BY <2>1, AlertsAssumption, FS_Subset
  <2>3. Cardinality(S) \in Nat /\ Cardinality(S) # 0
    BY <2>1, <2>2, FS_CardinalityType, FS_EmptySet
  <2>. QED
    BY <1>1, <2>2, <2>3
<1>. QED
  BY <1>1, <1>2

\* A list is a set of rows of its table.
LEMMA FirstIsSubset ==
    ASSUME NEW n, NEW S, NEW R, NEW T \in First(n, S, R)
    PROVE  T \subseteq S
BY DEF First

\* The row that was looked at goes to the last place, the others keep theirs.
LEMMA ToTheEndType ==
    ASSUME turn \in [Alerts -> 1 .. Cardinality(Alerts)], NEW a \in Alerts
    PROVE  ToTheEnd(a) \in [Alerts -> 1 .. Cardinality(Alerts)]
<1>1. Cardinality(Alerts) \in Nat /\ turn[a] \in 1 .. Cardinality(Alerts)
  BY Places
<1>2. ASSUME NEW b \in Alerts
      PROVE  (CASE b = a -> Cardinality(Alerts)
                [] turn[b] > turn[a] -> turn[b] - 1
                [] OTHER -> turn[b]) \in 1 .. Cardinality(Alerts)
  <2>1. turn[b] \in 1 .. Cardinality(Alerts)
    OBVIOUS
  <2>. QED
    BY <1>1, <2>1
<1>. QED
  BY <1>2 DEF ToTheEnd

\* The answers are verdicts or "touch", and name a winner only when it is the winner.
LEMMA ClassifyFacts ==
    ASSUME NEW a \in Alerts, WorldOK
    PROVE  /\ Classify(a, Gamma(a)) \in Verdicts \cup {"touch"}
           /\ IsTrue(a, Classify(a, Gamma(a)))
<1>1. Gamma(a) \in Labels \cup {"open", "unclear", "gone"}
  BY MarketAssumption DEF Gamma, WorldOK
<1>2. Bet[a].side \in {"BUY", "SELL"} /\ Bet[a].label \in Labels \cup {NoLabel}
  BY BetAssumption
<1>3. CASE Gamma(a) = "gone"
  BY <1>3 DEF Classify, IsTrue, Verdicts
<1>4. CASE Gamma(a) = "open"
  BY <1>4 DEF Classify, IsTrue, Verdicts
<1>5. CASE Gamma(a) \notin {"gone", "open"} /\ (Gamma(a) = "unclear" \/ Bet[a].label = NoLabel)
  BY <1>5 DEF Classify, IsTrue, Verdicts
<1>6. CASE Gamma(a) \notin {"gone", "open", "unclear"} /\ Bet[a].label # NoLabel
  BY <1>1, <1>2, <1>6 DEF Classify, IsTrue, Verdicts, Won
<1>. QED
  BY <1>3, <1>4, <1>5, <1>6

LEMMA EmojiType == ASSUME NEW v PROVE EmojiFor(v) \in Emojis
BY DEF EmojiFor, Emojis

\* No row at work is none of the alerts.
LEMMA IdleIsNone == \A w \in [at : Alerts, says : Results] : w # Idle
BY AlertsAssumption DEF Idle

\* What a reaction leaves in the chat.
LEMMA AnswerFacts ==
    ASSUME NEW a \in Alerts, NEW e \in Emojis, WorldOK, NEW r \in Answers(a, e) \cup Mishaps(a, e)
    PROVE  /\ r.emoji \in {e, shown[a]} /\ r.emoji \in Emojis
           /\ r.says \in Settled \cup {"failed"}
           /\ r.says = "applied" => r.emoji = e
<1>1. shown[a] \in Emojis
  BY DEF WorldOK
<1>2. CASE r \in Mishaps(a, e)
  BY <1>1, <1>2 DEF Mishaps, Settled
<1>3. CASE r \in Answers(a, e)
  BY <1>1, <1>3 DEF Answers, Settled
<1>. QED
  BY <1>2, <1>3

-----------------------------------------------------------------------------
(* Initial states *)

LEMMA FollowInit == Init => FollowInv
<1>. SUFFICES ASSUME Init PROVE FollowInv
  OBVIOUS
<1>1. RowsOK
  BY Places DEF Init, RowsOK
<1>2. WorldOK
  BY DEF Init, WorldOK, Emojis
<1>3. ProcsOK
  BY DEF Init, ProcsOK
<1>4. HistoryOK
  BY LimitsAssumption DEF Init, HistoryOK
<1>5. AtWork /\ Truth /\ OneJudge
  BY DEF Init, AtWork, Truth, IsTrue, OneJudge, InHand
<1>6. Current
  BY DEF Init, Current
<1>7. ShownFits
  BY DEF Init, ShownFits, Shows, EmojiFor
<1>. QED
  BY <1>1, <1>2, <1>3, <1>4, <1>5, <1>6, <1>7 DEF FollowInv, TypeOK

-----------------------------------------------------------------------------
(* The world and the close review *)

LEMMA FallsDueStep == ASSUME FollowInv, NEW m \in Markets, FallsDue(m) PROVE FollowInv'
<1>. USE DEF FallsDue, row, chat, checks, posts, history
<1>1. TypeOK'
  BY DEF FollowInv, TypeOK, RowsOK, WorldOK, ProcsOK, HistoryOK
<1>2. AtWork'
  BY DEF FollowInv, AtWork
<1>3. Truth'
  BY DEF FollowInv, Truth, IsTrue, Gamma, Won
<1>4. OneJudge'
  BY DEF FollowInv, OneJudge, InHand
<1>5. Current'
  BY DEF FollowInv, Current
<1>6. ShownFits'
  BY DEF FollowInv, ShownFits, Shows
<1>. QED
  BY <1>1, <1>2, <1>3, <1>4, <1>5, <1>6 DEF FollowInv

\* A label of a market stays, so what was true of it stays true.
LEMMA EndsStep == ASSUME FollowInv, NEW m \in Markets, Ends(m) PROVE FollowInv'
<1>1. /\ UNCHANGED <<due, row, chat, checks, posts, history, faults>>
      /\ fate[m] \in {"open", "unclear"}
      /\ \E r \in Labels \cup {"unclear", "gone"} : fate' = [fate EXCEPT ![m] = r]
  BY DEF Ends
<1>. USE <1>1 DEF row, chat, checks, posts, history
<1>2. TypeOK'
  BY DEF FollowInv, TypeOK, RowsOK, WorldOK, ProcsOK, HistoryOK
<1>3. AtWork'
  BY DEF FollowInv, AtWork
<1>4. Truth'
  <2>1. ASSUME NEW a \in Alerts, NEW v, IsTrue(a, v)
        PROVE  IsTrue(a, v)'
    <3>1. MarketOf[a] \in Markets /\ fate \in [Markets -> Labels \cup {"open", "unclear", "gone"}]
      BY MarketAssumption DEF FollowInv, TypeOK, WorldOK
    <3>2. Gamma(a) \in Labels \cup {"gone"} => Gamma(a)' = Gamma(a)
      BY <3>1, LabelsAssumption DEF Gamma
    <3>. QED
      BY <2>1, <3>2 DEF IsTrue, Won
  <2>2. \A p \in Procs : view[p] # Idle => view[p].at \in Alerts
    BY DEF FollowInv, TypeOK, ProcsOK
  <2>. QED
    BY <2>1, <2>2 DEF FollowInv, Truth
<1>5. OneJudge'
  BY DEF FollowInv, OneJudge, InHand
<1>6. Current'
  BY DEF FollowInv, Current
<1>7. ShownFits'
  BY DEF FollowInv, ShownFits, Shows
<1>. QED
  BY <1>2, <1>3, <1>4, <1>5, <1>6, <1>7 DEF FollowInv

\* The review's emoji is on a row that is reviewed from then on.
LEMMA ReviewStep == ASSUME FollowInv, NEW a \in Alerts, ReviewReacts(a) PROVE FollowInv'
<1>. USE DEF ReviewReacts, market, row, checks, posts
<1>1. TypeOK'
  BY PlanAssumption DEF FollowInv, TypeOK, RowsOK, WorldOK, ProcsOK, HistoryOK
<1>2. AtWork'
  BY DEF FollowInv, AtWork
<1>3. Truth'
  BY DEF FollowInv, Truth, IsTrue, Gamma, Won
<1>4. OneJudge'
  BY DEF FollowInv, OneJudge, InHand
<1>5. Current'
  BY DEF FollowInv, Current
<1>6. ShownFits'
  <2>1. ASSUME NEW b \in Alerts \ (contested \cup reviewed'), Shows(b)
        PROVE  Shows(b)'
    <3>1. b # a /\ shown'[b] = shown[b]
      BY DEF FollowInv, TypeOK, WorldOK
    <3>. QED
      BY <2>1, <3>1 DEF Shows
  <2>. QED
    BY <2>1 DEF FollowInv, ShownFits
<1>. QED
  BY <1>1, <1>2, <1>3, <1>4, <1>5, <1>6 DEF FollowInv

-----------------------------------------------------------------------------
(* The verdicts *)

\* Whoever lists a row that another judges makes it contested.
LEMMA ListChecksStep == ASSUME FollowInv, NEW p \in Procs, ListChecks(p) PROVE FollowInv'
<1>1. PICK S \in First(CheckLimit, {a \in Alerts : Checkable(a)}, Checked) :
          /\ todo' = [todo EXCEPT ![p] = S]
          /\ contested' = contested \cup {a \in S : \E q \in Procs \ {p} : a \in InHand(q)}
  BY DEF ListChecks
<1>2. S \subseteq {a \in Alerts : Checkable(a)}
  BY FirstIsSubset
<1>3. /\ phase[p] = "rest" /\ phase' = [phase EXCEPT ![p] = "judge"]
      /\ UNCHANGED <<market, row, chat, seen, view, posts, shared, reviewed, faults>>
  BY DEF ListChecks
<1>4. todo[p] = {} /\ view[p] = Idle
  BY <1>3 DEF FollowInv, AtWork
<1>. USE <1>1, <1>2, <1>3, <1>4 DEF market, row, chat, posts
<1>5. TypeOK'
  BY DEF FollowInv, TypeOK, RowsOK, WorldOK, ProcsOK, HistoryOK
<1>6. AtWork'
  BY DEF FollowInv, TypeOK, ProcsOK, AtWork
<1>7. Truth'
  BY DEF FollowInv, Truth, IsTrue, Gamma, Won
<1>8. OneJudge'
  <2>1. \A q \in Procs \ {p} : InHand(q)' = InHand(q)
    BY DEF FollowInv, TypeOK, ProcsOK, InHand
  <2>2. InHand(p)' = S
    BY DEF FollowInv, TypeOK, ProcsOK, InHand
  <2>3. ASSUME NEW a \in Alerts \ contested', NEW q \in Procs, a \in InHand(q)'
        PROVE  /\ outcome[a] = "pending"
               /\ \A o \in Procs \ {q} : a \notin InHand(o)'
    <3>1. CASE q = p
      BY <2>1, <2>2, <2>3, <3>1 DEF Checkable
    <3>2. CASE q # p
      <4>1. a \in InHand(q) /\ a \notin S
        BY <2>1, <2>3, <3>2
      <4>. QED
        BY <2>1, <2>2, <4>1, <3>2 DEF FollowInv, OneJudge
    <3>. QED
      BY <3>1, <3>2
  <2>. QED
    BY <2>3 DEF OneJudge
<1>9. Current'
  BY DEF FollowInv, TypeOK, ProcsOK, Current
<1>10. ShownFits'
  BY DEF FollowInv, ShownFits, Shows
<1>. QED
  BY <1>5, <1>6, <1>7, <1>8, <1>9, <1>10 DEF FollowInv

LEMMA JudgeStep == ASSUME FollowInv, NEW p \in Procs, Judge(p) PROVE FollowInv'
<1>1. PICK a \in todo[p] : \E v \in {Classify(a, Gamma(a)), "touch"} :
          view' = [view EXCEPT ![p] = [at |-> a, says |-> v]]
  BY DEF Judge
<1>0. PICK v \in {Classify(a, Gamma(a)), "touch"} :
          view' = [view EXCEPT ![p] = [at |-> a, says |-> v]]
  BY <1>1
<1>2. /\ phase[p] = "judge"
      /\ UNCHANGED <<market, row, chat, phase, todo, seen, posts, history>>
      /\ faults' = faults \/ (faults > 0 /\ faults' = faults - 1)
  BY DEF Judge, Fault
<1>3. a \in Alerts /\ WorldOK
  BY DEF FollowInv, TypeOK, ProcsOK
<1>4. v \in Verdicts \cup {"touch"} /\ IsTrue(a, v)
  BY <1>3, ClassifyFacts DEF IsTrue
<1>5. [at |-> a, says |-> v] \in [at : Alerts, says : Results]
  BY <1>3, <1>4 DEF Results
<1>6. [at |-> a, says |-> v] # Idle
  BY <1>5, IdleIsNone
<1>. DEFINE w == [at |-> a, says |-> v]
<1>7. w \in [at : Alerts, says : Results] /\ w.at = a /\ w.says = v
  BY <1>5
<1>8. view' = [view EXCEPT ![p] = w] /\ w # Idle
  BY <1>0, <1>6
<1>. HIDE DEF w
<1>. USE <1>2 DEF market, row, chat, posts, history
<1>9. TypeOK'
  BY <1>7, <1>8 DEF FollowInv, TypeOK, RowsOK, WorldOK, ProcsOK, HistoryOK
<1>10. AtWork'
  BY <1>1, <1>4, <1>7, <1>8 DEF FollowInv, TypeOK, ProcsOK, AtWork
<1>11. Truth'
  <2>1. \A b \in Alerts : IsTrue(b, outcome[b])'
    BY DEF FollowInv, Truth, IsTrue, Gamma, Won
  <2>2. \A q \in Procs : view'[q] # Idle => IsTrue(view'[q].at, view'[q].says)
    BY <1>4, <1>7, <1>8 DEF FollowInv, TypeOK, ProcsOK, Truth
  <2>. QED
    BY <2>1, <2>2 DEF Truth, IsTrue, Gamma, Won
<1>12. OneJudge'
  BY DEF FollowInv, OneJudge, InHand
<1>13. Current'
  BY DEF FollowInv, Current
<1>14. ShownFits'
  <2>1. v # "applied"
    BY <1>4 DEF Verdicts
  <2>. QED
    BY <1>7, <1>8, <2>1 DEF FollowInv, TypeOK, ProcsOK, ShownFits, Shows
<1>. QED
  BY <1>9, <1>10, <1>11, <1>12, <1>13, <1>14 DEF FollowInv

\* The write of a row's only judge is its first, so nothing was reported of it.
LEMMA RecordStep == ASSUME FollowInv, NEW p \in Procs, Record(p) PROVE FollowInv'
<1>. DEFINE a == view[p].at
            v == view[p].says
<1>1. /\ phase[p] = "judge" /\ view[p] # Idle
      /\ view' = [view EXCEPT ![p] = Idle]
      /\ todo' = [todo EXCEPT ![p] = todo[p] \ {a}]
      /\ UNCHANGED <<market, reaction, post, chat, phase, seen, posts, history>>
  BY DEF Record, Done
<1>2. \/ /\ turn' = ToTheEnd(a) /\ faults' = faults
         /\ outcome' = outcome \/ (v # "touch" /\ outcome' = [outcome EXCEPT ![a] = v])
      \/ Fault /\ UNCHANGED <<turn, outcome>>
  BY DEF Record
<1>3. a \in todo[p] /\ a \in Alerts /\ v \in Verdicts \cup {"touch"} /\ IsTrue(a, v)
  BY <1>1 DEF FollowInv, TypeOK, ProcsOK, AtWork, Truth
<1>4. outcome' = outcome \/ (v \in Verdicts /\ outcome' = [outcome EXCEPT ![a] = v])
  BY <1>2, <1>3
<1>5. turn' = turn \/ turn' = ToTheEnd(a)
  BY <1>2
<1>6. faults' = faults \/ (faults > 0 /\ faults' = faults - 1)
  BY <1>2 DEF Fault
<1>7. a \in InHand(p)
  BY <1>1, <1>3 DEF InHand
<1>8. \A b \in Alerts : b # a => outcome'[b] = outcome[b]
  BY <1>4 DEF FollowInv, TypeOK, RowsOK
<1>. HIDE DEF a, v
<1>. USE <1>1, <1>3 DEF market, chat, posts, history
<1>9. TypeOK'
  <2>1. turn' \in [Alerts -> 1 .. Cardinality(Alerts)]
    BY <1>5, ToTheEndType DEF FollowInv, TypeOK, RowsOK
  <2>2. outcome' \in [Alerts -> Verdicts \cup {"pending"}]
    BY <1>4 DEF FollowInv, TypeOK, RowsOK
  <2>3. RowsOK' /\ HistoryOK'
    BY <1>6, <2>1, <2>2 DEF FollowInv, TypeOK, RowsOK, HistoryOK
  <2>4. WorldOK'
    BY DEF FollowInv, TypeOK, WorldOK
  <2>5. ProcsOK'
    BY DEF FollowInv, TypeOK, ProcsOK
  <2>. QED
    BY <2>3, <2>4, <2>5 DEF TypeOK
<1>10. AtWork'
  BY DEF FollowInv, TypeOK, ProcsOK, AtWork
<1>11. Truth'
  <2>1. \A b \in Alerts : IsTrue(b, outcome'[b])
    BY <1>4, <1>8 DEF FollowInv, TypeOK, RowsOK, Truth
  <2>2. \A q \in Procs : view'[q] # Idle => IsTrue(view'[q].at, view'[q].says)
    BY DEF FollowInv, TypeOK, ProcsOK, Truth
  <2>. QED
    BY <2>1, <2>2 DEF Truth, IsTrue, Gamma, Won
<1>12. OneJudge'
  <2>1. \A q \in Procs \ {p} : InHand(q)' = InHand(q)
    BY DEF FollowInv, TypeOK, ProcsOK, InHand
  <2>2. InHand(p)' = InHand(p) \ {a}
    BY DEF FollowInv, TypeOK, ProcsOK, InHand
  <2>3. ASSUME NEW b \in Alerts \ contested, NEW q \in Procs, b \in InHand(q)'
        PROVE  /\ outcome'[b] = "pending"
               /\ \A o \in Procs \ {q} : b \notin InHand(o)'
    <3>1. b \in InHand(q) /\ \A o \in Procs : InHand(o)' \subseteq InHand(o)
      BY <2>1, <2>2, <2>3
    <3>2. outcome[b] = "pending" /\ \A o \in Procs \ {q} : b \notin InHand(o)
      BY <3>1 DEF FollowInv, OneJudge
    <3>3. b # a
      BY <1>7, <2>2, <2>3, <3>2
    <3>. QED
      BY <1>8, <3>1, <3>2, <3>3
  <2>. QED
    BY <2>3 DEF OneJudge
<1>13. a \notin contested => outcome[a] = "pending"
  BY <1>7 DEF FollowInv, OneJudge
<1>14. Current'
  <2>1. ASSUME NEW b \in Alerts \ contested, NEW q \in Procs
        PROVE  /\ phase[q] = "react" /\ b \in todo'[q] =>
                     seen[q][b] = outcome'[b] /\ outcome'[b] # "pending"
               /\ job[q][b] # "no" => basis[q][b] = outcome'[b] /\ outcome'[b] # "pending"
    <3>1. todo'[q] \subseteq todo[q]
      BY DEF FollowInv, TypeOK, ProcsOK
    <3>2. CASE b = a
      BY <1>13, <3>1, <3>2 DEF FollowInv, Current
    <3>3. CASE b # a
      BY <1>8, <3>1, <3>3 DEF FollowInv, Current
    <3>. QED
      BY <3>2, <3>3
  <2>. QED
    BY <2>1 DEF Current
<1>15. ShownFits'
  <2>1. ASSUME NEW b \in Alerts \ (contested \cup reviewed)
        PROVE  Shows(b)'
    <3>1. Shows(b)
      BY DEF FollowInv, ShownFits
    <3>2. \A q \in Procs : view'[q] # Idle => view'[q] = view[q]
      BY DEF FollowInv, TypeOK, ProcsOK
    <3>3. CASE outcome'[b] = outcome[b]
      BY <3>1, <3>2, <3>3 DEF Shows
    <3>4. CASE outcome'[b] # outcome[b]
      <4>1. b = a /\ outcome[a] = "pending"
        BY <1>8, <1>13, <3>4
      <4>2. shown[a] = "none" /\ reaction[a] # "applied"
        BY <3>1, <4>1 DEF Shows, EmojiFor
      <4>3. \A q \in Procs : view'[q] # Idle /\ view'[q].at = a => view'[q].says # "applied"
        <5>1. SUFFICES ASSUME NEW q \in Procs, view'[q] # Idle, view'[q].at = a, view'[q].says = "applied"
                       PROVE  FALSE
          OBVIOUS
        <5>2. view[q] # Idle /\ view[q].at = a /\ view[q].says = "applied" /\ a \in todo[q]
          BY <3>2, <5>1 DEF FollowInv, AtWork
        <5>3. phase[q] = "react"
          BY <5>2 DEF FollowInv, TypeOK, ProcsOK, AtWork, Verdicts
        <5>. QED
          BY <4>1, <5>2, <5>3 DEF FollowInv, Current
      <4>. QED
        BY <4>1, <4>2, <4>3 DEF Shows
    <3>. QED
      BY <3>3, <3>4
  <2>. QED
    BY <2>1 DEF ShownFits
<1>. QED
  BY <1>9, <1>10, <1>11, <1>12, <1>14, <1>15 DEF FollowInv

-----------------------------------------------------------------------------
(* The reactions *)

LEMMA ListReactionsStep == ASSUME FollowInv, NEW p \in Procs, ListReactions(p) PROVE FollowInv'
<1>1. /\ UNCHANGED <<market, row, chat, view, posts, history>>
      /\ phase[p] \in {"judge", "rest"}
      /\ todo[p] = {}
  BY DEF ListReactions, FollowInv, AtWork
<1>2. \/ \E S \in First(CheckLimit, {a \in Alerts : Reactable(a)}, NewestFirst) :
            /\ todo' = [todo EXCEPT ![p] = S]
            /\ seen' = [seen EXCEPT ![p] = [a \in Alerts |-> IF a \in S THEN outcome[a] ELSE "pending"]]
            /\ phase' = [phase EXCEPT ![p] = "react"]
            /\ faults' = faults
      \/ /\ faults > 0 /\ faults' = faults - 1
         /\ phase' = [phase EXCEPT ![p] = "rest"]
         /\ UNCHANGED <<todo, seen>>
  BY DEF ListReactions, Fault
<1>3. PICK S, n :
         /\ S \subseteq {a \in Alerts : Reactable(a)}
         /\ todo' = [todo EXCEPT ![p] = S]
         /\ \/ seen' = [seen EXCEPT ![p] = [a \in Alerts |-> IF a \in S THEN outcome[a] ELSE "pending"]]
            \/ S = {} /\ seen' = seen
         /\ n \in {"react", "rest"} /\ (n = "rest" => S = {})
         /\ phase' = [phase EXCEPT ![p] = n]
         /\ faults' = faults \/ (faults > 0 /\ faults' = faults - 1)
  <2>1. CASE \E S \in First(CheckLimit, {a \in Alerts : Reactable(a)}, NewestFirst) :
            /\ todo' = [todo EXCEPT ![p] = S]
            /\ seen' = [seen EXCEPT ![p] = [a \in Alerts |-> IF a \in S THEN outcome[a] ELSE "pending"]]
            /\ phase' = [phase EXCEPT ![p] = "react"]
            /\ faults' = faults
    BY <2>1, FirstIsSubset, ZenonT(60)
  <2>2. CASE /\ faults > 0 /\ faults' = faults - 1
             /\ phase' = [phase EXCEPT ![p] = "rest"]
             /\ UNCHANGED <<todo, seen>>
    <3>1. todo' = [todo EXCEPT ![p] = {}]
      BY <1>1, <2>2 DEF FollowInv, TypeOK, ProcsOK
    <3>. QED
      BY <2>2, <3>1
  <2>. QED
    BY <1>2, <2>1, <2>2
<1>4. view[p] = Idle
  BY <1>1 DEF FollowInv, AtWork
<1>. USE <1>1, <1>3, <1>4 DEF market, row, chat, posts, history
<1>5. TypeOK'
  <2>1. RowsOK' /\ WorldOK' /\ HistoryOK'
    BY DEF FollowInv, TypeOK, RowsOK, WorldOK, HistoryOK
  <2>2. [a \in Alerts |-> IF a \in S THEN outcome[a] ELSE "pending"] \in [Alerts -> Verdicts \cup {"pending"}]
    BY DEF FollowInv, TypeOK, RowsOK
  <2>3. ProcsOK'
    BY <2>2 DEF FollowInv, TypeOK, ProcsOK
  <2>. QED
    BY <2>1, <2>3 DEF TypeOK
<1>6. AtWork'
  BY DEF FollowInv, TypeOK, ProcsOK, AtWork
<1>7. Truth'
  BY DEF FollowInv, Truth, IsTrue, Gamma, Won
<1>8. OneJudge'
  <2>1. \A q \in Procs : InHand(q)' \subseteq InHand(q)
    BY DEF FollowInv, TypeOK, ProcsOK, InHand
  <2>. QED
    BY <2>1 DEF FollowInv, OneJudge
<1>9. Current'
  <2>1. ASSUME NEW a \in Alerts \ contested, NEW q \in Procs
        PROVE  phase'[q] = "react" /\ a \in todo'[q] => seen'[q][a] = outcome[a] /\ outcome[a] # "pending"
    <3>1. CASE q = p
      <4>1. a \in S => outcome[a] # "pending"
        BY DEF Reactable
      <4>. QED
        BY <3>1, <4>1 DEF FollowInv, TypeOK, ProcsOK
    <3>2. CASE q # p
      BY <3>2 DEF FollowInv, TypeOK, ProcsOK, Current
    <3>. QED
      BY <3>1, <3>2
  <2>. QED
    BY <2>1 DEF FollowInv, Current
<1>10. ShownFits'
  BY DEF FollowInv, ShownFits, Shows
<1>. QED
  BY <1>5, <1>6, <1>7, <1>8, <1>9, <1>10 DEF FollowInv

\* The message only ever moves to the verdict that was listed, which is still the row's.
LEMMA ReactStep == ASSUME FollowInv, NEW p \in Procs, React(p) PROVE FollowInv'
<1>1. /\ phase[p] = "react" /\ view[p] = Idle
      /\ UNCHANGED <<market, row, told, phase, todo, seen, posts, history>>
  BY DEF React
<1>2. PICK a \in todo[p] :
         LET e == EmojiFor(seen[p][a]) IN
          IF a \in Unrecorded \/ e = "none"
          THEN /\ view' = [view EXCEPT ![p] =
                      [at |-> a, says |-> IF a \in Unrecorded THEN "unsupported" ELSE "disabled"]]
               /\ UNCHANGED <<shown, faults>>
          ELSE \E r \in Answers(a, e) \cup Mishaps(a, e) :
                  /\ IF r.fault THEN Fault ELSE UNCHANGED faults
                  /\ shown' = [shown EXCEPT ![a] = r.emoji]
                  /\ view' = [view EXCEPT ![p] = [at |-> a, says |-> r.says]]
  BY DEF React
<1>3. a \in Alerts
  BY DEF FollowInv, TypeOK, ProcsOK
<1>. DEFINE e == EmojiFor(seen[p][a])
<1>4. PICK s, x :
         /\ s \in Settled \cup {"failed"}
         /\ x \in Emojis /\ x \in {e, shown[a]}
         /\ s = "applied" => x = e
         /\ shown' = [shown EXCEPT ![a] = x]
         /\ view' = [view EXCEPT ![p] = [at |-> a, says |-> s]]
         /\ faults' = faults \/ (faults > 0 /\ faults' = faults - 1)
  <2>1. CASE a \in Unrecorded \/ e = "none"
    <3>1. PICK s \in {"unsupported", "disabled"} : view' = [view EXCEPT ![p] = [at |-> a, says |-> s]]
      BY <1>2, <2>1
    <3>2. shown' = [shown EXCEPT ![a] = shown[a]] /\ shown[a] \in Emojis /\ faults' = faults
      BY <1>2, <1>3, <2>1 DEF FollowInv, TypeOK, WorldOK
    <3>. QED
      BY <3>1, <3>2 DEF Settled
  <2>2. CASE ~(a \in Unrecorded \/ e = "none")
    <3>1. PICK r \in Answers(a, e) \cup Mishaps(a, e) :
                  /\ IF r.fault THEN Fault ELSE UNCHANGED faults
                  /\ shown' = [shown EXCEPT ![a] = r.emoji]
                  /\ view' = [view EXCEPT ![p] = [at |-> a, says |-> r.says]]
      BY <1>2, <2>2
    <3>2. WorldOK /\ e \in Emojis
      BY EmojiType DEF FollowInv, TypeOK
    <3>3. /\ r.emoji \in {e, shown[a]} /\ r.emoji \in Emojis
          /\ r.says \in Settled \cup {"failed"}
          /\ r.says = "applied" => r.emoji = e
      BY <1>3, <3>2, AnswerFacts
    <3>4. faults' = faults \/ (faults > 0 /\ faults' = faults - 1)
      BY <3>1 DEF Fault
    <3>. QED
      BY <3>1, <3>3, <3>4
  <2>. QED
    BY <2>1, <2>2
<1>5. a \notin contested => e = EmojiFor(outcome[a]) /\ outcome[a] # "pending"
  BY <1>1, <1>3 DEF FollowInv, Current
<1>. DEFINE w == [at |-> a, says |-> s]
<1>6. w \in [at : Alerts, says : Results] /\ w.at = a /\ w.says = s /\ w # Idle
  <2>1. w \in [at : Alerts, says : Results]
    BY <1>3, <1>4 DEF Results
  <2>. QED
    BY <2>1, IdleIsNone
<1>7. view' = [view EXCEPT ![p] = w]
  BY <1>4
<1>. HIDE DEF w, e
<1>. USE <1>1, <1>4, <1>6, <1>7 DEF market, row, posts, history
<1>8. TypeOK'
  <2>1. RowsOK' /\ HistoryOK' /\ WorldOK'
    BY <1>3 DEF FollowInv, TypeOK, RowsOK, HistoryOK, WorldOK
  <2>2. ProcsOK'
    BY DEF FollowInv, TypeOK, ProcsOK
  <2>. QED
    BY <2>1, <2>2 DEF TypeOK
<1>9. AtWork'
  BY DEF FollowInv, TypeOK, ProcsOK, AtWork
<1>10. Truth'
  <2>1. \A b \in Alerts : IsTrue(b, outcome[b])'
    BY DEF FollowInv, Truth, IsTrue, Gamma, Won
  <2>2. s \notin {"correct", "wrong"} /\ s # "unavailable"
    BY DEF Settled
  <2>3. IsTrue(a, s)
    BY <2>2 DEF IsTrue
  <2>4. \A q \in Procs : view'[q] # Idle => IsTrue(view'[q].at, view'[q].says)
    BY <2>3 DEF FollowInv, TypeOK, ProcsOK, Truth
  <2>. QED
    BY <2>1, <2>4 DEF Truth, IsTrue, Gamma, Won
<1>11. OneJudge'
  BY DEF FollowInv, OneJudge, InHand
<1>12. Current'
  BY DEF FollowInv, Current
<1>13. ShownFits'
  <2>1. ASSUME NEW b \in Alerts \ (contested \cup reviewed)
        PROVE  Shows(b)'
    <3>1. Shows(b)
      BY DEF FollowInv, ShownFits
    <3>2. \A q \in Procs : q # p => view'[q] = view[q]
      BY DEF FollowInv, TypeOK, ProcsOK
    <3>3. view'[p] = w
      BY DEF FollowInv, TypeOK, ProcsOK
    <3>4. CASE b # a
      <4>1. shown'[b] = shown[b]
        BY <3>4 DEF FollowInv, TypeOK, WorldOK
      <4>. QED
        BY <3>1, <3>2, <3>3, <3>4, <4>1 DEF Shows
    <3>5. CASE b = a
      <4>1. shown'[a] = x
        BY <1>3 DEF FollowInv, TypeOK, WorldOK
      <4>2. x \in {EmojiFor(outcome[a]), shown[a]} /\ (s = "applied" => x = EmojiFor(outcome[a]))
        BY <1>5, <3>5
      <4>3. x = shown[a] \/ x = EmojiFor(outcome[a])
        BY <4>2
      <4>. QED
        BY <3>1, <3>2, <3>3, <3>5, <4>1, <4>2, <4>3 DEF Shows
    <3>. QED
      BY <3>4, <3>5
  <2>. QED
    BY <2>1 DEF ShownFits
<1>. QED
  BY <1>8, <1>9, <1>10, <1>11, <1>12, <1>13 DEF FollowInv

LEMMA RecordReactionStep == ASSUME FollowInv, NEW p \in Procs, RecordReaction(p) PROVE FollowInv'
<1>. DEFINE a == view[p].at
            s == view[p].says
<1>1. /\ phase[p] = "react" /\ view[p] # Idle
      /\ view' = [view EXCEPT ![p] = Idle]
      /\ todo' = [todo EXCEPT ![p] = todo[p] \ {a}]
      /\ reaction' = reaction \/ reaction' = [reaction EXCEPT ![a] = s]
      /\ faults' = faults \/ (faults > 0 /\ faults' = faults - 1)
      /\ UNCHANGED <<market, outcome, turn, post, chat, phase, seen, posts, history>>
  BY DEF RecordReaction, Done, Fault
<1>2. a \in todo[p] /\ a \in Alerts /\ s \in Settled \cup {"failed"}
  BY <1>1 DEF FollowInv, TypeOK, ProcsOK, AtWork
<1>3. a \notin contested => outcome[a] # "pending"
  BY <1>1, <1>2 DEF FollowInv, Current
<1>4. a \notin contested \cup reviewed /\ s = "applied" => shown[a] = EmojiFor(outcome[a])
  BY <1>1, <1>2 DEF FollowInv, ShownFits, Shows
<1>. HIDE DEF a, s
<1>. USE <1>1, <1>2 DEF market, chat, posts, history
<1>5. TypeOK'
  <2>1. RowsOK' /\ HistoryOK' /\ WorldOK'
    BY DEF FollowInv, TypeOK, RowsOK, HistoryOK, WorldOK
  <2>2. ProcsOK'
    BY DEF FollowInv, TypeOK, ProcsOK
  <2>. QED
    BY <2>1, <2>2 DEF TypeOK
<1>6. AtWork'
  BY DEF FollowInv, TypeOK, ProcsOK, AtWork
<1>7. Truth'
  <2>1. \A q \in Procs : view'[q] # Idle => view'[q] = view[q]
    BY DEF FollowInv, TypeOK, ProcsOK
  <2>. QED
    BY <2>1 DEF FollowInv, Truth, IsTrue, Gamma, Won
<1>8. OneJudge'
  <2>1. \A q \in Procs : InHand(q)' \subseteq InHand(q)
    BY DEF FollowInv, TypeOK, ProcsOK, InHand
  <2>. QED
    BY <2>1 DEF FollowInv, OneJudge
<1>9. Current'
  <2>1. \A q \in Procs : todo'[q] \subseteq todo[q]
    BY DEF FollowInv, TypeOK, ProcsOK
  <2>. QED
    BY <2>1 DEF FollowInv, Current
<1>10. ShownFits'
  <2>1. ASSUME NEW b \in Alerts \ (contested \cup reviewed)
        PROVE  Shows(b)'
    <3>1. Shows(b)
      BY DEF FollowInv, ShownFits
    <3>2. \A q \in Procs : view'[q] # Idle => view'[q] = view[q]
      BY DEF FollowInv, TypeOK, ProcsOK
    <3>3. reaction'[b] = "applied" => reaction[b] = "applied" \/ (b = a /\ s = "applied")
      BY DEF FollowInv, TypeOK, RowsOK
    <3>. QED
      BY <1>3, <1>4, <3>1, <3>2, <3>3 DEF Shows
  <2>. QED
    BY <2>1 DEF ShownFits
<1>. QED
  BY <1>5, <1>6, <1>7, <1>8, <1>9, <1>10 DEF FollowInv

LEMMA EndTickStep == ASSUME FollowInv, NEW p \in Procs, EndTick(p) PROVE FollowInv'
<1>. USE DEF EndTick, market, row, chat, posts, history
<1>1. TypeOK'
  <2>1. RowsOK' /\ HistoryOK' /\ WorldOK'
    BY DEF FollowInv, TypeOK, RowsOK, HistoryOK, WorldOK
  <2>2. ProcsOK'
    BY DEF FollowInv, TypeOK, ProcsOK
  <2>. QED
    BY <2>1, <2>2 DEF TypeOK
<1>2. AtWork'
  BY DEF FollowInv, TypeOK, ProcsOK, AtWork
<1>3. Truth'
  BY DEF FollowInv, Truth, IsTrue, Gamma, Won
<1>4. OneJudge'
  <2>1. \A q \in Procs : InHand(q)' \subseteq InHand(q)
    BY DEF FollowInv, TypeOK, ProcsOK, InHand
  <2>. QED
    BY <2>1 DEF FollowInv, OneJudge
<1>5. Current'
  BY DEF FollowInv, TypeOK, ProcsOK, Current
<1>6. ShownFits'
  BY DEF FollowInv, ShownFits, Shows
<1>. QED
  BY <1>1, <1>2, <1>3, <1>4, <1>5, <1>6 DEF FollowInv

-----------------------------------------------------------------------------
(* The postmortems and a crash *)

LEMMA ListPostsStep == ASSUME FollowInv, NEW p \in Procs, ListPosts(p) PROVE FollowInv'
<1>1. PICK S \in First(PostLimit, {a \in Alerts : Learnable(a)}, LatestFirst) :
          /\ job' = [job EXCEPT ![p] = [a \in Alerts |-> IF a \in S THEN "think" ELSE "no"]]
          /\ basis' = [basis EXCEPT ![p] = [a \in Alerts |-> IF a \in S THEN outcome[a] ELSE "pending"]]
          /\ shared' = shared \cup {a \in S : \E q \in Procs \ {p} : job[q][a] # "no"}
  BY DEF ListPosts
<1>2. S \subseteq {a \in Alerts : Learnable(a)}
  BY FirstIsSubset
<1>3. UNCHANGED <<market, row, chat, checks, contested, reviewed, faults>>
  BY DEF ListPosts
<1>. USE <1>1, <1>2, <1>3 DEF market, row, chat, checks
<1>4. TypeOK'
  <2>1. RowsOK' /\ HistoryOK' /\ WorldOK'
    BY DEF FollowInv, TypeOK, RowsOK, HistoryOK, WorldOK
  <2>2. [a \in Alerts |-> IF a \in S THEN outcome[a] ELSE "pending"] \in [Alerts -> Verdicts \cup {"pending"}]
    BY DEF FollowInv, TypeOK, RowsOK
  <2>3. [a \in Alerts |-> IF a \in S THEN "think" ELSE "no"] \in [Alerts -> {"no", "think", "tell", "mark"}]
    OBVIOUS
  <2>4. ProcsOK'
    BY <2>2, <2>3 DEF FollowInv, TypeOK, ProcsOK
  <2>. QED
    BY <2>1, <2>4 DEF TypeOK
<1>5. AtWork'
  BY DEF FollowInv, AtWork
<1>6. Truth'
  BY DEF FollowInv, Truth, IsTrue, Gamma, Won
<1>7. OneJudge'
  BY DEF FollowInv, OneJudge, InHand
<1>8. Current'
  <2>1. ASSUME NEW a \in Alerts \ contested, NEW q \in Procs, job'[q][a] # "no"
        PROVE  basis'[q][a] = outcome[a] /\ outcome[a] # "pending"
    <3>1. CASE q = p
      <4>1. a \in S
        BY <2>1, <3>1 DEF FollowInv, TypeOK, ProcsOK
      <4>. QED
        BY <3>1, <4>1 DEF FollowInv, TypeOK, ProcsOK, Learnable
    <3>2. CASE q # p
      BY <2>1, <3>2 DEF FollowInv, TypeOK, ProcsOK, Current
    <3>. QED
      BY <3>1, <3>2
  <2>. QED
    BY <2>1 DEF FollowInv, Current
<1>9. ShownFits'
  BY DEF FollowInv, ShownFits, Shows
<1>. QED
  BY <1>4, <1>5, <1>6, <1>7, <1>8, <1>9 DEF FollowInv

\* A postmortem keeps the verdict it was listed with until it is over.
LEMMA AdvanceFacts ==
    ASSUME TypeOK, NEW p \in Procs, NEW a \in Alerts, NEW to \in {"no", "tell", "mark"}, Advance(p, a, to),
           job[p][a] # "no"
    PROVE  /\ job' \in [Procs -> [Alerts -> {"no", "think", "tell", "mark"}]]
           /\ basis' \in [Procs -> [Alerts -> Verdicts \cup {"pending"}]]
           /\ \A q \in Procs, b \in Alerts :
                 job'[q][b] # "no" => job[q][b] # "no" /\ basis'[q][b] = basis[q][b]
<1>. DEFINE f == [job[p] EXCEPT ![a] = to]
            x == IF to = "no" THEN "pending" ELSE basis[p][a]
            g == [basis[p] EXCEPT ![a] = x]
<1>1. job' = [job EXCEPT ![p] = f] /\ basis' = [basis EXCEPT ![p] = g]
  BY DEF Advance, TypeOK, ProcsOK
<1>2. x \in Verdicts \cup {"pending"} /\ (to # "no" => x = basis[p][a])
  BY DEF TypeOK, ProcsOK
<1>. HIDE DEF x
<1>3. /\ f \in [Alerts -> {"no", "think", "tell", "mark"}]
      /\ g \in [Alerts -> Verdicts \cup {"pending"}]
      /\ f[a] = to /\ g[a] = x
      /\ \A b \in Alerts : b # a => f[b] = job[p][b] /\ g[b] = basis[p][b]
  BY <1>2 DEF TypeOK, ProcsOK
<1>. HIDE DEF f, g
<1>4. /\ job' \in [Procs -> [Alerts -> {"no", "think", "tell", "mark"}]]
      /\ basis' \in [Procs -> [Alerts -> Verdicts \cup {"pending"}]]
      /\ job'[p] = f /\ basis'[p] = g
      /\ \A q \in Procs : q # p => job'[q] = job[q] /\ basis'[q] = basis[q]
  BY <1>1, <1>3 DEF TypeOK, ProcsOK
<1>. QED
  BY <1>2, <1>3, <1>4

LEMMA PersistStep ==
    ASSUME FollowInv, NEW p \in Procs, NEW a \in Alerts, Persist(p, a) PROVE FollowInv'
<1>1. /\ job[p][a] # "no"
      /\ post' \in {post, [post EXCEPT ![a] = TRUE]}
      /\ \E to \in {"no", "tell", "mark"} : Advance(p, a, to)
      /\ faults' = faults \/ (faults > 0 /\ faults' = faults - 1)
      /\ UNCHANGED <<market, outcome, turn, reaction, chat, checks, history>>
  BY DEF Persist, Fault
<1>2. /\ job' \in [Procs -> [Alerts -> {"no", "think", "tell", "mark"}]]
      /\ basis' \in [Procs -> [Alerts -> Verdicts \cup {"pending"}]]
      /\ \A q \in Procs, b \in Alerts :
            job'[q][b] # "no" => job[q][b] # "no" /\ basis'[q][b] = basis[q][b]
  BY <1>1, AdvanceFacts DEF FollowInv
<1>. USE <1>1, <1>2 DEF market, chat, checks, history
<1>3. TypeOK'
  <2>1. RowsOK'
    BY DEF FollowInv, TypeOK, RowsOK
  <2>2. HistoryOK' /\ WorldOK'
    BY DEF FollowInv, TypeOK, HistoryOK, WorldOK
  <2>3. ProcsOK'
    BY DEF FollowInv, TypeOK, ProcsOK
  <2>. QED
    BY <2>1, <2>2, <2>3 DEF TypeOK
<1>4. AtWork'
  BY DEF FollowInv, AtWork
<1>5. Truth'
  BY DEF FollowInv, Truth, IsTrue, Gamma, Won
<1>6. OneJudge'
  BY DEF FollowInv, OneJudge, InHand
<1>7. Current'
  BY DEF FollowInv, Current
<1>8. ShownFits'
  BY DEF FollowInv, ShownFits, Shows
<1>. QED
  BY <1>3, <1>4, <1>5, <1>6, <1>7, <1>8 DEF FollowInv

LEMMA TellStep ==
    ASSUME FollowInv, NEW p \in Procs, NEW a \in Alerts, Tell(p, a) PROVE FollowInv'
<1>1. /\ job[p][a] # "no"
      /\ told' \in {told, [told EXCEPT ![a] = @ + 1]}
      /\ \E to \in {"no", "tell", "mark"} : Advance(p, a, to)
      /\ faults' = faults \/ (faults > 0 /\ faults' = faults - 1)
      /\ UNCHANGED <<market, row, shown, checks, history>>
  BY DEF Tell, Fault
<1>2. /\ job' \in [Procs -> [Alerts -> {"no", "think", "tell", "mark"}]]
      /\ basis' \in [Procs -> [Alerts -> Verdicts \cup {"pending"}]]
      /\ \A q \in Procs, b \in Alerts :
            job'[q][b] # "no" => job[q][b] # "no" /\ basis'[q][b] = basis[q][b]
  BY <1>1, AdvanceFacts DEF FollowInv
<1>. USE <1>1, <1>2 DEF market, row, checks, history
<1>3. TypeOK'
  <2>1. RowsOK' /\ HistoryOK'
    BY DEF FollowInv, TypeOK, RowsOK, HistoryOK
  <2>2. WorldOK'
    BY DEF FollowInv, TypeOK, WorldOK
  <2>3. ProcsOK'
    BY DEF FollowInv, TypeOK, ProcsOK
  <2>. QED
    BY <2>1, <2>2, <2>3 DEF TypeOK
<1>4. AtWork'
  BY DEF FollowInv, AtWork
<1>5. Truth'
  BY DEF FollowInv, Truth, IsTrue, Gamma, Won
<1>6. OneJudge'
  BY DEF FollowInv, OneJudge, InHand
<1>7. Current'
  BY DEF FollowInv, Current
<1>8. ShownFits'
  BY DEF FollowInv, ShownFits, Shows
<1>. QED
  BY <1>3, <1>4, <1>5, <1>6, <1>7, <1>8 DEF FollowInv

\* The postmortem's emoji is of the verdict it was listed with, hence the row's.
LEMMA MarkStep ==
    ASSUME FollowInv, NEW p \in Procs, NEW a \in Alerts, Mark(p, a) PROVE FollowInv'
<1>. DEFINE e == EmojiFor(basis[p][a])
<1>1. /\ job[p][a] # "no"
      /\ \E r \in Answers(a, e) \cup Mishaps(a, e) :
            /\ IF r.fault THEN Fault ELSE UNCHANGED faults
            /\ shown' = [shown EXCEPT ![a] = r.emoji]
      /\ \E to \in {"no", "tell", "mark"} : Advance(p, a, to)
      /\ UNCHANGED <<market, row, told, checks, history>>
  BY DEF Mark
<1>2. /\ job' \in [Procs -> [Alerts -> {"no", "think", "tell", "mark"}]]
      /\ basis' \in [Procs -> [Alerts -> Verdicts \cup {"pending"}]]
      /\ \A q \in Procs, b \in Alerts :
            job'[q][b] # "no" => job[q][b] # "no" /\ basis'[q][b] = basis[q][b]
  BY <1>1, AdvanceFacts DEF FollowInv
<1>3. PICK x :
         /\ x \in Emojis /\ x \in {e, shown[a]}
         /\ shown' = [shown EXCEPT ![a] = x]
         /\ faults' = faults \/ (faults > 0 /\ faults' = faults - 1)
  <2>1. PICK r \in Answers(a, e) \cup Mishaps(a, e) :
            /\ IF r.fault THEN Fault ELSE UNCHANGED faults
            /\ shown' = [shown EXCEPT ![a] = r.emoji]
    BY <1>1
  <2>2. WorldOK /\ e \in Emojis
    BY EmojiType DEF FollowInv, TypeOK
  <2>3. r.emoji \in {e, shown[a]} /\ r.emoji \in Emojis
    BY <2>2, AnswerFacts
  <2>4. faults' = faults \/ (faults > 0 /\ faults' = faults - 1)
    BY <2>1 DEF Fault
  <2>. QED
    BY <2>1, <2>3, <2>4
<1>4. a \notin contested => e = EmojiFor(outcome[a])
  BY <1>1 DEF FollowInv, Current
<1>5. UNCHANGED <<market, row, told, checks, history>>
  BY <1>1
<1>. HIDE DEF e
<1>. USE <1>2, <1>3, <1>5 DEF market, row, checks, history
<1>6. TypeOK'
  <2>1. RowsOK' /\ HistoryOK'
    BY DEF FollowInv, TypeOK, RowsOK, HistoryOK
  <2>2. WorldOK'
    BY DEF FollowInv, TypeOK, WorldOK
  <2>3. ProcsOK'
    BY DEF FollowInv, TypeOK, ProcsOK
  <2>. QED
    BY <2>1, <2>2, <2>3 DEF TypeOK
<1>7. AtWork'
  BY DEF FollowInv, AtWork
<1>8. Truth'
  BY DEF FollowInv, Truth, IsTrue, Gamma, Won
<1>9. OneJudge'
  BY DEF FollowInv, OneJudge, InHand
<1>10. Current'
  BY DEF FollowInv, Current
<1>11. ShownFits'
  <2>1. ASSUME NEW b \in Alerts \ (contested \cup reviewed)
        PROVE  Shows(b)'
    <3>1. Shows(b)
      BY DEF FollowInv, ShownFits
    <3>2. CASE b # a
      <4>1. shown'[b] = shown[b]
        BY <3>2 DEF FollowInv, TypeOK, WorldOK
      <4>. QED
        BY <3>1, <4>1 DEF Shows
    <3>3. CASE b = a
      <4>1. shown'[a] = x
        BY DEF FollowInv, TypeOK, WorldOK
      <4>2. x = shown[a] \/ x = EmojiFor(outcome[a])
        BY <1>4, <3>3
      <4>. QED
        BY <3>1, <3>3, <4>1, <4>2 DEF Shows
    <3>. QED
      BY <3>2, <3>3
  <2>. QED
    BY <2>1 DEF ShownFits
<1>. QED
  BY <1>6, <1>7, <1>8, <1>9, <1>10, <1>11 DEF FollowInv

LEMMA CrashStep == ASSUME FollowInv, NEW p \in Procs, Crash(p) PROVE FollowInv'
<1>. USE DEF Crash, market, row, chat, history
<1>1. TypeOK'
  <2>1. RowsOK' /\ WorldOK'
    BY DEF FollowInv, TypeOK, RowsOK, WorldOK
  <2>2. HistoryOK'
    BY DEF FollowInv, TypeOK, HistoryOK, Fault
  <2>3. ProcsOK'
    BY DEF FollowInv, TypeOK, ProcsOK
  <2>. QED
    BY <2>1, <2>2, <2>3 DEF TypeOK
<1>2. AtWork'
  BY DEF FollowInv, TypeOK, ProcsOK, AtWork
<1>3. \A q \in Procs : view'[q] # Idle => view'[q] = view[q]
  BY DEF FollowInv, TypeOK, ProcsOK
<1>4. Truth'
  BY <1>3 DEF FollowInv, Truth, IsTrue, Gamma, Won
<1>5. OneJudge'
  <2>1. \A q \in Procs : InHand(q)' \subseteq InHand(q)
    BY DEF FollowInv, TypeOK, ProcsOK, InHand
  <2>. QED
    BY <2>1 DEF FollowInv, OneJudge
<1>6. Current'
  BY DEF FollowInv, TypeOK, ProcsOK, Current
<1>7. ShownFits'
  BY <1>3 DEF FollowInv, ShownFits, Shows
<1>. QED
  BY <1>1, <1>2, <1>4, <1>5, <1>6, <1>7 DEF FollowInv

\* Every step of the three workers, and every step beside them.
LEMMA FollowNext == ASSUME FollowInv, Next PROVE FollowInv'
<1>1. ASSUME NEW p \in Procs, Outcomes(p) PROVE FollowInv'
  BY <1>1, ListChecksStep, JudgeStep, RecordStep, ListReactionsStep, ReactStep,
     RecordReactionStep, EndTickStep DEF Outcomes
<1>2. ASSUME NEW p \in Procs, NEW a \in Alerts, Postmortem(p, a) PROVE FollowInv'
  BY <1>2, PersistStep, TellStep, MarkStep DEF Postmortem
<1>. QED
  BY <1>1, <1>2, FallsDueStep, EndsStep, ReviewStep, ListPostsStep, CrashStep DEF Next

LEMMA FollowRests ==
    ASSUME FollowInv, UNCHANGED follow, faults' \in Nat PROVE FollowInv'
<1>. USE DEF follow, market, row, chat, checks, posts, history
<1>1. TypeOK'
  BY DEF FollowInv, TypeOK, RowsOK, WorldOK, ProcsOK, HistoryOK
<1>2. AtWork'
  BY DEF FollowInv, AtWork
<1>3. Truth'
  BY DEF FollowInv, Truth, IsTrue, Gamma, Won
<1>4. OneJudge'
  BY DEF FollowInv, OneJudge, InHand
<1>5. Current'
  BY DEF FollowInv, Current
<1>6. ShownFits'
  BY DEF FollowInv, ShownFits, Shows
<1>. QED
  BY <1>1, <1>2, <1>3, <1>4, <1>5, <1>6 DEF FollowInv

-----------------------------------------------------------------------------
(* PriceDrift *)

\* What a row at work has found was traded, whatever was traded since.
FoundIsBacked ==
    \A p \in Procs : work[p] # Rest => work[p].found \subseteq 1 .. last[work[p].at]

DriftInv == DriftTypeOK /\ NumbersAreBacked /\ FoundIsBacked

LEMMA RestIsNone == \A w \in [at : Alerts, win : 1 .. N + 1, found : SUBSET Windows] : w # Rest
BY AlertsAssumption DEF Rest

LEMMA DriftStart == DriftInit /\ side \in {"followup", "drift"} => DriftInv
BY DriftAssumption DEF DriftInit, DriftInv, DriftTypeOK, NumbersAreBacked, FoundIsBacked

LEMMA ElapseStep == ASSUME DriftInv, NEW a \in Alerts, Elapse(a), UNCHANGED side PROVE DriftInv'
<1>. USE DEF Elapse, process
<1>1. DriftTypeOK'
  BY DriftAssumption DEF DriftInv, DriftTypeOK
<1>2. NumbersAreBacked' /\ FoundIsBacked'
  BY DEF DriftInv, NumbersAreBacked, FoundIsBacked
<1>. QED
  BY <1>1, <1>2 DEF DriftInv

\* The newest trade only gets younger.
LEMMA TradesStep == ASSUME DriftInv, NEW a \in Alerts, Trades(a), UNCHANGED side PROVE DriftInv'
<1>. USE DEF Trades, process
<1>1. DriftTypeOK'
  BY DEF DriftInv, DriftTypeOK
<1>2. \A b \in Alerts : 1 .. last[b] \subseteq 1 .. last'[b]
  BY DEF DriftInv, DriftTypeOK
<1>3. NumbersAreBacked'
  BY <1>2 DEF DriftInv, NumbersAreBacked
<1>4. FoundIsBacked'
  BY <1>2 DEF DriftInv, DriftTypeOK, FoundIsBacked
<1>. QED
  BY <1>1, <1>3, <1>4 DEF DriftInv

LEMMA ListStep == ASSUME DriftInv, NEW p \in Procs, List(p), UNCHANGED side PROVE DriftInv'
<1>1. PICK S \in First(DriftLimit, {a \in Alerts : Listable(a)}, Oldest) :
          list' = [list EXCEPT ![p] = S]
  BY DEF List
<1>2. S \subseteq Alerts
  BY FirstIsSubset
<1>. USE DEF List, table
<1>3. DriftTypeOK'
  BY <1>1, <1>2 DEF DriftInv, DriftTypeOK
<1>4. NumbersAreBacked' /\ FoundIsBacked'
  BY DEF DriftInv, NumbersAreBacked, FoundIsBacked
<1>. QED
  BY <1>3, <1>4 DEF DriftInv

LEMMA TakeStep ==
    ASSUME DriftInv, NEW p \in Procs, NEW a \in Alerts, Take(p, a), UNCHANGED side PROVE DriftInv'
<1>. DEFINE w == [at |-> a, win |-> 1, found |-> {}]
<1>1. w \in [at : Alerts, win : 1 .. N + 1, found : SUBSET Windows] /\ w.at = a /\ w.found = {}
  BY DriftAssumption DEF Windows
<1>2. CASE /\ work' = [work EXCEPT ![p] = w]
           /\ UNCHANGED <<drift, clv, list>>
  <2>. HIDE DEF w
  <2>1. UNCHANGED <<side, age, last, tick>> /\ tick[p] = "busy" /\ a \in list[p]
    BY DEF Take
  <2>2. DriftTypeOK'
    BY <1>1, <1>2, <2>1 DEF DriftInv, DriftTypeOK
  <2>3. NumbersAreBacked'
    BY <1>2, <2>1 DEF DriftInv, NumbersAreBacked
  <2>4. FoundIsBacked'
    BY <1>1, <1>2, <2>1 DEF DriftInv, DriftTypeOK, FoundIsBacked
  <2>. QED
    BY <2>2, <2>3, <2>4 DEF DriftInv
<1>3. CASE /\ \/ /\ drift' = [drift EXCEPT ![a] = "unavailable"]
                 /\ clv' = [clv EXCEPT ![a] = {}]
              \/ UNCHANGED <<drift, clv>>
           /\ list' = [list EXCEPT ![p] = @ \ {a}]
           /\ UNCHANGED work
  <2>1. UNCHANGED <<side, age, last, tick>> /\ work[p] = Rest
    BY DEF Take
  <2>2. DriftTypeOK'
    BY <1>3, <2>1 DEF DriftInv, DriftTypeOK
  <2>3. NumbersAreBacked'
    BY <1>3, <2>1 DEF DriftInv, DriftTypeOK, NumbersAreBacked
  <2>4. FoundIsBacked'
    BY <1>3, <2>1 DEF DriftInv, FoundIsBacked
  <2>. QED
    BY <2>2, <2>3, <2>4 DEF DriftInv
<1>. QED
  BY <1>2, <1>3 DEF Take

\* The row at work after one look.
LEMMA WorkWith ==
    ASSUME NEW r \in [at : Alerts, win : 1 .. N + 1, found : SUBSET Windows],
           NEW n \in 1 .. N + 1, NEW G \in SUBSET Windows
    PROVE  LET w == [r EXCEPT !.win = n, !.found = G]
           IN  w \in [at : Alerts, win : 1 .. N + 1, found : SUBSET Windows] /\ w.at = r.at /\ w.found = G
<1>. DEFINE u == [r EXCEPT !.win = n]
            w == [u EXCEPT !.found = G]
<1>1. u \in [at : Alerts, win : 1 .. N + 1, found : SUBSET Windows] /\ u.at = r.at
  OBVIOUS
<1>2. w = [r EXCEPT !.win = n, !.found = G]
  OBVIOUS
<1>. HIDE DEF u
<1>3. w \in [at : Alerts, win : 1 .. N + 1, found : SUBSET Windows] /\ w.at = r.at /\ w.found = G
  BY <1>1
<1>. QED
  BY <1>2, <1>3

LEMMA LookStep == ASSUME DriftInv, NEW p \in Procs, Look(p), UNCHANGED side PROVE DriftInv'
<1>. DEFINE a == work[p].at
            n == work[p].win
            F == work[p].found
<1>1. /\ work[p] \in [at : Alerts, win : 1 .. N + 1, found : SUBSET Windows] /\ work[p] # Rest
      /\ a \in Alerts /\ n \in 1 .. N + 1 /\ n <= N /\ F \subseteq Windows /\ F \subseteq 1 .. last[a]
      /\ N \in Nat
  BY DriftAssumption DEF DriftInv, DriftTypeOK, FoundIsBacked, Look
<1>2. PICK G \in {F, F \cup {n}} : /\ work' = [work EXCEPT ![p] = [work[p] EXCEPT !.win = n + 1, !.found = G]]
                                   /\ G = F \/ last[a] >= n
  <2>1. CASE work' = [work EXCEPT ![p].win = n + 1,
                                  ![p].found = IF age[a] >= n /\ Traded(a, n) THEN @ \cup {n} ELSE @]
    BY <2>1 DEF DriftInv, DriftTypeOK, Traded
  <2>2. CASE work' = [work EXCEPT ![p].win = n + 1]
    <3>1. [work[p] EXCEPT !.win = n + 1] = [work[p] EXCEPT !.win = n + 1, !.found = F]
      BY <1>1
    <3>. QED
      BY <2>2, <3>1
  <2>. QED
    BY <2>1, <2>2 DEF Look
<1>3. G \subseteq Windows /\ G \subseteq 1 .. last[a]
  <2>1. last[a] \in Nat
    BY <1>1 DEF DriftInv, DriftTypeOK
  <2>. QED
    BY <1>1, <1>2, <2>1 DEF Windows
<1>. DEFINE w == [work[p] EXCEPT !.win = n + 1, !.found = G]
<1>4. w \in [at : Alerts, win : 1 .. N + 1, found : SUBSET Windows] /\ w.at = a /\ w.found = G
  <2>1. n + 1 \in 1 .. N + 1
    BY <1>1
  <2>. QED
    BY <1>1, <1>3, <2>1, WorkWith
<1>5. work' = [work EXCEPT ![p] = w] /\ UNCHANGED <<side, age, last, drift, clv, tick, list>>
  BY <1>2 DEF Look, table
<1>6. a \in list[p] /\ tick[p] = "busy"
  BY <1>1 DEF DriftInv, DriftTypeOK
<1>. HIDE DEF w, a
<1>7. DriftTypeOK'
  BY <1>4, <1>5, <1>6 DEF DriftInv, DriftTypeOK
<1>8. NumbersAreBacked'
  BY <1>5 DEF DriftInv, NumbersAreBacked
<1>9. FoundIsBacked'
  BY <1>3, <1>4, <1>5 DEF DriftInv, DriftTypeOK, FoundIsBacked
<1>. QED
  BY <1>7, <1>8, <1>9 DEF DriftInv

LEMMA StampStep == ASSUME DriftInv, NEW p \in Procs, Stamp(p), UNCHANGED side PROVE DriftInv'
<1>. DEFINE a == work[p].at
            F == work[p].found
<1>1. a \in Alerts /\ F \subseteq Windows /\ F \subseteq 1 .. last[a]
  BY DEF DriftInv, DriftTypeOK, FoundIsBacked, Stamp
<1>2. /\ \/ drift' = [drift EXCEPT ![a] = Decide(a, F)] /\ clv' = [clv EXCEPT ![a] = F]
         \/ UNCHANGED <<drift, clv>>
      /\ list' = [list EXCEPT ![p] = list[p] \ {a}]
      /\ work' = [work EXCEPT ![p] = Rest]
      /\ UNCHANGED <<side, age, last, tick>>
  BY DEF Stamp
<1>3. Decide(a, F) \in {"pending", "available", "unavailable"} /\ (Decide(a, F) = "available" <=> F # {})
  BY DEF Decide
<1>. DEFINE d == Decide(a, F)
<1>4. d \in {"pending", "available", "unavailable"} /\ (d = "available" <=> F # {})
  BY <1>3
<1>5. \/ drift' = [drift EXCEPT ![a] = d] /\ clv' = [clv EXCEPT ![a] = F]
      \/ UNCHANGED <<drift, clv>>
  BY <1>2
<1>. HIDE DEF a, F, d
<1>6. DriftTypeOK'
  <2>1. /\ drift' \in [Alerts -> {"pending", "available", "unavailable"}]
        /\ clv' \in [Alerts -> SUBSET Windows]
    BY <1>1, <1>4, <1>5, ZenonT(60) DEF DriftInv, DriftTypeOK
  <2>2. \A q \in Procs : work'[q] # Rest => q # p /\ work'[q] = work[q] /\ list'[q] = list[q]
    BY <1>2 DEF DriftInv, DriftTypeOK
  <2>3. /\ list' \in [Procs -> SUBSET Alerts]
        /\ work' \in [Procs -> [at : Alerts, win : 1 .. N + 1, found : SUBSET Windows] \cup {Rest}]
    BY <1>2 DEF DriftInv, DriftTypeOK
  <2>. QED
    BY <1>2, <2>1, <2>2, <2>3 DEF DriftInv, DriftTypeOK
<1>7. NumbersAreBacked'
  BY <1>1, <1>2, <1>4, <1>5, ZenonT(60) DEF DriftInv, DriftTypeOK, NumbersAreBacked
<1>8. FoundIsBacked'
  BY <1>2 DEF DriftInv, DriftTypeOK, FoundIsBacked
<1>. QED
  BY <1>6, <1>7, <1>8 DEF DriftInv

LEMMA EndsOfTicks ==
    ASSUME DriftInv, NEW p \in Procs, CloseTick(p) \/ Dies(p), UNCHANGED side PROVE DriftInv'
<1>1. CASE CloseTick(p)
  BY <1>1 DEF CloseTick, table, DriftInv, DriftTypeOK, NumbersAreBacked, FoundIsBacked
<1>2. CASE Dies(p)
  <2>1. DriftTypeOK'
    BY <1>2 DEF Dies, table, DriftInv, DriftTypeOK
  <2>2. NumbersAreBacked'
    BY <1>2 DEF Dies, table, DriftInv, NumbersAreBacked
  <2>3. FoundIsBacked'
    BY <1>2 DEF Dies, table, DriftInv, DriftTypeOK, FoundIsBacked
  <2>. QED
    BY <2>1, <2>2, <2>3 DEF DriftInv
<1>. QED
  BY <1>1, <1>2

LEMMA DriftStep == ASSUME DriftInv, DriftNext, UNCHANGED side PROVE DriftInv'
<1>1. ASSUME NEW p \in Procs, Run(p) PROVE DriftInv'
  BY <1>1, ListStep, TakeStep, LookStep, StampStep, EndsOfTicks DEF Run
<1>. QED
  BY <1>1, ElapseStep, TradesStep, EndsOfTicks DEF DriftNext

-----------------------------------------------------------------------------
(* The two together *)

AllInv == FollowInv /\ DriftInv

LEMMA FaultsType == ASSUME FollowInv, DriftNext PROVE faults' \in Nat
<1>1. faults \in Nat
  BY DEF FollowInv, TypeOK, HistoryOK
<1>2. ASSUME NEW p \in Procs, Run(p) \/ Dies(p)
      PROVE  faults' = faults \/ (faults > 0 /\ faults' = faults - 1)
  BY <1>2 DEF Run, List, Take, Look, Stamp, CloseTick, Dies, Fault
<1>3. ASSUME NEW a \in Alerts, Elapse(a) \/ Trades(a)
      PROVE  faults' = faults
  BY <1>3 DEF Elapse, Trades
<1>. QED
  BY <1>1, <1>2, <1>3 DEF DriftNext

LEMMA DriftRests == ASSUME DriftInv, UNCHANGED <<side, prices>> PROVE DriftInv'
BY DEF prices, table, process, DriftInv, DriftTypeOK, NumbersAreBacked, FoundIsBacked

LEMMA AllInvInit == AllInit => AllInv
BY FollowInit, DriftStart DEF AllInit, AllInv

LEMMA AllInvNext == ASSUME AllInv, [AllNext]_all PROVE AllInv'
<1>1. CASE Follows(Next)
  BY <1>1, FollowNext, DriftRests DEF Follows, AllInv
<1>2. CASE Drifts(DriftNext)
  BY <1>2, FollowRests, FaultsType, DriftStep DEF Drifts, AllInv
<1>3. CASE UNCHANGED all
  <2>1. UNCHANGED <<follow, side, prices>> /\ faults' = faults
    BY <1>3 DEF all, vars, follow
  <2>2. faults' \in Nat
    BY <2>1 DEF AllInv, FollowInv, TypeOK, HistoryOK
  <2>. QED
    BY <2>1, <2>2, FollowRests, DriftRests DEF AllInv
<1>. QED
  BY <1>1, <1>2, <1>3 DEF AllNext

THEOREM AllInvariance == AllSpec => []AllInv
<1>1. AllInit => AllInv
  BY AllInvInit
<1>2. AllInv /\ [AllNext]_all => AllInv'
  BY AllInvNext
<1>. QED
  BY <1>1, <1>2, PTL DEF AllSpec

-----------------------------------------------------------------------------
(* What follows *)

\* The columns, the chat and the workers' variables have their types.
THEOREM FollowUpTypes == AllSpec => [](TypeOK /\ DriftTypeOK)
<1>1. AllInv => TypeOK /\ DriftTypeOK
  BY DEF AllInv, FollowInv, DriftInv
<1>. QED
  BY <1>1, AllInvariance, PTL

\* A verdict of "correct" or "wrong" is true of how the market ended, whichever
\* processes wrote it and however late.
THEOREM VerdictsAreTrue == AllSpec => []VerdictIsTrue
<1>1. AllInv => VerdictIsTrue
  BY DEF AllInv, FollowInv, Truth, IsTrue, VerdictIsTrue
<1>. QED
  BY <1>1, AllInvariance, PTL

\* Without a close review and without two judges of one row, the emoji that the
\* row calls applied is in the chat, and is that of the row's verdict.
THEOREM ReactionsTellVerdicts == AllSpec => []ReactionTellsTheVerdict
<1>1. AllInv => ReactionTellsTheVerdict
  BY DEF AllInv, FollowInv, ShownFits, Shows, ReactionTellsTheVerdict
<1>. QED
  BY <1>1, AllInvariance, PTL

\* Every CLV number has a trade at or after its window, and the status says
\* "available" exactly when there is a number.
THEOREM NumbersBacked == AllSpec => []NumbersAreBacked
<1>1. AllInv => NumbersAreBacked
  BY DEF AllInv, DriftInv
<1>. QED
  BY <1>1, AllInvariance, PTL

\* No write turns a verdict into its opposite: all that can come over one is an
\* `unknown` read before the market had its winner.  And none touches a verdict at
\* all unless two processes had listed the row together.
VerdictsStand ==
    \A a \in Alerts :
        /\ outcome[a] \in {"correct", "wrong"} => outcome'[a] \in {outcome[a], "unknown"}
        /\ outcome[a] # "pending" /\ a \notin contested => outcome'[a] = outcome[a]

LEMMA OnlyRecordJudges ==
    ASSUME FollowInv, Next
    PROVE  outcome' = outcome \/ \E p \in Procs : Record(p)
BY DEF Next, FallsDue, Ends, ReviewReacts, Outcomes, ListChecks, Judge, ListReactions, React,
       RecordReaction, EndTick, ListPosts, Crash, Postmortem, Persist, Tell, Mark, row

LEMMA VerdictsStandStep == ASSUME FollowInv, FollowInv', Next PROVE VerdictsStand
<1>1. CASE outcome' = outcome
  BY <1>1 DEF VerdictsStand
<1>2. ASSUME NEW p \in Procs, Record(p) PROVE VerdictsStand
  <2>1. /\ phase[p] = "judge" /\ view[p] # Idle /\ UNCHANGED market
        /\ \/ outcome' = outcome
           \/ outcome' = [outcome EXCEPT ![view[p].at] = view[p].says]
    BY <1>2 DEF Record
  <2>2. view[p].at \in InHand(p)
    BY <2>1 DEF FollowInv, AtWork, InHand
  <2>3. ASSUME NEW a \in Alerts, outcome'[a] # outcome[a]
        PROVE  /\ outcome[a] \in {"correct", "wrong"} => outcome'[a] \in {outcome[a], "unknown"}
               /\ outcome[a] # "pending" => a \in contested
    <3>1. a = view[p].at
      BY <2>1, <2>3 DEF FollowInv, TypeOK, RowsOK
    <3>2. outcome[a] # "pending" => a \in contested
      BY <2>2, <3>1 DEF FollowInv, OneJudge
    <3>3. IsTrue(a, outcome[a]) /\ IsTrue(a, outcome[a])'
      BY DEF FollowInv, Truth
    <3>4. Won(a)' = Won(a)
      BY <2>1 DEF market, Won, Gamma
    <3>5. outcome'[a] \in Verdicts
      <4>1. view[p].says \in Verdicts \cup {"touch"} /\ outcome'[a] \in Verdicts \cup {"pending"}
        BY <2>1 DEF FollowInv, AtWork, TypeOK, RowsOK
      <4>2. outcome'[a] = view[p].says
        BY <2>1, <2>3, <3>1 DEF FollowInv, TypeOK, RowsOK
      <4>. QED
        BY <4>1, <4>2 DEF Verdicts
    <3>6. outcome[a] = "correct" => outcome'[a] # "wrong"
      BY <3>3, <3>4 DEF IsTrue
    <3>7. outcome[a] = "wrong" => outcome'[a] # "correct"
      BY <3>3, <3>4 DEF IsTrue
    <3>8. outcome[a] \in {"correct", "wrong"} => outcome'[a] # "unavailable"
      <4>1. Gamma(a)' = Gamma(a)
        BY <2>1 DEF market, Gamma
      <4>. QED
        BY <3>3, <4>1, LabelsAssumption DEF IsTrue
    <3>. QED
      BY <3>2, <3>5, <3>6, <3>7, <3>8 DEF Verdicts
  <2>. QED
    BY <2>3 DEF VerdictsStand
<1>. QED
  BY <1>1, <1>2, OnlyRecordJudges

THEOREM VerdictsStay == AllSpec => [][VerdictsStand]_all
<1>1. AllInv /\ AllInv' /\ [AllNext]_all => [VerdictsStand]_all
  <2>1. CASE Follows(Next)
    BY <2>1, VerdictsStandStep DEF AllInv, Follows
  <2>2. CASE Drifts(DriftNext)
    BY <2>2 DEF Drifts, follow, row, VerdictsStand
  <2>. QED
    BY <2>1, <2>2 DEF AllNext
<1>. QED
  BY <1>1, AllInvariance, PTL DEF AllSpec
=============================================================================
