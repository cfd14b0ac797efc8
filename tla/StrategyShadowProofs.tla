----------------------- MODULE StrategyShadowProofs -----------------------
(***************************************************************************)
(* What the promotion gate guarantees for any alerts, any strategies, any  *)
(* thresholds and batches, and any number of ticks, versions, failures and *)
(* restarts.                                                               *)
(***************************************************************************)
EXTENDS StrategyShadow, WellFoundedInduction, TLAPS

\* An eligible review of strategy s, written by tick t.
Reviewed(s, t) == \E v \in reviews : v.name = s /\ v.eligible /\ v.tick = t

\* What TypeOK says of the variables the gate depends on, and that the outcome
\* worker has only stored rows in its batches.
ClockOK   == now \in Nat /\ version \in Nat /\ ticks \in Nat /\ gate.tick \in Nat
HandOK    == /\ stage \in [Alerts -> Nat]
             /\ hand \in [Alerts -> HandType \cup {None}]
RowsOK    == rows \in [Ids -> RowType \cup {None}]
PromoOK   == promo = [phase |-> promo.phase, todo |-> promo.todo, new |-> promo.new]
VerdictOK == /\ verdict \in [Alerts -> {"pending", "resolved_correct", "resolved_wrong", "unknown", "unavailable"}]
             /\ winner \in [Alerts -> {"none", "token", "labelled"}]
JobOK     == /\ job = [phase |-> job.phase, linked |-> job.linked, resolved |-> job.resolved]
             /\ job.linked \subseteq Kept /\ job.resolved \subseteq Kept
             /\ \A r \in job.linked : verdict[r[1]] # "pending"
Typed == ClockOK /\ HandOK /\ RowsOK /\ PromoOK /\ VerdictOK /\ JobOK

\* A hook has a row in hand only while it runs.
HandInHook == \A a \in Alerts : hand[a] # None => Running(a)

\* Whoever the gate lets through was found eligible by the tick that filled it.
GateHasReviews == \A s \in gate.open : Reviewed(s, gate.tick)

\* So was whoever the running tick is going to let through.
NewHasReviews == \A s \in promo.new : Reviewed(s, ticks + 1)

\* A live row in hand has what the row will need.
HandHasReview == \A a \in Alerts : hand[a] # None /\ hand[a].live => Reviewed(Order[stage[a]], hand[a].asked)

Inv == Typed /\ HandInHook /\ GateHasReviews /\ NewHasReviews /\ HandHasReview /\ LiveRowHasReview

-----------------------------------------------------------------------------
(* Shapes *)

LEMMA Least ==
    ASSUME NEW S \in SUBSET Nat, S # {}
    PROVE  \E m \in S : \A y \in S : m <= y
<1>1. PICK m \in S : \A y \in S : <<y, m>> \notin OpToRel(<, Nat)
  BY NatLessThanWellFounded, WFMin
<1>2. \A y \in S : ~(y < m)
  BY <1>1, Zenon DEF OpToRel
<1>. QED
  BY <1>2

\* A price is a natural number, 0 for none.
LEMMA PriceType == ASSUME NEW t \in Nat, now \in Nat PROVE PriceFrom(t) \in Nat
<1> DEFINE later == {x \in DOMAIN Loose : t <= x /\ x <= now}
<1>1. CASE later = {}
  BY <1>1 DEF PriceFrom
<1>2. CASE later # {}
  <2>1. later \subseteq Nat
    BY LimitsAssumption
  <2>2. \E m \in later : \A y \in later : m <= y
    <3>. HIDE DEF later
    <3>. QED
      BY <1>2, <2>1, Least
  <2>3. (CHOOSE x \in later : \A y \in later : x <= y) \in DOMAIN Loose
    BY <2>2
  <2>. QED
    BY <1>2, <2>3, LimitsAssumption DEF PriceFrom
<1>. QED
  BY <1>1, <1>2

LEMMA OrderLength == Len(Order) = 9
BY DEF Order

\* No strategy comes twice.
LEMMA OrderIsInjective ==
    ASSUME NEW i \in 1 .. Len(Order), NEW j \in 1 .. Len(Order), Order[i] = Order[j]
    PROVE  i = j
BY OrderLength DEF Order

\* The hook only goes forward.
LEMMA AfterIsLater == ASSUME NEW i \in Nat, i <= Len(Order) PROVE After(i) \in Nat /\ i < After(i)
<1> DEFINE rest == {j \in i + 1 .. Len(Order) : Order[j] \in Enabled}
<1>1. CASE rest = {}
  BY <1>1, OrderLength DEF After
<1>2. CASE rest # {}
  <2>1. rest \in SUBSET Nat
    BY OrderLength
  <2>2. \E m \in rest : \A y \in rest : m <= y
    <3>. HIDE DEF rest
    <3>. QED
      BY <1>2, <2>1, Least
  <2>3. (CHOOSE j \in rest : \A k \in rest : j <= k) \in i + 1 .. Len(Order)
    BY <2>2
  <2>4. After(i) = CHOOSE j \in rest : \A k \in rest : j <= k
    BY <1>2 DEF After
  <2>. HIDE DEF rest
  <2>. QED
    BY <2>3, <2>4, OrderLength
<1>. QED
  BY <1>1, <1>2

-----------------------------------------------------------------------------
(* Steps *)

\* Reviews are only added, so what was found stays found.
LEMMA ReviewsStay ==
    ASSUME reviews \subseteq reviews', NEW s, NEW t, Reviewed(s, t)
    PROVE  Reviewed(s, t)'
BY DEF Reviewed

LEMMA Initially == Init => Inv
<1>. SUFFICES ASSUME Init PROVE Inv
  OBVIOUS
<1>. USE DEF Init, Closed, Resting, Idle
<1>1. Typed
  BY DEF Typed, ClockOK, HandOK, RowsOK, PromoOK, VerdictOK, JobOK
<1>2. HandInHook /\ GateHasReviews /\ NewHasReviews /\ HandHasReview
  BY DEF HandInHook, GateHasReviews, NewHasReviews, HandHasReview
<1>3. LiveRowHasReview
  BY DEF LiveRowHasReview, Kept
<1>. QED
  BY <1>1, <1>2, <1>3 DEF Inv

\* Rows and hands keep the gate's promise while only reviews are added.
LEMMA Undisturbed ==
    ASSUME Inv, UNCHANGED <<stage, hand, rows>>, reviews \subseteq reviews'
    PROVE  HandInHook' /\ HandHasReview' /\ LiveRowHasReview' /\ HandOK' /\ RowsOK'
<1>1. HandInHook' /\ HandOK' /\ RowsOK'
  BY DEF Inv, Typed, HandInHook, HandOK, RowsOK, Running
<1>2. HandHasReview'
  BY DEF Inv, HandHasReview, Reviewed
<1>3. LiveRowHasReview'
  BY DEF Inv, LiveRowHasReview, Kept
<1>. QED
  BY <1>1, <1>2, <1>3

\* A hook's decision: what goes live was let through by the gate.
LEMMA DecideKeeps == ASSUME Inv, NEW a \in Alerts, Decide(a) PROVE Inv'
<1>0. UNCHANGED <<now, version, gate, promo, reviews, ticks, verdict, winner, job, slipped, rows>>
  BY DEF Decide, promotion, outcomes
<1> DEFINE said == [live |-> Order[stage[a]] \notin ShadowOnly /\ Order[stage[a]] \in gate.open,
                    asked |-> gate.tick]
<1>1. \/ UNCHANGED stage /\ hand' = [hand EXCEPT ![a] = said]
      \/ UNCHANGED hand /\ stage' = [stage EXCEPT ![a] = After(@)]
  BY DEF Decide
<1>2. Running(a) /\ hand[a] = None /\ After(stage[a]) \in Nat
  <2>1. Running(a) /\ hand[a] = None
    BY DEF Decide
  <2>. QED
    BY <2>1, AfterIsLater, OrderLength DEF Running
<1>3. ClockOK' /\ RowsOK' /\ PromoOK' /\ VerdictOK' /\ JobOK'
  BY <1>0 DEF Inv, Typed, ClockOK, RowsOK, PromoOK, VerdictOK, JobOK, Kept
<1>4. /\ said \in HandType
      /\ said.live = (Order[stage[a]] \notin ShadowOnly /\ Order[stage[a]] \in gate.open)
      /\ said.asked = gate.tick
  BY DEF Inv, Typed, ClockOK, HandType
<1>. HIDE DEF said
<1>10. HandOK'
  BY <1>1, <1>2, <1>4 DEF Inv, Typed, HandOK
<1>5. HandInHook'
  BY <1>1, <1>2 DEF Inv, Typed, HandOK, HandInHook, Running
<1>6. GateHasReviews' /\ NewHasReviews' /\ LiveRowHasReview'
  BY <1>0 DEF Inv, GateHasReviews, NewHasReviews, LiveRowHasReview, Kept, Reviewed
<1>7. HandHasReview'
  <2>. SUFFICES ASSUME NEW b \in Alerts, hand'[b] # None, hand'[b].live
                PROVE  \E v \in reviews' : v.name = Order[stage'[b]] /\ v.eligible /\ v.tick = hand'[b].asked
    BY DEF HandHasReview, Reviewed
  <2>1. CASE b = a /\ UNCHANGED stage
    <3>1. hand'[a] = said
      BY <1>1, <1>2, <2>1 DEF Inv, Typed, HandOK
    <3>. QED
      BY <1>0, <1>4, <2>1, <3>1 DEF Inv, GateHasReviews, Reviewed
  <2>2. CASE b # a \/ stage' # stage
    <3>1. hand'[b] = hand[b] /\ stage'[b] = stage[b]
      BY <1>1, <1>2, <2>2 DEF Inv, Typed, HandOK
    <3>. QED
      BY <1>0, <3>1 DEF Inv, HandHasReview, Reviewed
  <2>. QED
    BY <2>1, <2>2
<1>. QED
  BY <1>3, <1>10, <1>5, <1>6, <1>7 DEF Inv, Typed

\* The insert: the row has what the decision had.
LEMMA WriteKeeps == ASSUME Inv, NEW a \in Alerts, Write(a) PROVE Inv'
<1>0. /\ UNCHANGED <<now, version, gate, promo, reviews, ticks, verdict, winner, job, slipped>>
      /\ stage' = [stage EXCEPT ![a] = After(@)]
      /\ hand' = [hand EXCEPT ![a] = None]
      /\ hand[a] # None
  BY DEF Write, promotion, outcomes
<1>10. After(stage[a]) \in Nat
  BY <1>0, AfterIsLater, OrderLength DEF Inv, HandInHook, Running
<1> DEFINE row == [version |-> version, live |-> hand[a].live, asked |-> hand[a].asked, at |-> now,
                   clv |-> [w \in Windows |-> 0], outcome |-> "null"]
<1>1. rows' = [rows EXCEPT ![<<a, Order[stage[a]]>>] = row] \/ UNCHANGED rows
  BY DEF Write
<1>2. row \in RowType
  BY <1>0 DEF Inv, Typed, ClockOK, HandOK, HandType, RowType
<1>3. row.live = hand[a].live /\ row.asked = hand[a].asked
  OBVIOUS
<1>. HIDE DEF row
<1>4. RowsOK' /\ Kept \subseteq Kept'
  BY <1>1, <1>2, AlertsAssumption DEF Inv, Typed, RowsOK, Kept
<1>5. ClockOK' /\ PromoOK' /\ VerdictOK' /\ JobOK'
  BY <1>0, <1>4 DEF Inv, Typed, ClockOK, PromoOK, VerdictOK, JobOK
<1>6. HandOK' /\ HandInHook' /\ HandHasReview'
  <2>1. HandOK' /\ HandInHook'
    BY <1>0, <1>10 DEF Inv, Typed, HandOK, HandInHook, Running
  <2>2. \A b \in Alerts : hand'[b] # None => b # a /\ hand'[b] = hand[b] /\ stage'[b] = stage[b]
    BY <1>0 DEF Inv, Typed, HandOK
  <2>. QED
    BY <1>0, <2>1, <2>2 DEF Inv, HandHasReview, Reviewed
<1>7. GateHasReviews' /\ NewHasReviews'
  BY <1>0 DEF Inv, GateHasReviews, NewHasReviews, Reviewed
<1>8. LiveRowHasReview'
  <2>. SUFFICES ASSUME NEW r \in Ids, rows'[r] # None, rows'[r].live
                PROVE  \E v \in reviews : v.name = r[2] /\ v.eligible /\ v.tick = rows'[r].asked
    BY <1>0 DEF LiveRowHasReview, Kept
  <2>1. CASE rows'[r] = rows[r]
    BY <2>1 DEF Inv, LiveRowHasReview, Kept
  <2>2. CASE rows'[r] # rows[r]
    <3>1. r = <<a, Order[stage[a]]>> /\ rows'[r] = row
      BY <1>1, <2>2 DEF Inv, Typed, RowsOK
    <3>2. Reviewed(Order[stage[a]], hand[a].asked)
      BY <1>0, <1>3, <3>1 DEF Inv, HandHasReview
    <3>. QED
      BY <1>3, <3>1, <3>2 DEF Reviewed
  <2>. QED
    BY <2>1, <2>2
<1>. QED
  BY <1>4, <1>5, <1>6, <1>7, <1>8 DEF Inv, Typed

\* What a worker writes into a stored row leaves its decision alone.
LEMMA RewriteKeeps ==
    ASSUME Inv, NEW r \in Kept, NEW row \in RowType,
           row.live = rows[r].live, row.asked = rows[r].asked,
           rows' = [rows EXCEPT ![r] = row] \/ UNCHANGED rows,
           UNCHANGED <<now, version, stage, hand, gate, promo, reviews, ticks, verdict, winner>>,
           job' = [phase |-> job'.phase, linked |-> job'.linked, resolved |-> job'.resolved],
           job'.linked \subseteq job.linked, job'.resolved \subseteq job.resolved
    PROVE  Inv'
<1>1. RowsOK' /\ Kept \subseteq Kept' /\ \A x \in Ids : x # r => rows'[x] = rows[x]
  BY AlertsAssumption DEF Inv, Typed, RowsOK, Kept
<1>2. ClockOK' /\ HandOK' /\ PromoOK' /\ VerdictOK' /\ JobOK'
  BY <1>1 DEF Inv, Typed, ClockOK, HandOK, PromoOK, VerdictOK, JobOK
<1>3. HandInHook' /\ GateHasReviews' /\ NewHasReviews' /\ HandHasReview'
  BY DEF Inv, HandInHook, GateHasReviews, NewHasReviews, HandHasReview, Reviewed, Running
<1>4. LiveRowHasReview'
  <2>1. rows'[r].live = rows[r].live /\ rows'[r].asked = rows[r].asked
    BY DEF Inv, Typed, RowsOK, Kept
  <2>. SUFFICES ASSUME NEW x \in Kept', rows'[x].live
                PROVE  \E v \in reviews' : v.name = x[2] /\ v.eligible /\ v.tick = rows'[x].asked
    BY DEF LiveRowHasReview
  <2>2. x \in Kept /\ rows'[x].live = rows[x].live /\ rows'[x].asked = rows[x].asked
    BY <1>1, <2>1 DEF Kept
  <2>. QED
    BY <2>2 DEF Inv, LiveRowHasReview
<1>. QED
  BY <1>1, <1>2, <1>3, <1>4 DEF Inv, Typed

\* A valued row is a row again, with another entry under `clv`.
LEMMA ValuedRow ==
    ASSUME Inv, NEW r \in Ids, Value(r)
    PROVE  \E row \in RowType : /\ rows' = [rows EXCEPT ![r] = row]
                                /\ row.live = rows[r].live /\ row.asked = rows[r].asked
                                /\ row.outcome = rows[r].outcome
<1> DEFINE end(w) == rows[r].at + Delta[w]
           move(w) == IF now < end(w) THEN 0
                      ELSE IF Side[r[1]] = "SELL" THEN -PriceFrom(end(w)) ELSE PriceFrom(end(w))
           clv == [w \in Windows |-> IF rows[r].clv[w] = 0 THEN move(w) ELSE rows[r].clv[w]]
<1>1. /\ r \in Kept
      /\ rows' = [rows EXCEPT ![r].clv = clv]
  BY DEF Value, InBatch
<1>2. rows[r] \in RowType /\ now \in Nat
  BY <1>1 DEF Inv, Typed, ClockOK, RowsOK, Kept
<1>3. \A w \in Windows : move(w) \in Int
  <2>. SUFFICES ASSUME NEW w \in Windows PROVE move(w) \in Int
    OBVIOUS
  <2>1. end(w) \in Nat
    BY <1>2, LimitsAssumption DEF RowType
  <2>2. PriceFrom(end(w)) \in Nat
    <3>. HIDE DEF end
    <3>. QED
      BY <1>2, <2>1, PriceType
  <2>. QED
    BY <2>2
<1>4. clv \in [Windows -> Int]
  <2>. HIDE DEF move
  <2>. QED
    BY <1>2, <1>3 DEF RowType
<1>. HIDE DEF clv
<1>5. /\ [rows[r] EXCEPT !.clv = clv] \in RowType
      /\ [rows[r] EXCEPT !.clv = clv].live = rows[r].live
      /\ [rows[r] EXCEPT !.clv = clv].asked = rows[r].asked
      /\ [rows[r] EXCEPT !.clv = clv].outcome = rows[r].outcome
  BY <1>2, <1>4 DEF RowType
<1>6. rows' = [rows EXCEPT ![r] = [rows[r] EXCEPT !.clv = clv]]
  BY <1>1
<1>. QED
  BY <1>5, <1>6

LEMMA ValueKeeps == ASSUME Inv, NEW r \in Ids, Value(r) PROVE Inv'
<1>1. PICK row \in RowType : /\ rows' = [rows EXCEPT ![r] = row]
                             /\ row.live = rows[r].live /\ row.asked = rows[r].asked
  BY ValuedRow
<1>2. UNCHANGED <<now, version, stage, hand, gate, promo, reviews, ticks, verdict, winner, job>> /\ r \in Kept
  BY DEF Value, InBatch, hook, promotion, outcomes
<1>3. job' = [phase |-> job'.phase, linked |-> job'.linked, resolved |-> job'.resolved]
  BY <1>2 DEF Inv, Typed, JobOK
<1>. QED
  BY <1>1, <1>2, <1>3, RewriteKeeps

LEMMA CopyKeeps == ASSUME Inv, NEW r \in Ids, Copy(r) PROVE Inv'
<1> DEFINE says == IF FirstListed(r) THEN verdict[r[1]] ELSE SideSays(r[1])
<1>1. /\ UNCHANGED <<now, version, stage, hand, gate, promo, reviews, ticks, verdict, winner>>
      /\ rows' = [rows EXCEPT ![r].outcome = says] \/ UNCHANGED rows
      /\ job' = [job EXCEPT !.linked = @ \ {r}] \/ job' = [job EXCEPT !.resolved = @ \ {r}]
      /\ r \in job.linked \cup job.resolved
  BY DEF Copy, hook, promotion, FirstListed
<1>2. r \in Kept /\ rows[r] \in RowType
  BY <1>1 DEF Inv, Typed, JobOK, RowsOK, Kept
<1>3. says \in {"null", "resolved_correct", "resolved_wrong", "unknown", "unavailable"}
  BY <1>2 DEF Inv, Typed, VerdictOK, JobOK, FirstListed, SideSays, Ids, Kept
<1>. HIDE DEF says
<1>4. /\ [rows[r] EXCEPT !.outcome = says] \in RowType
      /\ [rows[r] EXCEPT !.outcome = says].live = rows[r].live
      /\ [rows[r] EXCEPT !.outcome = says].asked = rows[r].asked
  BY <1>2, <1>3 DEF RowType
<1>5. rows' = [rows EXCEPT ![r] = [rows[r] EXCEPT !.outcome = says]] \/ UNCHANGED rows
  BY <1>1
<1>6. /\ job' = [phase |-> job'.phase, linked |-> job'.linked, resolved |-> job'.resolved]
      /\ job'.linked \subseteq job.linked /\ job'.resolved \subseteq job.resolved
  BY <1>1 DEF Inv, Typed, JobOK
<1>. QED
  BY <1>1, <1>2, <1>4, <1>5, <1>6, RewriteKeeps

\* A tick and its review: the new state fills with the names of eligible reviews.
LEMMA ReviewKeeps == ASSUME Inv, NEW e \in promo.todo, Review(e) PROVE Inv'
<1>0. UNCHANGED <<now, version, stage, hand, rows, gate, ticks, verdict, winner, job>>
  BY DEF Review, hook, outcomes
<1>1. \/ /\ reviews' = reviews \cup {[name |-> e.name, version |-> e.version, eligible |-> e.ok, tick |-> ticks + 1]}
         /\ promo' = [promo EXCEPT !.todo = @ \ {e}, !.new = Noted(e, TRUE)]
      \/ /\ UNCHANGED reviews
         /\ promo' = [promo EXCEPT !.todo = @ \ {e}, !.new = Noted(e, FALSE)]
  BY DEF Review
<1>2. reviews \subseteq reviews'
  BY <1>1
<1>3. HandInHook' /\ HandHasReview' /\ LiveRowHasReview' /\ HandOK' /\ RowsOK'
  BY <1>0, <1>2, Undisturbed
<1>4. ClockOK' /\ VerdictOK' /\ JobOK'
  BY <1>0 DEF Inv, Typed, ClockOK, VerdictOK, JobOK, Kept
<1>5. PromoOK'
  BY <1>1 DEF Inv, Typed, PromoOK
<1>6. GateHasReviews'
  BY <1>0, <1>2 DEF Inv, GateHasReviews, Reviewed
<1>7. NewHasReviews'
  <2>1. CASE UNCHANGED reviews /\ promo'.new = promo.new
    BY <1>0, <2>1 DEF Inv, NewHasReviews, Reviewed
  <2>2. CASE promo'.new = Noted(e, TRUE)
             /\ [name |-> e.name, version |-> e.version, eligible |-> e.ok, tick |-> ticks + 1] \in reviews'
    <3>1. \A s \in promo'.new : s \in promo.new \/ (s = e.name /\ e.ok)
      BY <2>2 DEF Noted
    <3>. QED
      BY <1>0, <1>2, <2>2, <3>1 DEF Inv, NewHasReviews, Reviewed
  <2>3. \/ promo'.new = Noted(e, TRUE)
           /\ [name |-> e.name, version |-> e.version, eligible |-> e.ok, tick |-> ticks + 1] \in reviews'
        \/ UNCHANGED reviews /\ promo'.new = promo.new
    BY <1>1 DEF Inv, Typed, PromoOK, Noted
  <2>. QED
    BY <2>1, <2>2, <2>3
<1>. QED
  BY <1>3, <1>4, <1>5, <1>6, <1>7 DEF Inv, Typed

\* The end of a tick hands the new state to the gate.
LEMMA SwapKeeps == ASSUME Inv, Swap PROVE Inv'
<1>0. /\ UNCHANGED <<now, version, stage, hand, rows, reviews, verdict, winner, job>>
      /\ gate' = [open |-> promo.new, tick |-> ticks + 1]
      /\ ticks' = ticks + 1 /\ promo' = Resting
  BY DEF Swap, hook, outcomes
<1>1. HandInHook' /\ HandHasReview' /\ LiveRowHasReview' /\ HandOK' /\ RowsOK'
  BY <1>0, Undisturbed
<1>2. ClockOK' /\ VerdictOK' /\ JobOK' /\ PromoOK'
  BY <1>0 DEF Inv, Typed, ClockOK, VerdictOK, JobOK, Kept, PromoOK, Resting
<1>3. GateHasReviews' /\ NewHasReviews'
  BY <1>0 DEF Inv, NewHasReviews, GateHasReviews, Reviewed, Resting
<1>. QED
  BY <1>1, <1>2, <1>3 DEF Inv, Typed

\* A tick that only reads keeps what it has collected.
LEMMA ReadKeeps == ASSUME Inv, ListSamples \/ ListBuckets PROVE Inv'
<1>0. UNCHANGED <<now, version, stage, hand, rows, gate, ticks, reviews, verdict, winner, job>>
  BY DEF ListSamples, ListBuckets, hook, outcomes
<1>1. PromoOK' /\ promo'.new \subseteq promo.new
  <2>1. CASE ListSamples
    <3>1. \E T : promo' = [phase |-> "buckets", new |-> {}, todo |-> T]
      BY <2>1, Zenon DEF ListSamples
    <3>. QED
      BY <3>1 DEF PromoOK
  <2>2. CASE ListBuckets
    <3>1. \/ \E T : promo' = [promo EXCEPT !.phase = "write", !.todo = T]
          \/ promo' = [promo EXCEPT !.phase = "write"]
      BY <2>2 DEF ListBuckets
    <3>. QED
      BY <3>1 DEF Inv, Typed, PromoOK
  <2>. QED
    BY <2>1, <2>2
<1>2. HandInHook' /\ HandHasReview' /\ LiveRowHasReview' /\ HandOK' /\ RowsOK'
  BY <1>0, Undisturbed
<1>3. ClockOK' /\ VerdictOK' /\ JobOK'
  BY <1>0 DEF Inv, Typed, ClockOK, VerdictOK, JobOK, Kept
<1>4. GateHasReviews' /\ NewHasReviews'
  BY <1>0, <1>1 DEF Inv, NewHasReviews, GateHasReviews, Reviewed
<1>. QED
  BY <1>1, <1>2, <1>3, <1>4 DEF Inv, Typed

\* A new process begins with a closed gate and nothing in hand.
LEMMA RestartKeeps == ASSUME Inv, Restart PROVE Inv'
<1>0. /\ UNCHANGED <<now, rows, reviews, ticks, verdict, winner>>
      /\ version' \in Nat
      /\ stage' = [a \in Alerts |-> IF Running(a) THEN Len(Order) + 1 ELSE stage[a]]
      /\ hand' = [a \in Alerts |-> None]
      /\ gate' = Closed /\ promo' = Resting /\ job' = Idle
  BY DEF Restart, Inv, Typed, ClockOK
<1>1. stage' \in [Alerts -> Nat]
  BY <1>0, OrderLength DEF Inv, Typed, HandOK
<1>2. HandOK' /\ HandInHook' /\ HandHasReview'
  BY <1>0, <1>1 DEF HandOK, HandInHook, HandHasReview
<1>3. ClockOK' /\ RowsOK' /\ PromoOK' /\ VerdictOK' /\ JobOK'
  BY <1>0 DEF Inv, Typed, ClockOK, RowsOK, PromoOK, VerdictOK, JobOK, Closed, Resting, Idle
<1>4. GateHasReviews' /\ NewHasReviews'
  BY <1>0 DEF GateHasReviews, NewHasReviews, Closed, Resting
<1>5. LiveRowHasReview'
  BY <1>0 DEF Inv, LiveRowHasReview, Kept
<1>. QED
  BY <1>2, <1>3, <1>4, <1>5 DEF Inv, Typed

\* The clock, a new alert, a verdict, and the outcome worker's lists.
LEMMA RestKeeps ==
    ASSUME Inv, \/ Tick \/ (\E a \in Alerts : Fire(a) \/ Judge(a)) \/ ListLinked \/ ListResolved \/ EndCopies
                \/ UNCHANGED vars
    PROVE  Inv'
<1>0. UNCHANGED <<version, hand, rows, gate, promo, ticks, reviews>>
  BY DEF Tick, Fire, Judge, ListLinked, ListResolved, EndCopies, vars, hook, promotion, outcomes
<1>9. UNCHANGED stage \/ \E a \in Alerts : stage[a] = 0 /\ stage' = [stage EXCEPT ![a] = After(0)]
  <2>1. ASSUME NEW a \in Alerts, Fire(a)
        PROVE  stage[a] = 0 /\ stage' = [stage EXCEPT ![a] = After(0)]
    BY <2>1 DEF Fire
  <2>2. UNCHANGED stage \/ \E a \in Alerts : Fire(a)
    BY DEF Tick, Judge, ListLinked, ListResolved, EndCopies, vars, hook
  <2>. QED
    BY <2>1, <2>2
<1>1. now' \in Nat /\ HandOK' /\ HandInHook'
  <2>1. now' \in Nat
    <3>1. now' = now \/ now' = now + 1
      BY DEF Tick, Fire, Judge, ListLinked, ListResolved, EndCopies, vars
    <3>. QED
      BY <3>1 DEF Inv, Typed, ClockOK
  <2>2. After(0) \in Nat
    BY AfterIsLater, OrderLength
  <2>. QED
    BY <1>0, <1>9, <2>1, <2>2 DEF Inv, Typed, HandOK, HandInHook, Running
<1>2. \A a \in Alerts : hand[a] # None => stage'[a] = stage[a]
  BY <1>9 DEF Inv, Typed, HandOK, HandInHook, Running
<1>3. HandHasReview'
  BY <1>0, <1>2 DEF Inv, HandHasReview, Reviewed
<1>4. ClockOK' /\ RowsOK' /\ PromoOK'
  BY <1>0, <1>1 DEF Inv, Typed, ClockOK, RowsOK, PromoOK
<1>5. GateHasReviews' /\ NewHasReviews' /\ LiveRowHasReview'
  BY <1>0 DEF Inv, GateHasReviews, NewHasReviews, LiveRowHasReview, Kept, Reviewed
<1>6. VerdictOK' /\ \A a \in Alerts : verdict[a] # "pending" => verdict'[a] = verdict[a]
  <2>1. CASE UNCHANGED <<verdict, winner>>
    BY <2>1 DEF Inv, Typed, VerdictOK
  <2>2. ASSUME NEW a \in Alerts, Judge(a)
        PROVE  /\ VerdictOK'
               /\ \A b \in Alerts : verdict[b] # "pending" => verdict'[b] = verdict[b]
    BY <2>2 DEF Judge, Inv, Typed, VerdictOK
  <2>3. UNCHANGED <<verdict, winner>> \/ \E a \in Alerts : Judge(a)
    BY DEF Tick, Fire, ListLinked, ListResolved, EndCopies, vars, outcomes
  <2>. QED
    BY <2>1, <2>2, <2>3
<1>7. JobOK'
  <2>1. /\ job' = [phase |-> job'.phase, linked |-> job'.linked, resolved |-> job'.resolved]
        /\ \A r \in job'.linked : r \in job.linked \/ r \in Linked
        /\ \A r \in job'.resolved : r \in job.resolved \/ r \in Resolved
    <3>1. CASE ListLinked
      <4>1. PICK L \in SUBSET Linked : job' = [job EXCEPT !.phase = "resolved", !.linked = L]
        BY <3>1 DEF ListLinked, Some
      <4>. QED
        BY <4>1 DEF Inv, Typed, JobOK
    <3>2. CASE ListResolved
      <4>1. \/ \E R \in SUBSET Resolved : job' = [job EXCEPT !.phase = "write", !.resolved = R]
            \/ job' = [job EXCEPT !.phase = "write"]
        BY <3>2 DEF ListResolved, Some
      <4>. QED
        BY <4>1 DEF Inv, Typed, JobOK
    <3>3. CASE EndCopies
      BY <3>3 DEF EndCopies, Idle
    <3>4. UNCHANGED job \/ ListLinked \/ ListResolved \/ EndCopies
      BY DEF Tick, Fire, Judge, vars, outcomes
    <3>. QED
      BY <3>1, <3>2, <3>3, <3>4 DEF Inv, Typed, JobOK
  <2>2. Linked \subseteq Kept /\ Resolved \subseteq Kept /\ Kept' = Kept
        /\ \A r \in Linked : verdict[r[1]] # "pending"
    BY <1>0 DEF Linked, Resolved, Kept
  <2>3. \A r \in Kept : r[1] \in Alerts
    BY DEF Kept, Ids
  <2>. QED
    BY <1>6, <2>1, <2>2, <2>3 DEF Inv, Typed, JobOK
<1>. QED
  BY <1>1, <1>3, <1>4, <1>5, <1>6, <1>7 DEF Inv, Typed

LEMMA Stepwise == Inv /\ [Next]_vars => Inv'
<1>. SUFFICES ASSUME Inv, [Next]_vars PROVE Inv'
  OBVIOUS
<1>1. ASSUME NEW a \in Alerts, Hook(a) PROVE Inv'
  BY <1>1, DecideKeeps, WriteKeeps DEF Hook
<1>2. ASSUME NEW r \in Ids, Value(r) PROVE Inv'
  BY <1>2, ValueKeeps
<1>3. CASE Promote
  BY <1>3, ReadKeeps, ReviewKeeps, SwapKeeps DEF Promote
<1>4. CASE Backfill
  BY <1>4, RestKeeps, CopyKeeps DEF Backfill
<1>5. CASE Restart
  BY <1>5, RestartKeeps
<1>. QED
  BY <1>1, <1>2, <1>3, <1>4, <1>5, RestKeeps DEF Next

-----------------------------------------------------------------------------
(* Theorems *)

\* The inductive invariant: whoever may write a live row, now or after the running
\* tick, has an eligible review behind it.
THEOREM Invariance == Spec => []Inv
BY Initially, Stepwise, PTL DEF Spec

\* A live row stands on an eligible review of its strategy, written by the last
\* tick that had ended when the bus asked.
THEOREM LiveRowsReviewed == Spec => []LiveRowHasReview
<1>1. Inv => LiveRowHasReview
  BY DEF Inv
<1>. QED
  BY <1>1, Invariance, PTL

-----------------------------------------------------------------------------
(* The outcome of a row *)

\* The hook never comes back to a strategy whose row is stored, so no row is
\* written twice.
StoredAreBehind ==
    \A r \in Kept : \E i \in 1 .. Len(Order) : Order[i] = r[2] /\ i < stage[r[1]]

\* An alert that names the winner is judged.
WinnerIsJudged == \A a \in Alerts : winner[a] # "none" => verdict[a] # "pending"

\* Of a row the second list has: its alert names the winner, and it slipped past the
\* first list, is still to be written from it, or has been.
BatchHasCause ==
    /\ job.phase # "write" => job.resolved = {}
    /\ \A r \in job.resolved :
          /\ winner[r[1]] = "labelled" /\ verdict[r[1]] # "pending"
          /\ r \in slipped \/ r \in job.linked \/ rows[r].outcome # "null"

OutcomeInv == WinnerIsJudged /\ StoredAreBehind /\ BatchHasCause /\ MismatchHasCause

LEMMA OutcomeInitially == Init => OutcomeInv
BY DEF Init, Idle, OutcomeInv, WinnerIsJudged, StoredAreBehind, BatchHasCause, MismatchHasCause, Kept

\* Steps of the hook that store nothing, and all that leave the rows' outcomes alone.
LEMMA OutcomeUndisturbed ==
    ASSUME Inv, OutcomeInv, UNCHANGED <<verdict, winner, job, slipped>>,
           Kept' = Kept, \A r \in Kept : rows'[r].outcome = rows[r].outcome,
           \A a \in Alerts : stage[a] <= stage'[a], stage' \in [Alerts -> Nat]
    PROVE  OutcomeInv'
<1>1. \A r \in Kept : r[1] \in Alerts /\ r[2] \in Enabled
  BY DEF Kept, Ids
<1>2. StoredAreBehind'
  <2>. SUFFICES ASSUME NEW r \in Kept
                PROVE  \E i \in 1 .. Len(Order) : Order[i] = r[2] /\ i < stage'[r[1]]
    BY DEF StoredAreBehind
  <2>1. PICK i \in 1 .. Len(Order) : Order[i] = r[2] /\ i < stage[r[1]]
    BY DEF OutcomeInv, StoredAreBehind
  <2>2. stage[r[1]] \in Nat /\ stage'[r[1]] \in Nat /\ stage[r[1]] <= stage'[r[1]]
    BY <1>1 DEF Inv, Typed, HandOK
  <2>. QED
    BY <2>1, <2>2, OrderLength
<1>3. BatchHasCause'
  BY DEF OutcomeInv, BatchHasCause, Inv, Typed, JobOK
<1>4. MismatchHasCause' /\ WinnerIsJudged'
  BY DEF OutcomeInv, MismatchHasCause, SideSays, WinnerIsJudged
<1>. QED
  BY <1>2, <1>3, <1>4 DEF OutcomeInv

\* The insert makes a row of its own, without an outcome.
LEMMA WriteHasCause == ASSUME Inv, OutcomeInv, NEW a \in Alerts, Write(a) PROVE OutcomeInv'
<1> DEFINE id  == <<a, Order[stage[a]]>>
           row == [version |-> version, live |-> hand[a].live, asked |-> hand[a].asked, at |-> now,
                   clv |-> [w \in Windows |-> 0], outcome |-> "null"]
<1>1. /\ rows' = [rows EXCEPT ![id] = row] \/ UNCHANGED rows
      /\ stage' = [stage EXCEPT ![a] = After(@)]
      /\ UNCHANGED <<verdict, winner, job, slipped>>
      /\ hand[a] # None
  BY DEF Write, outcomes
<1>2. stage[a] \in 1 .. Len(Order)
  BY <1>1 DEF Inv, HandInHook, Running
<1>3. After(stage[a]) \in Nat /\ stage[a] < After(stage[a])
  BY <1>2, AfterIsLater, OrderLength
<1>4. stage' \in [Alerts -> Nat] /\ \A b \in Alerts : stage[b] <= stage'[b]
  BY <1>1, <1>3 DEF Inv, Typed, HandOK
<1>5. CASE UNCHANGED rows
  BY <1>1, <1>4, <1>5, OutcomeUndisturbed DEF Kept
<1>6. CASE rows' = [rows EXCEPT ![id] = row]
  <2>1. \A r \in Kept : r # id
    <3>. SUFFICES ASSUME id \in Kept PROVE FALSE
      OBVIOUS
    <3>1. PICK i \in 1 .. Len(Order) : Order[i] = Order[stage[a]] /\ i < stage[a]
      BY DEF OutcomeInv, StoredAreBehind
    <3>2. i = stage[a]
      BY <1>2, <3>1, OrderIsInjective
    <3>. QED
      BY <3>1, <3>2, <1>2, OrderLength
  <2>2. \A r \in Kept : r \in Kept' /\ rows'[r] = rows[r]
    BY <1>6, <2>1 DEF Kept
  <2>3. \A r \in Kept' : r \in Kept \/ (r = id /\ rows'[r].outcome = "null")
    BY <1>6 DEF Kept, Inv, Typed, RowsOK
  <2>4. StoredAreBehind'
    <3>. SUFFICES ASSUME NEW r \in Kept'
                  PROVE  \E i \in 1 .. Len(Order) : Order[i] = r[2] /\ i < stage'[r[1]]
      BY DEF StoredAreBehind
    <3>1. CASE r \in Kept
      <4>1. PICK i \in 1 .. Len(Order) : Order[i] = r[2] /\ i < stage[r[1]]
        BY <3>1 DEF OutcomeInv, StoredAreBehind
      <4>2. stage[r[1]] \in Nat /\ stage'[r[1]] \in Nat /\ stage[r[1]] <= stage'[r[1]]
        BY <1>4, <3>1 DEF Inv, Typed, HandOK, Kept, Ids
      <4>. QED
        BY <4>1, <4>2, OrderLength
    <3>2. CASE r = id
      <4>1. stage'[a] = After(stage[a])
        BY <1>1 DEF Inv, Typed, HandOK
      <4>. QED
        BY <1>2, <1>3, <3>2, <4>1
    <3>. QED
      BY <2>3, <3>1, <3>2
  <2>5. BatchHasCause'
    <3>1. job.resolved \subseteq Kept
      BY DEF Inv, Typed, JobOK
    <3>. QED
      BY <1>1, <2>2, <3>1 DEF OutcomeInv, BatchHasCause
  <2>6. MismatchHasCause'
    BY <1>1, <2>2, <2>3 DEF OutcomeInv, MismatchHasCause, SideSays
  <2>7. WinnerIsJudged'
    BY <1>1 DEF OutcomeInv, WinnerIsJudged
  <2>. QED
    BY <2>4, <2>5, <2>6, <2>7 DEF OutcomeInv
<1>. QED
  BY <1>1, <1>5, <1>6

\* A copy: what the first list writes is the verdict; what it cannot write has
\* slipped before the second list comes to it.
LEMMA CopyHasCause == ASSUME Inv, OutcomeInv, NEW r \in Ids, Copy(r) PROVE OutcomeInv'
<1> DEFINE says == IF FirstListed(r) THEN verdict[r[1]] ELSE SideSays(r[1])
<1>1. /\ UNCHANGED <<stage, verdict, winner>>
      /\ job.phase = "write"
      /\ \/ /\ r \in job.linked
            /\ job' = [job EXCEPT !.linked = @ \ {r}]
         \/ /\ job.linked = {} /\ r \in job.resolved
            /\ job' = [job EXCEPT !.resolved = @ \ {r}]
      /\ \/ /\ rows' = IF rows[r].outcome = "null" THEN [rows EXCEPT ![r].outcome = says] ELSE rows
            /\ UNCHANGED slipped
         \/ /\ slipped' = IF FirstListed(r) THEN slipped \cup {r} ELSE slipped
            /\ UNCHANGED rows
  BY DEF Copy, hook, FirstListed
<1>2. r \in Kept /\ rows[r] \in RowType /\ slipped \subseteq slipped'
  BY <1>1 DEF Inv, Typed, JobOK, RowsOK, Kept
<1>3. /\ job'.phase = "write" /\ job'.resolved \subseteq job.resolved
      /\ job'.linked \subseteq job.linked
      /\ \A x \in job.linked : x # r => x \in job'.linked
  BY <1>1 DEF Inv, Typed, JobOK
<1>4. says # "null"
  BY <1>1 DEF Inv, Typed, VerdictOK, JobOK, FirstListed, SideSays, Ids
<1>5. /\ Kept' = Kept
      /\ \A x \in Ids : x # r => rows'[x] = rows[x]
      /\ \/ /\ rows'[r].outcome = rows[r].outcome
            /\ rows[r].outcome # "null" \/ slipped' = IF FirstListed(r) THEN slipped \cup {r} ELSE slipped
         \/ rows[r].outcome = "null" /\ rows'[r].outcome = says
  <2>. HIDE DEF says
  <2>1. CASE /\ UNCHANGED rows
             /\ rows[r].outcome # "null" \/ slipped' = IF FirstListed(r) THEN slipped \cup {r} ELSE slipped
    BY <2>1 DEF Kept
  <2>2. CASE rows[r].outcome = "null" /\ rows' = [rows EXCEPT ![r].outcome = says]
    <3>1. rows' = [rows EXCEPT ![r] = [rows[r] EXCEPT !.outcome = says]]
      BY <2>2
    <3>2. /\ [rows[r] EXCEPT !.outcome = says].outcome = says
          /\ [rows[r] EXCEPT !.outcome = says] # None
      <4>1. says \in {"null", "resolved_correct", "resolved_wrong", "unknown", "unavailable"}
        BY <1>2 DEF says, Inv, Typed, VerdictOK, JobOK, FirstListed, SideSays, Ids, Kept
      <4>2. [rows[r] EXCEPT !.outcome = says] \in RowType
        BY <1>2, <4>1 DEF RowType
      <4>. QED
        BY <1>2, <4>2, AlertsAssumption DEF RowType
    <3>. QED
      BY <1>2, <2>2, <3>1, <3>2 DEF Inv, Typed, RowsOK, Kept
  <2>. QED
    BY <1>1, <2>1, <2>2
<1>6. StoredAreBehind'
  BY <1>1, <1>5 DEF OutcomeInv, StoredAreBehind
<1>7. BatchHasCause'
  <2>. SUFFICES ASSUME NEW x \in job'.resolved
                PROVE  /\ winner[x[1]] = "labelled" /\ verdict[x[1]] # "pending"
                       /\ x \in slipped' \/ x \in job'.linked \/ rows'[x].outcome # "null"
    BY <1>1, <1>3 DEF BatchHasCause
  <2>1. /\ winner[x[1]] = "labelled" /\ verdict[x[1]] # "pending" /\ x \in Ids
        /\ x \in slipped \/ x \in job.linked \/ rows[x].outcome # "null"
    BY <1>3 DEF OutcomeInv, BatchHasCause, Inv, Typed, JobOK, Kept
  <2>2. CASE x # r
    BY <1>2, <1>3, <1>5, <2>1, <2>2
  <2>3. CASE x = r
    <3>1. r \in job.linked
      BY <1>1, <2>3 DEF Inv, Typed, JobOK
    <3>2. rows'[r].outcome # "null" \/ r \in slipped'
      BY <1>1, <1>2, <1>4, <1>5, <3>1 DEF FirstListed, Inv, Typed, RowsOK
    <3>. QED
      BY <2>1, <2>3, <3>2
  <2>. QED
    BY <2>2, <2>3
<1>8. MismatchHasCause'
  <2>. SUFFICES ASSUME NEW x \in Kept, rows'[x].outcome \notin {"null", verdict[x[1]]}
                PROVE  /\ winner[x[1]] = "labelled"
                       /\ rows'[x].outcome = SideSays(x[1])
                       /\ x \in slipped'
    BY <1>1, <1>5 DEF MismatchHasCause, SideSays
  <2>1. CASE x # r \/ rows'[x].outcome = rows[x].outcome
    BY <1>2, <1>5, <2>1 DEF OutcomeInv, MismatchHasCause, Kept
  <2>2. CASE x = r /\ rows[r].outcome = "null" /\ rows'[r].outcome = says
    <3>1. r \notin job.linked
      BY <2>2 DEF FirstListed
    <3>. QED
      BY <1>1, <1>2, <2>2, <3>1 DEF OutcomeInv, BatchHasCause, FirstListed
  <2>. QED
    BY <1>5, <2>1, <2>2
<1>9. WinnerIsJudged'
  BY <1>1 DEF OutcomeInv, WinnerIsJudged
<1>. QED
  BY <1>6, <1>7, <1>8, <1>9 DEF OutcomeInv

\* The lists: the alerts of what the second one keeps name the winner, and it slips unless the
\* first has it.
LEMMA ListsHaveCause ==
    ASSUME Inv, OutcomeInv, ListLinked \/ ListResolved \/ EndCopies
    PROVE  OutcomeInv'
<1>1. UNCHANGED <<stage, rows, verdict, winner>> /\ slipped \subseteq slipped'
  BY DEF ListLinked, ListResolved, EndCopies, hook
<1>2. StoredAreBehind' /\ MismatchHasCause' /\ WinnerIsJudged'
  BY <1>1 DEF OutcomeInv, StoredAreBehind, MismatchHasCause, Kept, SideSays, WinnerIsJudged
<1>3. BatchHasCause'
  <2>1. CASE ListLinked
    <3>1. job'.resolved = {}
      BY <2>1 DEF ListLinked, OutcomeInv, BatchHasCause, Inv, Typed, JobOK
    <3>. QED
      BY <3>1 DEF BatchHasCause
  <2>2. CASE ListResolved
    <3>1. CASE job' = [job EXCEPT !.phase = "write"]
      <4>1. job'.resolved = {} /\ job'.phase = "write"
        BY <2>2, <3>1 DEF ListResolved, OutcomeInv, BatchHasCause, Inv, Typed, JobOK
      <4>. QED
        BY <4>1 DEF BatchHasCause
    <3>2. ASSUME NEW R \in SUBSET Resolved, \A r \in R : winner[r[1]] = "labelled",
                 job' = [job EXCEPT !.phase = "write", !.resolved = R],
                 slipped' = slipped \cup (R \ job.linked)
          PROVE  BatchHasCause'
      <4>1. job'.resolved = R /\ job'.linked = job.linked /\ job'.phase = "write"
        BY <3>2 DEF Inv, Typed, JobOK
      <4>. QED
        <5>1. \A r \in R : r[1] \in Alerts
          BY <3>2 DEF Resolved, Kept, Ids
        <5>2. \A r \in R : verdict[r[1]] # "pending"
          BY <3>2, <5>1 DEF OutcomeInv, WinnerIsJudged
        <5>. QED
          BY <1>1, <3>2, <4>1, <5>2 DEF BatchHasCause
    <3>3. \/ job' = [job EXCEPT !.phase = "write"]
          \/ \E R \in SUBSET Resolved : /\ \A r \in R : winner[r[1]] = "labelled"
                                        /\ job' = [job EXCEPT !.phase = "write", !.resolved = R]
                                        /\ slipped' = slipped \cup (R \ job.linked)
      <4>1. CASE job' = [job EXCEPT !.phase = "write"]
        BY <4>1
      <4>2. ASSUME NEW L \in SUBSET Resolved,
                   job' = [job EXCEPT !.phase = "write", !.resolved = {r \in L : winner[r[1]] = "labelled"}],
                   slipped' = slipped \cup ({r \in L : winner[r[1]] = "labelled"} \ job.linked)
            PROVE  \E R \in SUBSET Resolved : /\ \A r \in R : winner[r[1]] = "labelled"
                                             /\ job' = [job EXCEPT !.phase = "write", !.resolved = R]
                                             /\ slipped' = slipped \cup (R \ job.linked)
        <5>1. {r \in L : winner[r[1]] = "labelled"} \in SUBSET Resolved
          OBVIOUS
        <5>. QED
          BY <4>2, <5>1
      <4>. QED
        BY <2>2, <4>1, <4>2 DEF ListResolved, Some
    <3>. QED
      BY <3>1, <3>2, <3>3
  <2>3. CASE EndCopies
    BY <2>3 DEF EndCopies, Idle, BatchHasCause
  <2>. QED
    BY <2>1, <2>2, <2>3
<1>. QED
  BY <1>2, <1>3 DEF OutcomeInv

\* An alert is judged once, and only rows of judged alerts have an outcome.
LEMMA JudgeHasCause == ASSUME Inv, OutcomeInv, NEW a \in Alerts, Judge(a) PROVE OutcomeInv'
<1>1. /\ UNCHANGED <<stage, rows, job, slipped>>
      /\ verdict[a] = "pending" /\ verdict'[a] # "pending"
      /\ \A b \in Alerts : b # a => verdict'[b] = verdict[b] /\ winner'[b] = winner[b]
  BY DEF Judge, hook, Inv, Typed, VerdictOK
<1>2. StoredAreBehind'
  BY <1>1 DEF OutcomeInv, StoredAreBehind, Kept
<1>3. \A r \in job.resolved : r[1] \in Alerts /\ r[1] # a
  BY <1>1 DEF OutcomeInv, BatchHasCause, Inv, Typed, JobOK, Kept, Ids
<1>4. BatchHasCause'
  BY <1>1, <1>3 DEF OutcomeInv, BatchHasCause
<1>5. ASSUME NEW r \in Kept, rows[r].outcome # "null" PROVE r[1] \in Alerts /\ r[1] # a
  <2>1. r[1] \in Alerts /\ rows[r].outcome \in {"null", "resolved_correct", "resolved_wrong", "unknown", "unavailable"}
    BY DEF Inv, Typed, RowsOK, RowType, Kept, Ids
  <2>. QED
    BY <1>1, <1>5, <2>1 DEF OutcomeInv, MismatchHasCause, WinnerIsJudged
<1>6. MismatchHasCause'
  BY <1>1, <1>5 DEF OutcomeInv, MismatchHasCause, Kept, SideSays
<1>7. WinnerIsJudged'
  BY <1>1 DEF OutcomeInv, WinnerIsJudged
<1>. QED
  BY <1>2, <1>4, <1>6, <1>7 DEF OutcomeInv

\* The price moves are another column.
LEMMA ValueHasCause == ASSUME Inv, OutcomeInv, NEW r \in Ids, Value(r) PROVE OutcomeInv'
<1>1. PICK row \in RowType : rows' = [rows EXCEPT ![r] = row] /\ row.outcome = rows[r].outcome
  BY ValuedRow
<1>2. UNCHANGED <<stage, verdict, winner, job, slipped>> /\ r \in Kept
  BY DEF Value, InBatch, hook, outcomes
<1>3. Kept' = Kept /\ \A x \in Kept : rows'[x].outcome = rows[x].outcome
  BY <1>1, <1>2, AlertsAssumption DEF Inv, Typed, RowsOK, Kept
<1>. QED
  BY <1>2, <1>3, OutcomeUndisturbed DEF Inv, Typed, HandOK

\* The clock, the hooks' beginnings and decisions, and the promotion.
LEMMA RestHasCause ==
    ASSUME Inv, OutcomeInv,
           \/ Tick \/ (\E a \in Alerts : Fire(a) \/ Decide(a)) \/ Promote \/ UNCHANGED vars
    PROVE  OutcomeInv'
<1>1. UNCHANGED <<rows, verdict, winner, job, slipped>>
  BY DEF Tick, Fire, Decide, Promote, ListSamples, ListBuckets, Review, Swap, vars, outcomes
<1>2. \/ UNCHANGED stage
      \/ \E a \in Alerts : stage[a] \in 0 .. Len(Order) /\ stage' = [stage EXCEPT ![a] = After(stage[a])]
  <2>1. ASSUME NEW a \in Alerts, Fire(a)
        PROVE  stage[a] \in 0 .. Len(Order) /\ stage' = [stage EXCEPT ![a] = After(stage[a])]
    BY <2>1, OrderLength DEF Fire
  <2>2. ASSUME NEW a \in Alerts, Decide(a)
        PROVE  /\ stage[a] \in 0 .. Len(Order)
               /\ UNCHANGED stage \/ stage' = [stage EXCEPT ![a] = After(stage[a])]
    BY <2>2, OrderLength DEF Decide, Running
  <2>3. UNCHANGED stage \/ \E a \in Alerts : Fire(a) \/ Decide(a)
    BY DEF Tick, Promote, ListSamples, ListBuckets, Review, Swap, vars, hook
  <2>. QED
    BY <2>1, <2>2, <2>3
<1>3. stage' \in [Alerts -> Nat] /\ \A a \in Alerts : stage[a] <= stage'[a]
  <2>1. CASE UNCHANGED stage
    BY <2>1 DEF Inv, Typed, HandOK
  <2>2. ASSUME NEW a \in Alerts, stage[a] \in 0 .. Len(Order), stage' = [stage EXCEPT ![a] = After(stage[a])]
        PROVE  stage' \in [Alerts -> Nat] /\ \A b \in Alerts : stage[b] <= stage'[b]
    <3>1. After(stage[a]) \in Nat /\ stage[a] < After(stage[a])
      BY <2>2, AfterIsLater, OrderLength
    <3>. QED
      BY <2>2, <3>1 DEF Inv, Typed, HandOK
  <2>. QED
    BY <1>2, <2>1, <2>2
<1>. QED
  BY <1>1, <1>3, OutcomeUndisturbed DEF Kept

\* A new process ends the hooks and drops the lists.
LEMMA RestartHasCause == ASSUME Inv, OutcomeInv, Restart PROVE OutcomeInv'
<1>1. /\ UNCHANGED <<rows, verdict, winner, slipped>>
      /\ stage' = [a \in Alerts |-> IF Running(a) THEN Len(Order) + 1 ELSE stage[a]]
      /\ job' = Idle
  BY DEF Restart
<1>2. StoredAreBehind'
  <2>. SUFFICES ASSUME NEW r \in Kept
                PROVE  \E i \in 1 .. Len(Order) : Order[i] = r[2] /\ i < stage'[r[1]]
    BY <1>1 DEF StoredAreBehind, Kept
  <2>1. PICK i \in 1 .. Len(Order) : Order[i] = r[2] /\ i < stage[r[1]]
    BY DEF OutcomeInv, StoredAreBehind
  <2>2. stage[r[1]] <= stage'[r[1]] /\ stage[r[1]] \in Nat /\ stage'[r[1]] \in Nat
    BY <1>1, OrderLength DEF Inv, Typed, HandOK, Running, Kept, Ids
  <2>. QED
    BY <2>1, <2>2, OrderLength
<1>3. BatchHasCause'
  BY <1>1 DEF BatchHasCause, Idle
<1>4. MismatchHasCause' /\ WinnerIsJudged'
  BY <1>1 DEF OutcomeInv, MismatchHasCause, Kept, SideSays, WinnerIsJudged
<1>. QED
  BY <1>2, <1>3, <1>4 DEF OutcomeInv

LEMMA OutcomeStepwise == Inv /\ OutcomeInv /\ [Next]_vars => OutcomeInv'
<1>. SUFFICES ASSUME Inv, OutcomeInv, [Next]_vars PROVE OutcomeInv'
  OBVIOUS
<1>1. ASSUME NEW a \in Alerts, Hook(a) \/ Fire(a) \/ Judge(a) PROVE OutcomeInv'
  BY <1>1, RestHasCause, WriteHasCause, JudgeHasCause DEF Hook
<1>2. ASSUME NEW r \in Ids, Value(r) PROVE OutcomeInv'
  BY <1>2, ValueHasCause
<1>3. CASE Promote \/ Tick \/ UNCHANGED vars
  BY <1>3, RestHasCause
<1>4. CASE Backfill
  BY <1>4, ListsHaveCause, CopyHasCause DEF Backfill
<1>5. CASE Restart
  BY <1>5, RestartHasCause
<1>. QED
  BY <1>1, <1>2, <1>3, <1>4, <1>5 DEF Next

\* An outcome that is not the alert's is that of the side against the label, and
\* of a row that the first list did not have or could not write.
THEOREM MismatchesExplained == Spec => []MismatchHasCause
<1>1. OutcomeInv => MismatchHasCause
  BY DEF OutcomeInv
<1>. QED
  BY <1>1, OutcomeInitially, OutcomeStepwise, Invariance, PTL DEF Spec

=============================================================================
