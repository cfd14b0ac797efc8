------------------------- MODULE AlertSenderProofs -------------------------
(***************************************************************************)
(* What AlertSender guarantees for any number of rows, processes and       *)
(* goroutines, any claim limit, retry policy and number of faults; and     *)
(* what AlertDecision, which writes those rows, guarantees for any number  *)
(* of trades and handlers and any thresholds of its rules.                 *)
(***************************************************************************)
EXTENDS AlertSender, AlertDecision, FiniteSetTheorems, WellFoundedInduction, TLAPS

ConstantAssumption == /\ Alerts \subseteq Nat /\ None \notin Alerts
                      /\ ProcOf \in [Threads -> Procs]
                      /\ ClaimLimit \in Nat \ {0} /\ MaxAttempts \in Nat \ {0}
                      /\ StaleAfter \in Nat /\ Faults \in Nat /\ Slow \in Nat

LEMMA ConstantFacts == ConstantAssumption
BY AlertsAssumption, ProcOfAssumption, LimitsAssumption DEF ConstantAssumption

-----------------------------------------------------------------------------
(* Type correctness *)

LEMMA TypeInit == Init => TypeOK
BY ConstantFacts DEF Init, TypeOK, RowsOK, ThreadsOK, HistoryOK, States, NoRetry, ConstantAssumption

\* A goroutine that lets go of its row keeps its variables well-typed.
LEMMA ReleaseType ==
    ASSUME ThreadsOK, NEW t \in Threads, Release(t),
           pc[t] \notin {"done", "claim", "loop"}
    PROVE  ThreadsOK'
<1>1. cur[t] \in batch[t] /\ batch[t] \subseteq Alerts
  BY DEF ThreadsOK
<1>2. snap[t] \in [Alerts -> Nat]
  BY DEF ThreadsOK
<1>3. /\ pc' \in [Threads -> States]
      /\ batch' \in [Threads -> SUBSET Alerts]
      /\ cur' \in [Threads -> Alerts \cup {None}]
  BY <1>1 DEF Release, ThreadsOK, States
<1>4. snap' \in [Threads -> [Alerts -> Nat]]
  BY <1>1, <1>2 DEF Release, ThreadsOK
<1>5. ASSUME NEW u \in Threads, pc'[u] \notin {"done", "claim", "loop"}
      PROVE  cur'[u] \in batch'[u]
  BY <1>5 DEF Release, ThreadsOK
<1>. QED
  BY <1>3, <1>4, <1>5 DEF ThreadsOK

LEMMA DelaysType == \A n : Delays(n) \subseteq Nat
BY DEF Delays

\* Steps of a goroutine that only move its program counter past the choice of a row.
LEMMA MoveType ==
    ASSUME ThreadsOK, NEW t \in Threads, NEW s \in States,
           pc[t] \notin {"done", "claim", "loop"},
           pc' = [pc EXCEPT ![t] = s], UNCHANGED <<batch, snap, cur>>
    PROVE  ThreadsOK'
BY DEF ThreadsOK, States

LEMMA TypeNext == TypeOK /\ [Next]_vars => TypeOK'
<1>. SUFFICES ASSUME TypeOK, [Next]_vars
              PROVE  TypeOK'
  OBVIOUS
<1>. USE ConstantFacts DEF ConstantAssumption
<1>1. ASSUME NEW a \in Alerts, Create(a)
      PROVE  TypeOK'
  BY <1>1 DEF Create, TypeOK, RowsOK, ThreadsOK, HistoryOK, thread, history
<1>2. ASSUME NEW p \in Procs, Run(p)
      PROVE  TypeOK'
  <2>1. CASE Drain(p)
    <3>1. RowsOK'
      BY <2>1 DEF Drain, TypeOK, RowsOK
    <3>2. ThreadsOK'
      BY <2>1 DEF Drain, TypeOK, ThreadsOK, States
    <3>3. HistoryOK'
      <4>1. overrun' \subseteq Alerts
        BY <2>1 DEF Drain, TypeOK, HistoryOK
      <4>2. faults' \in Nat /\ slow' \in Nat
        BY <2>1 DEF Drain, Fault, TypeOK, HistoryOK
      <4>. QED
        BY <2>1, <4>1, <4>2 DEF Drain, TypeOK, HistoryOK
    <3>. QED
      BY <2>1, <3>1, <3>2, <3>3 DEF Drain, TypeOK
  <2>2. CASE EndDrain(p)
    BY <2>2 DEF EndDrain, TypeOK, RowsOK, ThreadsOK, HistoryOK, row, thread, history
  <2>3. CASE Start(p)
    BY <2>3 DEF Start, TypeOK, RowsOK, ThreadsOK, HistoryOK, row, thread, history
  <2>. QED BY <1>2, <2>1, <2>2, <2>3 DEF Run
<1>3. ASSUME NEW p \in Procs, Stop(p)
      PROVE  TypeOK'
  BY <1>3 DEF Stop, Fault, TypeOK, RowsOK, ThreadsOK, HistoryOK, row, thread, history
<1>4. ASSUME NEW p \in Procs, Crash(p)
      PROVE  TypeOK'
  <2>1. \A u \in Threads : Owed(u) \subseteq Alerts
    BY DEF Owed, TypeOK, ThreadsOK
  <2>2. ThreadsOK'
    BY <1>4 DEF Crash, TypeOK, ThreadsOK, States
  <2>3. HistoryOK'
    <3>1. unconfirmed' \subseteq Alerts
      BY <1>4, <2>1, ZenonT(60) DEF Crash, Mine, TypeOK, HistoryOK
    <3>2. faults' \in Nat
      BY <1>4 DEF Crash, Fault, TypeOK, HistoryOK
    <3>. QED
      BY <1>4, <3>1, <3>2 DEF Crash, TypeOK, HistoryOK
  <2>4. RowsOK'
    BY <1>4 DEF Crash, TypeOK, RowsOK, row
  <2>. QED
    BY <1>4, <2>2, <2>3, <2>4 DEF Crash, TypeOK
<1>5. ASSUME NEW t \in Threads, Work(t)
      PROVE  TypeOK'
  <2>1. CASE Claim(t)
    <3>1. RowsOK'
      BY <2>1 DEF Claim, TypeOK, RowsOK, Oldest
    <3>2. ThreadsOK'
      <4>1. PICK S \in Oldest(ClaimLimit, {a \in Alerts : Claimable(a)}) :
                \/ /\ batch' = [batch EXCEPT ![t] = S]
                   /\ snap' = [snap EXCEPT ![t] = [a \in Alerts |-> IF a \in S THEN attempts[a] ELSE 0]]
                   /\ pc' = [pc EXCEPT ![t] = "loop"]
                \/ pc' = [pc EXCEPT ![t] = "done"] /\ UNCHANGED <<batch, snap>>
        BY <2>1 DEF Claim
      <4>2. S \subseteq Alerts /\ UNCHANGED cur
        BY <2>1 DEF Oldest, Claim
      <4>3. [a \in Alerts |-> IF a \in S THEN attempts[a] ELSE 0] \in [Alerts -> Nat]
        BY DEF TypeOK, RowsOK
      <4>. QED
        <5>1. batch' \in [Threads -> SUBSET Alerts]
          BY <4>1, <4>2 DEF TypeOK, ThreadsOK
        <5>2. snap' \in [Threads -> [Alerts -> Nat]]
          BY <4>1, <4>3 DEF TypeOK, ThreadsOK
        <5>3. pc' \in [Threads -> States] /\ cur' \in [Threads -> Alerts \cup {None}]
          BY <4>1, <4>2 DEF TypeOK, ThreadsOK, States
        <5>4. ASSUME NEW u \in Threads, pc'[u] \notin {"done", "claim", "loop"}
              PROVE  cur'[u] \in batch'[u]
          <6>1. u # t /\ pc'[u] = pc[u]
            BY <4>1, <5>4 DEF TypeOK, ThreadsOK
          <6>2. batch'[u] = batch[u]
            BY <4>1, <6>1 DEF TypeOK, ThreadsOK
          <6>. QED
            BY <4>2, <5>4, <6>1, <6>2 DEF TypeOK, ThreadsOK
        <5>. QED
          BY <5>1, <5>2, <5>3, <5>4 DEF ThreadsOK
    <3>3. HistoryOK'
      BY <2>1 DEF Claim, TypeOK, HistoryOK, Fault, history
    <3>. QED
      BY <2>1, <3>1, <3>2, <3>3 DEF Claim, TypeOK
  <2>2. CASE Leave(t)
    <3>1. RowsOK'
      BY <2>2 DEF Leave, TypeOK, RowsOK, row
    <3>2. ThreadsOK'
      BY <2>2 DEF Leave, TypeOK, ThreadsOK, States
    <3>3. HistoryOK'
      BY <2>2 DEF Leave, TypeOK, HistoryOK, history
    <3>. QED
      BY <2>2, <3>1, <3>2, <3>3 DEF Leave, TypeOK
  <2>3. CASE ClaimFails(t)
    <3>1. RowsOK'
      BY <2>3 DEF ClaimFails, TypeOK, RowsOK, row
    <3>2. ThreadsOK'
      BY <2>3 DEF ClaimFails, TypeOK, ThreadsOK, States
    <3>3. HistoryOK'
      BY <2>3 DEF ClaimFails, TypeOK, HistoryOK, history, Fault
    <3>. QED
      BY <2>3, <3>1, <3>2, <3>3 DEF ClaimFails, TypeOK
  <2>4. ASSUME NEW a \in Alerts, Begin(t, a) PROVE TypeOK'
    <3>1. RowsOK'
      BY <2>4 DEF Begin, TypeOK, RowsOK, row
    <3>2. ThreadsOK'
      BY <2>4 DEF Begin, TypeOK, ThreadsOK, States
    <3>3. HistoryOK'
      BY <2>4 DEF Begin, TypeOK, HistoryOK
    <3>. QED
      BY <2>4, <3>1, <3>2, <3>3 DEF Begin, TypeOK
  <2>5. CASE Accept(t)
    <3>1. RowsOK'
      BY <2>5 DEF Accept, TypeOK, RowsOK, row
    <3>2. ThreadsOK'
      BY <2>5, MoveType DEF Accept, TypeOK, States
    <3>3. HistoryOK'
      <4>0. cur[t] \in Alerts /\ delivered \in [Alerts -> Nat]
        BY <2>5 DEF Accept, TypeOK, ThreadsOK, HistoryOK
      <4>a. PICK a \in Alerts : a = cur[t]
        BY <4>0
      <4>b. delivered' = [delivered EXCEPT ![a] = delivered[a] + 1]
        BY <2>5, <4>a DEF Accept
      <4>1. delivered' \in [Alerts -> Nat]
        BY <4>0, <4>b
      <4>. QED
        BY <2>5, <4>1 DEF Accept, TypeOK, HistoryOK
    <3>. QED
      BY <2>5, <3>1, <3>2, <3>3 DEF Accept, TypeOK
  <2>6. CASE Acknowledge(t)
    <3>1. RowsOK'
      BY <2>6 DEF Acknowledge, TypeOK, RowsOK, row
    <3>2. ThreadsOK'
      BY <2>6, MoveType DEF Acknowledge, TypeOK, States
    <3>3. HistoryOK'
      BY <2>6 DEF Acknowledge, TypeOK, HistoryOK, history
    <3>. QED
      BY <2>6, <3>1, <3>2, <3>3 DEF Acknowledge, TypeOK
  <2>7. CASE Suppress(t)
    <3>1. RowsOK'
      BY <2>7 DEF Suppress, TypeOK, RowsOK, row
    <3>2. ThreadsOK'
      BY <2>7, MoveType DEF Suppress, TypeOK, States
    <3>3. HistoryOK'
      BY <2>7 DEF Suppress, TypeOK, HistoryOK, ThreadsOK
    <3>. QED
      BY <2>7, <3>1, <3>2, <3>3 DEF Suppress, TypeOK
  <2>8. CASE Refuse(t)
    <3>1. RowsOK'
      BY <2>8 DEF Refuse, TypeOK, RowsOK, row
    <3>2. ThreadsOK'
      BY <2>8, MoveType DEF Refuse, TypeOK, States
    <3>3. HistoryOK'
      <4>1. cur[t] \in Alerts
        BY <2>8 DEF Refuse, TypeOK, ThreadsOK
      <4>2. faults' \in Nat
        BY <2>8 DEF Refuse, Fault, TypeOK, HistoryOK
      <4>3. unconfirmed' = unconfirmed \/ unconfirmed' = unconfirmed \cup {cur[t]}
        BY <2>8 DEF Refuse
      <4>. QED
        BY <2>8, <4>1, <4>2, <4>3 DEF Refuse, TypeOK, HistoryOK
    <3>. QED
      BY <2>8, <3>1, <3>2, <3>3 DEF Refuse, TypeOK
  <2>9. CASE Abandon(t)
    <3>. Owed(t) \subseteq Alerts
      BY DEF Owed, TypeOK, ThreadsOK
    <3>1. RowsOK'
      BY <2>9 DEF Abandon, TypeOK, RowsOK, row
    <3>2. ThreadsOK'
      BY <2>9, ReleaseType DEF Abandon, TypeOK
    <3>3. HistoryOK'
      <4>1. faults' \in Nat
        BY <2>9 DEF Abandon, Cut, Fault, TypeOK, HistoryOK
      <4>2. unconfirmed' \subseteq Alerts
        BY <2>9 DEF Abandon, TypeOK, HistoryOK
      <4>. QED
        BY <2>9, <4>1, <4>2 DEF Abandon, TypeOK, HistoryOK
    <3>. QED
      BY <2>9, <3>1, <3>2, <3>3 DEF Abandon, TypeOK
  <2>10. CASE MarkSent(t)
    <3>1. RowsOK'
      <4>1. CASE StillSending(cur[t])
        BY <2>10, <4>1 DEF MarkSent, TypeOK, RowsOK
      <4>2. CASE ~StillSending(cur[t])
        BY <2>10, <4>2 DEF MarkSent, TypeOK, RowsOK
      <4>. QED
        BY <4>1, <4>2
    <3>2. ThreadsOK'
      BY <2>10, ReleaseType DEF MarkSent, TypeOK
    <3>3. HistoryOK'
      BY <2>10 DEF MarkSent, TypeOK, HistoryOK, history
    <3>. QED
      BY <2>10, <3>1, <3>2, <3>3 DEF MarkSent, TypeOK
  <2>11. CASE MarkFailed(t)
    <3>. NextRetry(t, pc[t] = "give_up") \subseteq Nat \cup {NoRetry}
      BY DelaysType DEF NextRetry
    <3>1. RowsOK'
      <4>1. CASE StillSending(cur[t])
        <5>1. PICK r \in NextRetry(t, pc[t] = "give_up") : retry' = [retry EXCEPT ![cur[t]] = r]
          BY <2>11, <4>1 DEF MarkFailed
        <5>2. retry' \in [Alerts -> Nat \cup {NoRetry}]
          BY <5>1 DEF TypeOK, RowsOK
        <5>. QED
          BY <2>11, <4>1, <5>2 DEF MarkFailed, TypeOK, RowsOK
      <4>2. CASE ~StillSending(cur[t])
        BY <2>11, <4>2 DEF MarkFailed, TypeOK, RowsOK
      <4>. QED
        BY <4>1, <4>2
    <3>2. ThreadsOK'
      BY <2>11, ReleaseType DEF MarkFailed, TypeOK
    <3>3. HistoryOK'
      BY <2>11 DEF MarkFailed, TypeOK, HistoryOK, history
    <3>. QED
      BY <2>11, <3>1, <3>2, <3>3 DEF MarkFailed, TypeOK
  <2>12. CASE MarkLost(t)
    <3>. Owed(t) \subseteq Alerts
      BY DEF Owed, TypeOK, ThreadsOK
    <3>1. RowsOK'
      BY <2>12 DEF MarkLost, TypeOK, RowsOK, row
    <3>2. ThreadsOK'
      BY <2>12, ReleaseType DEF MarkLost, TypeOK
    <3>3. HistoryOK'
      <4>1. faults' \in Nat
        BY <2>12 DEF MarkLost, Cut, Fault, TypeOK, HistoryOK
      <4>2. unconfirmed' \subseteq Alerts
        BY <2>12 DEF MarkLost, TypeOK, HistoryOK
      <4>. QED
        BY <2>12, <4>1, <4>2 DEF MarkLost, TypeOK, HistoryOK
    <3>. QED
      BY <2>12, <3>1, <3>2, <3>3 DEF MarkLost, TypeOK
  <2>. QED
    BY <1>5, <2>1, <2>2, <2>3, <2>4, <2>5, <2>6, <2>7, <2>8, <2>9, <2>10, <2>11, <2>12 DEF Work
<1>6. CASE Tick
  BY <1>6 DEF Tick, Ageing, TypeOK, RowsOK, ThreadsOK, HistoryOK, thread, history, NoRetry
<1>7. CASE UNCHANGED vars
  BY <1>7 DEF vars, row, thread, history, TypeOK, RowsOK, ThreadsOK, HistoryOK
<1>. QED
  BY <1>1, <1>2, <1>3, <1>4, <1>5, <1>6, <1>7 DEF Next

\* The rows and the goroutines stay well-typed, and a goroutine past the choice
\* of a row works on a row of its own batch.
THEOREM TypeCorrect == Spec => []TypeOK
<1>1. Init => TypeOK
  BY TypeInit
<1>2. TypeOK /\ [Next]_vars => TypeOK'
  BY TypeNext
<1>. QED
  BY <1>1, <1>2, PTL DEF Spec

-----------------------------------------------------------------------------
(* The inductive invariant *)

LEMMA RestsEmptyNext ==
    ASSUME TypeOK, RestsEmpty, [Next]_vars
    PROVE  RestsEmpty'
<1>1. ASSUME NEW a \in Alerts, Create(a)
      PROVE  RestsEmpty'
  BY <1>1, ConstantFacts DEF ConstantAssumption, Create, TypeOK, ThreadsOK, RestsEmpty, thread
<1>2. ASSUME NEW p \in Procs, Drain(p)
      PROVE  RestsEmpty'
  BY <1>2, ConstantFacts DEF ConstantAssumption, Drain, TypeOK, ThreadsOK, RestsEmpty
<1>3. ASSUME NEW p \in Procs, EndDrain(p)
      PROVE  RestsEmpty'
  BY <1>3, ConstantFacts DEF ConstantAssumption, EndDrain, TypeOK, ThreadsOK, RestsEmpty, Mine, thread
<1>4. ASSUME NEW p \in Procs, Start(p)
      PROVE  RestsEmpty'
  BY <1>4, ConstantFacts DEF ConstantAssumption, Start, TypeOK, ThreadsOK, RestsEmpty, thread
<1>5. ASSUME NEW p \in Procs, Stop(p)
      PROVE  RestsEmpty'
  BY <1>5, ConstantFacts DEF ConstantAssumption, Stop, TypeOK, ThreadsOK, RestsEmpty, thread
<1>6. ASSUME NEW p \in Procs, Crash(p)
      PROVE  RestsEmpty'
  BY <1>6, ConstantFacts DEF ConstantAssumption, Crash, TypeOK, ThreadsOK, RestsEmpty
<1>7. ASSUME NEW t \in Threads, Claim(t)
      PROVE  RestsEmpty'
  BY <1>7, ConstantFacts DEF ConstantAssumption, Claim, TypeOK, ThreadsOK, RestsEmpty
<1>8. ASSUME NEW t \in Threads, Leave(t)
      PROVE  RestsEmpty'
  BY <1>8, ConstantFacts DEF ConstantAssumption, Leave, TypeOK, ThreadsOK, RestsEmpty
<1>9. ASSUME NEW t \in Threads, ClaimFails(t)
      PROVE  RestsEmpty'
  BY <1>9, ConstantFacts DEF ConstantAssumption, ClaimFails, TypeOK, ThreadsOK, RestsEmpty
<1>10. ASSUME NEW t \in Threads, NEW a \in Alerts, Begin(t, a)
      PROVE  RestsEmpty'
  BY <1>10, ConstantFacts DEF ConstantAssumption, Begin, TypeOK, ThreadsOK, RestsEmpty
<1>11. ASSUME NEW t \in Threads, Accept(t)
      PROVE  RestsEmpty'
  BY <1>11, ConstantFacts DEF ConstantAssumption, Accept, TypeOK, ThreadsOK, RestsEmpty
<1>12. ASSUME NEW t \in Threads, Acknowledge(t)
      PROVE  RestsEmpty'
  BY <1>12, ConstantFacts DEF ConstantAssumption, Acknowledge, TypeOK, ThreadsOK, RestsEmpty
<1>13. ASSUME NEW t \in Threads, Suppress(t)
      PROVE  RestsEmpty'
  BY <1>13, ConstantFacts DEF ConstantAssumption, Suppress, TypeOK, ThreadsOK, RestsEmpty
<1>14. ASSUME NEW t \in Threads, Refuse(t)
      PROVE  RestsEmpty'
  BY <1>14, ConstantFacts DEF ConstantAssumption, Refuse, TypeOK, ThreadsOK, RestsEmpty
<1>15. ASSUME NEW t \in Threads, Abandon(t)
      PROVE  RestsEmpty'
  BY <1>15, ConstantFacts DEF ConstantAssumption, Abandon, TypeOK, ThreadsOK, RestsEmpty, Release
<1>16. ASSUME NEW t \in Threads, MarkSent(t)
      PROVE  RestsEmpty'
  BY <1>16, ConstantFacts DEF ConstantAssumption, MarkSent, TypeOK, ThreadsOK, RestsEmpty, Release
<1>17. ASSUME NEW t \in Threads, MarkFailed(t)
      PROVE  RestsEmpty'
  BY <1>17, ConstantFacts DEF ConstantAssumption, MarkFailed, TypeOK, ThreadsOK, RestsEmpty, Release
<1>18. ASSUME NEW t \in Threads, MarkLost(t)
      PROVE  RestsEmpty'
  BY <1>18, ConstantFacts DEF ConstantAssumption, MarkLost, TypeOK, ThreadsOK, RestsEmpty, Release
<1>19. CASE Tick
  BY <1>19, ConstantFacts DEF ConstantAssumption, Tick, TypeOK, ThreadsOK, RestsEmpty, thread
<1>20. CASE UNCHANGED vars
  BY <1>20 DEF vars, row, thread, history, TypeOK, ThreadsOK, RestsEmpty
<1>. QED
  BY <1>1, <1>2, <1>3, <1>4, <1>5, <1>6, <1>7, <1>8, <1>9, <1>10, <1>11, <1>12, <1>13, <1>14, <1>15, <1>16, <1>17, <1>18, <1>19, <1>20 DEF Next, Run, Work

\* Letting go of a row takes it from one batch and adds nothing to any.
LEMMA ReleaseShrinks ==
    ASSUME ThreadsOK, NEW t \in Threads, Release(t),
           pc[t] \notin {"done", "claim", "loop"}
    PROVE  /\ cur[t] \in Alerts /\ cur[t] \in batch[t] /\ cur[t] \notin batch'[t]
           /\ \A u \in Threads : batch'[u] \subseteq batch[u]
<1>1. cur[t] \in batch[t] /\ batch[t] \subseteq Alerts
  BY DEF ThreadsOK
<1>2. batch' = [batch EXCEPT ![t] = @ \ {cur[t]}] /\ DOMAIN batch = Threads
  BY DEF Release, ThreadsOK
<1>. QED
  BY <1>1, <1>2

\* So does exclusion survive a statement that changes the status of that row alone.
LEMMA ReleaseKeepsExclusive ==
    ASSUME TypeOK, Exclusive, NEW t \in Threads, Release(t), UNCHANGED overrun,
           pc[t] \notin {"done", "claim", "loop"},
           \A x \in Alerts : x # cur[t] => status'[x] = status[x]
    PROVE  Exclusive'
<1>1. /\ cur[t] \in Alerts /\ cur[t] \in batch[t] /\ cur[t] \notin batch'[t]
      /\ \A u \in Threads : batch'[u] \subseteq batch[u]
  BY ReleaseShrinks DEF TypeOK
<1>2. ASSUME NEW x \in Alerts \ overrun, NEW u \in Threads, x \in batch'[u]
      PROVE  /\ status'[x] = "sending"
             /\ \A v \in Threads : x \in batch'[v] => v = u
  <2>1. x \in batch[u]
    BY <1>1, <1>2
  <2>2. /\ status[x] = "sending"
        /\ \A v \in Threads : x \in batch[v] => v = u
    BY <2>1 DEF Exclusive
  <2>3. x # cur[t]
    BY <1>1, <1>2, <2>2
  <2>. QED
    BY <1>1, <2>2, <2>3
<1>. QED
  BY <1>2 DEF Exclusive

LEMMA ExclusiveNext ==
    ASSUME TypeOK, RestsEmpty, Exclusive, [Next]_vars
    PROVE  Exclusive'
<1>1. ASSUME NEW a \in Alerts, Create(a)
      PROVE  Exclusive'
  BY <1>1, ConstantFacts DEF ConstantAssumption, Create, TypeOK, ThreadsOK, HistoryOK, Exclusive, thread, history, RowsOK
<1>2. ASSUME NEW p \in Procs, Drain(p)
      PROVE  Exclusive'
  BY <1>2, ConstantFacts DEF ConstantAssumption, Drain, TypeOK, ThreadsOK, HistoryOK, Exclusive, RowsOK, Stale, Held, RestsEmpty
<1>3. ASSUME NEW p \in Procs, EndDrain(p)
      PROVE  Exclusive'
  BY <1>3, ConstantFacts DEF ConstantAssumption, EndDrain, TypeOK, ThreadsOK, HistoryOK, Exclusive, row, thread, history
<1>4. ASSUME NEW p \in Procs, Start(p)
      PROVE  Exclusive'
  BY <1>4, ConstantFacts DEF ConstantAssumption, Start, TypeOK, ThreadsOK, HistoryOK, Exclusive, row, thread, history
<1>5. ASSUME NEW p \in Procs, Stop(p)
      PROVE  Exclusive'
  BY <1>5, ConstantFacts DEF ConstantAssumption, Stop, TypeOK, ThreadsOK, HistoryOK, Exclusive, row, thread, history
<1>6. ASSUME NEW p \in Procs, Crash(p)
      PROVE  Exclusive'
  BY <1>6, ConstantFacts DEF ConstantAssumption, Crash, TypeOK, ThreadsOK, HistoryOK, Exclusive, row
<1>7. ASSUME NEW t \in Threads, Claim(t)
      PROVE  Exclusive'
  BY <1>7, ConstantFacts DEF ConstantAssumption, Claim, TypeOK, ThreadsOK, HistoryOK, Exclusive, RowsOK, RestsEmpty, Oldest, Claimable, history
<1>8. ASSUME NEW t \in Threads, Leave(t)
      PROVE  Exclusive'
  BY <1>8, ConstantFacts DEF ConstantAssumption, Leave, TypeOK, ThreadsOK, HistoryOK, Exclusive, row, history
<1>9. ASSUME NEW t \in Threads, ClaimFails(t)
      PROVE  Exclusive'
  BY <1>9, ConstantFacts DEF ConstantAssumption, ClaimFails, TypeOK, ThreadsOK, HistoryOK, Exclusive, row, history
<1>10. ASSUME NEW t \in Threads, NEW a \in Alerts, Begin(t, a)
      PROVE  Exclusive'
  BY <1>10, ConstantFacts DEF ConstantAssumption, Begin, TypeOK, ThreadsOK, HistoryOK, Exclusive, row
<1>11. ASSUME NEW t \in Threads, Accept(t)
      PROVE  Exclusive'
  BY <1>11, ConstantFacts DEF ConstantAssumption, Accept, TypeOK, ThreadsOK, HistoryOK, Exclusive, row
<1>12. ASSUME NEW t \in Threads, Acknowledge(t)
      PROVE  Exclusive'
  BY <1>12, ConstantFacts DEF ConstantAssumption, Acknowledge, TypeOK, ThreadsOK, HistoryOK, Exclusive, row, history
<1>13. ASSUME NEW t \in Threads, Suppress(t)
      PROVE  Exclusive'
  BY <1>13, ConstantFacts DEF ConstantAssumption, Suppress, TypeOK, ThreadsOK, HistoryOK, Exclusive, row
<1>14. ASSUME NEW t \in Threads, Refuse(t)
      PROVE  Exclusive'
  BY <1>14, ConstantFacts DEF ConstantAssumption, Refuse, TypeOK, ThreadsOK, HistoryOK, Exclusive, row
<1>15. ASSUME NEW t \in Threads, Abandon(t)
      PROVE  Exclusive'
  BY <1>15, ConstantFacts DEF ConstantAssumption, Abandon, TypeOK, ThreadsOK, HistoryOK, Exclusive, Release, RowsOK, row
<1>16. ASSUME NEW t \in Threads, MarkSent(t)
      PROVE  Exclusive'
  <2>1. /\ Release(t) /\ UNCHANGED overrun
        /\ pc[t] \notin {"done", "claim", "loop"}
    BY <1>16 DEF MarkSent, history
  <2>2. \A x \in Alerts : x # cur[t] => status'[x] = status[x]
    BY <1>16 DEF MarkSent, TypeOK, RowsOK
  <2>. QED
    BY <2>1, <2>2, ReleaseKeepsExclusive
<1>17. ASSUME NEW t \in Threads, MarkFailed(t)
      PROVE  Exclusive'
  <2>1. /\ Release(t) /\ UNCHANGED overrun
        /\ pc[t] \notin {"done", "claim", "loop"}
    BY <1>17 DEF MarkFailed, history
  <2>2. \A x \in Alerts : x # cur[t] => status'[x] = status[x]
    BY <1>17 DEF MarkFailed, TypeOK, RowsOK
  <2>. QED
    BY <2>1, <2>2, ReleaseKeepsExclusive
<1>18. ASSUME NEW t \in Threads, MarkLost(t)
      PROVE  Exclusive'
  BY <1>18, ConstantFacts DEF ConstantAssumption, MarkLost, TypeOK, ThreadsOK, HistoryOK, Exclusive, Release, RowsOK, row
<1>19. CASE Tick
  BY <1>19, ConstantFacts DEF ConstantAssumption, Tick, TypeOK, ThreadsOK, HistoryOK, Exclusive, thread, history
<1>20. CASE UNCHANGED vars
  BY <1>20 DEF vars, row, thread, history, TypeOK, ThreadsOK, HistoryOK, Exclusive
<1>. QED
  BY <1>1, <1>2, <1>3, <1>4, <1>5, <1>6, <1>7, <1>8, <1>9, <1>10, <1>11, <1>12, <1>13, <1>14, <1>15, <1>16, <1>17, <1>18, <1>19, <1>20 DEF Next, Run, Work

LEMMA FreshSnapshotsNext ==
    ASSUME TypeOK, RestsEmpty, Exclusive, FreshSnapshots, [Next]_vars
    PROVE  FreshSnapshots'
<1>1. ASSUME NEW a \in Alerts, Create(a)
      PROVE  FreshSnapshots'
  BY <1>1, ConstantFacts DEF ConstantAssumption, Create, TypeOK, ThreadsOK, HistoryOK, FreshSnapshots, thread, history, RowsOK
<1>2. ASSUME NEW p \in Procs, Drain(p)
      PROVE  FreshSnapshots'
  BY <1>2, ConstantFacts DEF ConstantAssumption, Drain, TypeOK, ThreadsOK, HistoryOK, FreshSnapshots, RowsOK, Stale, Held, RestsEmpty
<1>3. ASSUME NEW p \in Procs, EndDrain(p)
      PROVE  FreshSnapshots'
  BY <1>3, ConstantFacts DEF ConstantAssumption, EndDrain, TypeOK, ThreadsOK, HistoryOK, FreshSnapshots, row, thread, history
<1>4. ASSUME NEW p \in Procs, Start(p)
      PROVE  FreshSnapshots'
  BY <1>4, ConstantFacts DEF ConstantAssumption, Start, TypeOK, ThreadsOK, HistoryOK, FreshSnapshots, row, thread, history
<1>5. ASSUME NEW p \in Procs, Stop(p)
      PROVE  FreshSnapshots'
  BY <1>5, ConstantFacts DEF ConstantAssumption, Stop, TypeOK, ThreadsOK, HistoryOK, FreshSnapshots, row, thread, history
<1>6. ASSUME NEW p \in Procs, Crash(p)
      PROVE  FreshSnapshots'
  BY <1>6, ConstantFacts DEF ConstantAssumption, Crash, TypeOK, ThreadsOK, HistoryOK, FreshSnapshots, row
<1>7. ASSUME NEW t \in Threads, Claim(t)
      PROVE  FreshSnapshots'
  BY <1>7, ConstantFacts DEF ConstantAssumption, Claim, TypeOK, ThreadsOK, HistoryOK, FreshSnapshots, RowsOK, RestsEmpty, Oldest, history
<1>8. ASSUME NEW t \in Threads, Leave(t)
      PROVE  FreshSnapshots'
  BY <1>8, ConstantFacts DEF ConstantAssumption, Leave, TypeOK, ThreadsOK, HistoryOK, FreshSnapshots, row, history
<1>9. ASSUME NEW t \in Threads, ClaimFails(t)
      PROVE  FreshSnapshots'
  BY <1>9, ConstantFacts DEF ConstantAssumption, ClaimFails, TypeOK, ThreadsOK, HistoryOK, FreshSnapshots, row, history
<1>10. ASSUME NEW t \in Threads, NEW a \in Alerts, Begin(t, a)
      PROVE  FreshSnapshots'
  BY <1>10, ConstantFacts DEF ConstantAssumption, Begin, TypeOK, ThreadsOK, HistoryOK, FreshSnapshots, row
<1>11. ASSUME NEW t \in Threads, Accept(t)
      PROVE  FreshSnapshots'
  BY <1>11, ConstantFacts DEF ConstantAssumption, Accept, TypeOK, ThreadsOK, HistoryOK, FreshSnapshots, row
<1>12. ASSUME NEW t \in Threads, Acknowledge(t)
      PROVE  FreshSnapshots'
  BY <1>12, ConstantFacts DEF ConstantAssumption, Acknowledge, TypeOK, ThreadsOK, HistoryOK, FreshSnapshots, row, history
<1>13. ASSUME NEW t \in Threads, Suppress(t)
      PROVE  FreshSnapshots'
  BY <1>13, ConstantFacts DEF ConstantAssumption, Suppress, TypeOK, ThreadsOK, HistoryOK, FreshSnapshots, row
<1>14. ASSUME NEW t \in Threads, Refuse(t)
      PROVE  FreshSnapshots'
  BY <1>14, ConstantFacts DEF ConstantAssumption, Refuse, TypeOK, ThreadsOK, HistoryOK, FreshSnapshots, row
<1>15. ASSUME NEW t \in Threads, Abandon(t)
      PROVE  FreshSnapshots'
  BY <1>15, ConstantFacts DEF ConstantAssumption, Abandon, TypeOK, ThreadsOK, HistoryOK, FreshSnapshots, Release, RowsOK, row
<1>16. ASSUME NEW t \in Threads, MarkSent(t)
      PROVE  FreshSnapshots'
  BY <1>16, ConstantFacts DEF ConstantAssumption, MarkSent, TypeOK, ThreadsOK, HistoryOK, FreshSnapshots, Release, RowsOK, history
<1>17. ASSUME NEW t \in Threads, MarkFailed(t)
      PROVE  FreshSnapshots'
  BY <1>17, ConstantFacts DEF ConstantAssumption, MarkFailed, TypeOK, ThreadsOK, HistoryOK, FreshSnapshots, Release, RowsOK, history, Exclusive
<1>18. ASSUME NEW t \in Threads, MarkLost(t)
      PROVE  FreshSnapshots'
  BY <1>18, ConstantFacts DEF ConstantAssumption, MarkLost, TypeOK, ThreadsOK, HistoryOK, FreshSnapshots, Release, RowsOK, row
<1>19. CASE Tick
  BY <1>19, ConstantFacts DEF ConstantAssumption, Tick, TypeOK, ThreadsOK, HistoryOK, FreshSnapshots, thread, history
<1>20. CASE UNCHANGED vars
  BY <1>20 DEF vars, row, thread, history, TypeOK, ThreadsOK, HistoryOK, FreshSnapshots
<1>. QED
  BY <1>1, <1>2, <1>3, <1>4, <1>5, <1>6, <1>7, <1>8, <1>9, <1>10, <1>11, <1>12, <1>13, <1>14, <1>15, <1>16, <1>17, <1>18, <1>19, <1>20 DEF Next, Run, Work

LEMMA AttemptsLeftNext ==
    ASSUME TypeOK, Exclusive, FreshSnapshots, AttemptsLeft, [Next]_vars
    PROVE  AttemptsLeft'
<1>1. ASSUME NEW a \in Alerts, Create(a)
      PROVE  AttemptsLeft'
  BY <1>1, ConstantFacts DEF ConstantAssumption, Create, TypeOK, ThreadsOK, HistoryOK, RowsOK, AttemptsLeft, Closed, NoRetry, thread, history
<1>2. ASSUME NEW p \in Procs, Drain(p)
      PROVE  AttemptsLeft'
  BY <1>2, ConstantFacts DEF ConstantAssumption, Drain, TypeOK, ThreadsOK, HistoryOK, RowsOK, AttemptsLeft, Closed, NoRetry, Stale, Held
<1>3. ASSUME NEW p \in Procs, EndDrain(p)
      PROVE  AttemptsLeft'
  BY <1>3, ConstantFacts DEF ConstantAssumption, EndDrain, TypeOK, ThreadsOK, HistoryOK, RowsOK, AttemptsLeft, Closed, NoRetry, row, thread, history
<1>4. ASSUME NEW p \in Procs, Start(p)
      PROVE  AttemptsLeft'
  BY <1>4, ConstantFacts DEF ConstantAssumption, Start, TypeOK, ThreadsOK, HistoryOK, RowsOK, AttemptsLeft, Closed, NoRetry, row, thread, history
<1>5. ASSUME NEW p \in Procs, Stop(p)
      PROVE  AttemptsLeft'
  BY <1>5, ConstantFacts DEF ConstantAssumption, Stop, TypeOK, ThreadsOK, HistoryOK, RowsOK, AttemptsLeft, Closed, NoRetry, row, thread, history
<1>6. ASSUME NEW p \in Procs, Crash(p)
      PROVE  AttemptsLeft'
  BY <1>6, ConstantFacts DEF ConstantAssumption, Crash, TypeOK, ThreadsOK, HistoryOK, RowsOK, AttemptsLeft, Closed, NoRetry, row
<1>7. ASSUME NEW t \in Threads, Claim(t)
      PROVE  AttemptsLeft'
  BY <1>7, ConstantFacts DEF ConstantAssumption, Claim, TypeOK, ThreadsOK, HistoryOK, RowsOK, AttemptsLeft, Closed, NoRetry, Oldest, Claimable, history
<1>8. ASSUME NEW t \in Threads, Leave(t)
      PROVE  AttemptsLeft'
  BY <1>8, ConstantFacts DEF ConstantAssumption, Leave, TypeOK, ThreadsOK, HistoryOK, RowsOK, AttemptsLeft, Closed, NoRetry, row, history
<1>9. ASSUME NEW t \in Threads, ClaimFails(t)
      PROVE  AttemptsLeft'
  BY <1>9, ConstantFacts DEF ConstantAssumption, ClaimFails, TypeOK, ThreadsOK, HistoryOK, RowsOK, AttemptsLeft, Closed, NoRetry, row, history
<1>10. ASSUME NEW t \in Threads, NEW a \in Alerts, Begin(t, a)
      PROVE  AttemptsLeft'
  BY <1>10, ConstantFacts DEF ConstantAssumption, Begin, TypeOK, ThreadsOK, HistoryOK, RowsOK, AttemptsLeft, Closed, NoRetry, row
<1>11. ASSUME NEW t \in Threads, Accept(t)
      PROVE  AttemptsLeft'
  BY <1>11, ConstantFacts DEF ConstantAssumption, Accept, TypeOK, ThreadsOK, HistoryOK, RowsOK, AttemptsLeft, Closed, NoRetry, row
<1>12. ASSUME NEW t \in Threads, Acknowledge(t)
      PROVE  AttemptsLeft'
  BY <1>12, ConstantFacts DEF ConstantAssumption, Acknowledge, TypeOK, ThreadsOK, HistoryOK, RowsOK, AttemptsLeft, Closed, NoRetry, row, history
<1>13. ASSUME NEW t \in Threads, Suppress(t)
      PROVE  AttemptsLeft'
  BY <1>13, ConstantFacts DEF ConstantAssumption, Suppress, TypeOK, ThreadsOK, HistoryOK, RowsOK, AttemptsLeft, Closed, NoRetry, row
<1>14. ASSUME NEW t \in Threads, Refuse(t)
      PROVE  AttemptsLeft'
  BY <1>14, ConstantFacts DEF ConstantAssumption, Refuse, TypeOK, ThreadsOK, HistoryOK, RowsOK, AttemptsLeft, Closed, NoRetry, row
<1>15. ASSUME NEW t \in Threads, Abandon(t)
      PROVE  AttemptsLeft'
  BY <1>15, ConstantFacts DEF ConstantAssumption, Abandon, TypeOK, ThreadsOK, HistoryOK, RowsOK, AttemptsLeft, Closed, NoRetry, row
<1>16. ASSUME NEW t \in Threads, MarkSent(t)
      PROVE  AttemptsLeft'
  BY <1>16, ConstantFacts DEF ConstantAssumption, MarkSent, TypeOK, ThreadsOK, HistoryOK, RowsOK, AttemptsLeft, Closed, NoRetry, history
<1>17. ASSUME NEW t \in Threads, MarkFailed(t)
      PROVE  AttemptsLeft'
  BY <1>17, ConstantFacts DEF ConstantAssumption, MarkFailed, TypeOK, ThreadsOK, HistoryOK, RowsOK, AttemptsLeft, Closed, NoRetry, history, Exclusive, FreshSnapshots, NextRetry, Exhausted, Delays, StillSending
<1>18. ASSUME NEW t \in Threads, MarkLost(t)
      PROVE  AttemptsLeft'
  BY <1>18, ConstantFacts DEF ConstantAssumption, MarkLost, TypeOK, ThreadsOK, HistoryOK, RowsOK, AttemptsLeft, Closed, NoRetry, row
<1>19. CASE Tick
  <2>1. ASSUME NEW a \in Alerts PROVE Closed(a)' <=> Closed(a)
    <3>1. status'[a] = status[a] /\ retry'[a] = IF retry[a] > 0 THEN retry[a] - 1 ELSE retry[a]
      BY <1>19 DEF Tick
    <3>2. retry[a] \in Nat \cup {NoRetry}
      BY DEF TypeOK, RowsOK
    <3>3. (retry'[a] = NoRetry) <=> (retry[a] = NoRetry)
      BY <3>1, <3>2 DEF NoRetry
    <3>. QED
      BY <3>1, <3>3 DEF Closed
  <2>. QED
    BY <1>19, <2>1 DEF Tick, AttemptsLeft, history
<1>20. CASE UNCHANGED vars
  BY <1>20 DEF vars, row, thread, history, TypeOK, ThreadsOK, HistoryOK, RowsOK, AttemptsLeft, Closed, NoRetry
<1>. QED
  BY <1>1, <1>2, <1>3, <1>4, <1>5, <1>6, <1>7, <1>8, <1>9, <1>10, <1>11, <1>12, <1>13, <1>14, <1>15, <1>16, <1>17, <1>18, <1>19, <1>20 DEF Next, Run, Work

LEMMA RecordedNext ==
    ASSUME TypeOK, RestsEmpty, Exclusive, Recorded, [Next]_vars
    PROVE  Recorded'
<1>1. ASSUME NEW a \in Alerts, Create(a)
      PROVE  Recorded'
  BY <1>1, ConstantFacts DEF ConstantAssumption, Create, TypeOK, ThreadsOK, HistoryOK, Recorded, thread, history, RowsOK
<1>2. ASSUME NEW p \in Procs, Drain(p)
      PROVE  Recorded'
  BY <1>2, ConstantFacts DEF ConstantAssumption, Drain, TypeOK, ThreadsOK, HistoryOK, Recorded, RowsOK, Stale, Held, RestsEmpty
<1>3. ASSUME NEW p \in Procs, EndDrain(p)
      PROVE  Recorded'
  BY <1>3, ConstantFacts DEF ConstantAssumption, EndDrain, TypeOK, ThreadsOK, HistoryOK, Recorded, row, thread, history
<1>4. ASSUME NEW p \in Procs, Start(p)
      PROVE  Recorded'
  BY <1>4, ConstantFacts DEF ConstantAssumption, Start, TypeOK, ThreadsOK, HistoryOK, Recorded, row, thread, history
<1>5. ASSUME NEW p \in Procs, Stop(p)
      PROVE  Recorded'
  BY <1>5, ConstantFacts DEF ConstantAssumption, Stop, TypeOK, ThreadsOK, HistoryOK, Recorded, row, thread, history
<1>6. ASSUME NEW p \in Procs, Crash(p)
      PROVE  Recorded'
  BY <1>6, ConstantFacts DEF ConstantAssumption, Crash, TypeOK, ThreadsOK, HistoryOK, Recorded, row, Owed, Mine
<1>7. ASSUME NEW t \in Threads, Claim(t)
      PROVE  Recorded'
  <2>1. \A x \in Alerts : status[x] = "sent" => status'[x] = "sent"
    <3>1. PICK S \in Oldest(ClaimLimit, {a \in Alerts : Claimable(a)}) :
             status' = [a \in Alerts |-> IF a \in S THEN "sending" ELSE status[a]]
      BY <1>7 DEF Claim
    <3>2. \A x \in S : status[x] # "sent"
      BY DEF Oldest, Claimable
    <3>. QED
      BY <3>1, <3>2
  <2>2. \A u \in Threads : pc[u] \in {"accepted", "confirm"} => pc'[u] = pc[u] /\ cur'[u] = cur[u]
    BY <1>7 DEF Claim, TypeOK, ThreadsOK
  <2>3. UNCHANGED <<delivered, unconfirmed, overrun>>
    BY <1>7 DEF Claim, history
  <2>. QED
    BY <2>1, <2>2, <2>3 DEF Recorded
<1>8. ASSUME NEW t \in Threads, Leave(t)
      PROVE  Recorded'
  BY <1>8, ConstantFacts DEF ConstantAssumption, Leave, TypeOK, ThreadsOK, HistoryOK, Recorded, row, history
<1>9. ASSUME NEW t \in Threads, ClaimFails(t)
      PROVE  Recorded'
  BY <1>9, ConstantFacts DEF ConstantAssumption, ClaimFails, TypeOK, ThreadsOK, HistoryOK, Recorded, row, history
<1>10. ASSUME NEW t \in Threads, NEW a \in Alerts, Begin(t, a)
      PROVE  Recorded'
  BY <1>10, ConstantFacts DEF ConstantAssumption, Begin, TypeOK, ThreadsOK, HistoryOK, Recorded, row
<1>11. ASSUME NEW t \in Threads, Accept(t)
      PROVE  Recorded'
  <2>1. PICK c \in Alerts : c = cur[t] /\ c \in batch[t]
    BY <1>11 DEF Accept, TypeOK, ThreadsOK
  <2>2. /\ pc[t] = "sending" /\ pc' = [pc EXCEPT ![t] = "accepted"]
        /\ delivered' = [delivered EXCEPT ![c] = delivered[c] + 1]
        /\ UNCHANGED <<status, batch, cur, muted, unconfirmed, overrun>>
    BY <1>11, <2>1 DEF Accept, row
  <2>3. \A a \in Alerts : delivered'[a] = IF a = c THEN delivered[a] + 1 ELSE delivered[a]
    BY <2>2 DEF TypeOK, HistoryOK
  <2>4. ASSUME NEW a \in Alerts \ (unconfirmed \cup overrun)
        PROVE  /\ delivered'[a] <= 1
               /\ delivered'[a] = 1 =>
                     \/ status'[a] = "sent"
                     \/ \E u \in Threads : cur'[u] = a /\ pc'[u] \in {"accepted", "confirm"}
    <3>1. CASE a = c
      <4>1. status[a] = "sending" /\ \A u \in Threads : a \in batch[u] => u = t
        BY <2>1, <3>1 DEF Exclusive
      <4>2. \A u \in Threads : ~(cur[u] = a /\ pc[u] \in {"accepted", "confirm"})
        BY <2>2, <4>1 DEF TypeOK, ThreadsOK
      <4>3. delivered[a] # 1 /\ delivered[a] <= 1 /\ delivered[a] \in Nat
        BY <4>1, <4>2 DEF Recorded, TypeOK, HistoryOK
      <4>4. cur'[t] = a /\ pc'[t] = "accepted"
        BY <2>1, <2>2, <3>1 DEF TypeOK, ThreadsOK
      <4>. QED
        BY <2>3, <3>1, <4>3, <4>4
    <3>2. CASE a # c
      <4>1. delivered'[a] = delivered[a]
        BY <2>3, <3>2
      <4>2. \A u \in Threads : cur[u] = a /\ pc[u] \in {"accepted", "confirm"} => pc'[u] = pc[u]
        BY <2>2 DEF TypeOK, ThreadsOK
      <4>. QED
        BY <2>2, <4>1, <4>2 DEF Recorded
    <3>. QED
      BY <3>1, <3>2
  <2>. QED
    BY <2>2, <2>4 DEF Recorded
<1>12. ASSUME NEW t \in Threads, Acknowledge(t)
      PROVE  Recorded'
  BY <1>12, ConstantFacts DEF ConstantAssumption, Acknowledge, TypeOK, ThreadsOK, HistoryOK, Recorded, row, history
<1>13. ASSUME NEW t \in Threads, Suppress(t)
      PROVE  Recorded'
  BY <1>13, ConstantFacts DEF ConstantAssumption, Suppress, TypeOK, ThreadsOK, HistoryOK, Recorded, row
<1>14. ASSUME NEW t \in Threads, Refuse(t)
      PROVE  Recorded'
  BY <1>14, ConstantFacts DEF ConstantAssumption, Refuse, TypeOK, ThreadsOK, HistoryOK, Recorded, row
<1>15. ASSUME NEW t \in Threads, Abandon(t)
      PROVE  Recorded'
  BY <1>15, ConstantFacts DEF ConstantAssumption, Abandon, TypeOK, ThreadsOK, HistoryOK, Recorded, Release, RowsOK, row, Owed
<1>16. ASSUME NEW t \in Threads, MarkSent(t)
      PROVE  Recorded'
  <2>1. UNCHANGED <<delivered, unconfirmed, overrun>>
    BY <1>16 DEF MarkSent, history
  <2>2. cur[t] \in Alerts /\ cur[t] \in batch[t]
    BY <1>16 DEF MarkSent, TypeOK, ThreadsOK
  <2>3. \A x \in Alerts : status[x] = "sent" => status'[x] = "sent"
    BY <1>16, <2>2 DEF MarkSent, TypeOK, RowsOK
  <2>4. cur[t] \notin overrun => status'[cur[t]] = "sent"
    BY <1>16, <2>2 DEF MarkSent, TypeOK, RowsOK, Exclusive, StillSending
  <2>5. \A u \in Threads : u # t => pc'[u] = pc[u] /\ cur'[u] = cur[u]
    BY <1>16 DEF MarkSent, Release, TypeOK, ThreadsOK
  <2>. QED
    BY <2>1, <2>3, <2>4, <2>5 DEF Recorded
<1>17. ASSUME NEW t \in Threads, MarkFailed(t)
      PROVE  Recorded'
  <2>1. /\ pc[t] \in {"failed", "give_up"} /\ pc' = [pc EXCEPT ![t] = "loop"]
        /\ cur' = [cur EXCEPT ![t] = None] /\ cur[t] \in batch[t]
        /\ UNCHANGED history
    BY <1>17 DEF MarkFailed, Release, TypeOK, ThreadsOK
  <2>2. \A a \in Alerts : status[a] = "sent" => status'[a] = "sent"
    BY <1>17 DEF MarkFailed, StillSending, TypeOK, RowsOK
  <2>3. \A u \in Threads : pc[u] \in {"accepted", "confirm"} => pc'[u] = pc[u] /\ cur'[u] = cur[u]
    BY <2>1 DEF TypeOK, ThreadsOK
  <2>. QED
    BY <2>1, <2>2, <2>3 DEF Recorded, history
<1>18. ASSUME NEW t \in Threads, MarkLost(t)
      PROVE  Recorded'
  BY <1>18, ConstantFacts DEF ConstantAssumption, MarkLost, TypeOK, ThreadsOK, HistoryOK, Recorded, Release, RowsOK, row, Owed
<1>19. CASE Tick
  BY <1>19, ConstantFacts DEF ConstantAssumption, Tick, TypeOK, ThreadsOK, HistoryOK, Recorded, thread, history
<1>20. CASE UNCHANGED vars
  BY <1>20 DEF vars, row, thread, history, TypeOK, ThreadsOK, HistoryOK, Recorded
<1>. QED
  BY <1>1, <1>2, <1>3, <1>4, <1>5, <1>6, <1>7, <1>8, <1>9, <1>10, <1>11, <1>12, <1>13, <1>14, <1>15, <1>16, <1>17, <1>18, <1>19, <1>20 DEF Next, Run, Work

LEMMA EvidenceNext ==
    ASSUME TypeOK, Evidence, [Next]_vars
    PROVE  Evidence'
<1>1. ASSUME NEW a \in Alerts, Create(a)
      PROVE  Evidence'
  BY <1>1, ConstantFacts DEF ConstantAssumption, Create, TypeOK, ThreadsOK, HistoryOK, Evidence, thread, history, RowsOK
<1>2. ASSUME NEW p \in Procs, Drain(p)
      PROVE  Evidence'
  BY <1>2, ConstantFacts DEF ConstantAssumption, Drain, TypeOK, ThreadsOK, HistoryOK, Evidence, RowsOK, Stale, Held, RestsEmpty
<1>3. ASSUME NEW p \in Procs, EndDrain(p)
      PROVE  Evidence'
  BY <1>3, ConstantFacts DEF ConstantAssumption, EndDrain, TypeOK, ThreadsOK, HistoryOK, Evidence, row, thread, history
<1>4. ASSUME NEW p \in Procs, Start(p)
      PROVE  Evidence'
  BY <1>4, ConstantFacts DEF ConstantAssumption, Start, TypeOK, ThreadsOK, HistoryOK, Evidence, row, thread, history
<1>5. ASSUME NEW p \in Procs, Stop(p)
      PROVE  Evidence'
  BY <1>5, ConstantFacts DEF ConstantAssumption, Stop, TypeOK, ThreadsOK, HistoryOK, Evidence, row, thread, history
<1>6. ASSUME NEW p \in Procs, Crash(p)
      PROVE  Evidence'
  BY <1>6, ConstantFacts DEF ConstantAssumption, Crash, TypeOK, ThreadsOK, HistoryOK, Evidence, row
<1>7. ASSUME NEW t \in Threads, Claim(t)
      PROVE  Evidence'
  BY <1>7, ConstantFacts DEF ConstantAssumption, Claim, TypeOK, ThreadsOK, HistoryOK, Evidence, RowsOK, Oldest, Claimable, history
<1>8. ASSUME NEW t \in Threads, Leave(t)
      PROVE  Evidence'
  BY <1>8, ConstantFacts DEF ConstantAssumption, Leave, TypeOK, ThreadsOK, HistoryOK, Evidence, row, history
<1>9. ASSUME NEW t \in Threads, ClaimFails(t)
      PROVE  Evidence'
  BY <1>9, ConstantFacts DEF ConstantAssumption, ClaimFails, TypeOK, ThreadsOK, HistoryOK, Evidence, row, history
<1>10. ASSUME NEW t \in Threads, NEW a \in Alerts, Begin(t, a)
      PROVE  Evidence'
  BY <1>10, ConstantFacts DEF ConstantAssumption, Begin, TypeOK, ThreadsOK, HistoryOK, Evidence, row
<1>11. ASSUME NEW t \in Threads, Accept(t)
      PROVE  Evidence'
  <2>1. PICK c \in Alerts : c = cur[t] /\ c \in batch[t]
    BY <1>11 DEF Accept, TypeOK, ThreadsOK
  <2>2. /\ pc[t] = "sending" /\ pc' = [pc EXCEPT ![t] = "accepted"]
        /\ delivered' = [delivered EXCEPT ![c] = delivered[c] + 1]
        /\ UNCHANGED <<status, batch, cur, muted, unconfirmed, overrun>>
    BY <1>11, <2>1 DEF Accept, row
  <2>3. \A a \in Alerts : delivered'[a] = IF a = c THEN delivered[a] + 1 ELSE delivered[a]
    BY <2>2 DEF TypeOK, HistoryOK
  <2>4. ASSUME NEW u \in Threads, pc'[u] \in {"accepted", "confirm"} PROVE delivered'[cur'[u]] > 0
    <3>1. cur[u] \in Alerts
      BY <2>1, <2>2, <2>4 DEF TypeOK, ThreadsOK
    <3>2. delivered[cur[u]] \in Nat
      BY <3>1 DEF TypeOK, HistoryOK
    <3>3. cur[u] = c \/ delivered[cur[u]] > 0
      BY <2>1, <2>2, <2>4 DEF Evidence, TypeOK, ThreadsOK
    <3>. QED
      BY <2>2, <2>3, <3>1, <3>2, <3>3
  <2>5. \A u \in Threads : pc'[u] = "swallowed" => cur'[u] \in muted'
    BY <2>2 DEF Evidence, TypeOK, ThreadsOK
  <2>6. \A a \in Alerts : status'[a] = "sent" => delivered'[a] > 0 \/ a \in muted'
    BY <2>2, <2>3 DEF Evidence, TypeOK, HistoryOK
  <2>. QED
    BY <2>4, <2>5, <2>6 DEF Evidence
<1>12. ASSUME NEW t \in Threads, Acknowledge(t)
      PROVE  Evidence'
  BY <1>12, ConstantFacts DEF ConstantAssumption, Acknowledge, TypeOK, ThreadsOK, HistoryOK, Evidence, row, history
<1>13. ASSUME NEW t \in Threads, Suppress(t)
      PROVE  Evidence'
  BY <1>13, ConstantFacts DEF ConstantAssumption, Suppress, TypeOK, ThreadsOK, HistoryOK, Evidence, row
<1>14. ASSUME NEW t \in Threads, Refuse(t)
      PROVE  Evidence'
  BY <1>14, ConstantFacts DEF ConstantAssumption, Refuse, TypeOK, ThreadsOK, HistoryOK, Evidence, row
<1>15. ASSUME NEW t \in Threads, Abandon(t)
      PROVE  Evidence'
  BY <1>15, ConstantFacts DEF ConstantAssumption, Abandon, TypeOK, ThreadsOK, HistoryOK, Evidence, Release, RowsOK, row
<1>16. ASSUME NEW t \in Threads, MarkSent(t)
      PROVE  Evidence'
  BY <1>16, ConstantFacts DEF ConstantAssumption, MarkSent, TypeOK, ThreadsOK, HistoryOK, Evidence, Release, RowsOK, history, StillSending
<1>17. ASSUME NEW t \in Threads, MarkFailed(t)
      PROVE  Evidence'
  BY <1>17, ConstantFacts DEF ConstantAssumption, MarkFailed, TypeOK, ThreadsOK, HistoryOK, Evidence, Release, RowsOK, history
<1>18. ASSUME NEW t \in Threads, MarkLost(t)
      PROVE  Evidence'
  BY <1>18, ConstantFacts DEF ConstantAssumption, MarkLost, TypeOK, ThreadsOK, HistoryOK, Evidence, Release, RowsOK, row
<1>19. CASE Tick
  BY <1>19, ConstantFacts DEF ConstantAssumption, Tick, TypeOK, ThreadsOK, HistoryOK, Evidence, thread, history
<1>20. CASE UNCHANGED vars
  BY <1>20 DEF vars, row, thread, history, TypeOK, ThreadsOK, HistoryOK, Evidence
<1>. QED
  BY <1>1, <1>2, <1>3, <1>4, <1>5, <1>6, <1>7, <1>8, <1>9, <1>10, <1>11, <1>12, <1>13, <1>14, <1>15, <1>16, <1>17, <1>18, <1>19, <1>20 DEF Next, Run, Work

LEMMA InvariantInit == Init => IInv
<1>. SUFFICES ASSUME Init
              PROVE  IInv
  OBVIOUS
<1>1. TypeOK
  BY TypeInit
<1>2. RestsEmpty /\ Exclusive /\ FreshSnapshots
  BY DEF Init, RestsEmpty, Exclusive, FreshSnapshots
<1>3. AttemptsLeft
  BY ConstantFacts DEF Init, AttemptsLeft, Closed, ConstantAssumption
<1>4. Recorded /\ Evidence
  BY DEF Init, Recorded, Evidence
<1>. QED
  BY <1>1, <1>2, <1>3, <1>4 DEF IInv

LEMMA InvariantNext == IInv /\ [Next]_vars => IInv'
<1>. SUFFICES ASSUME IInv, [Next]_vars
              PROVE  IInv'
  OBVIOUS
<1>1. TypeOK' /\ RestsEmpty' /\ Exclusive'
  BY TypeNext, RestsEmptyNext, ExclusiveNext DEF IInv
<1>2. FreshSnapshots' /\ AttemptsLeft'
  BY FreshSnapshotsNext, AttemptsLeftNext DEF IInv
<1>3. Recorded' /\ Evidence'
  BY RecordedNext, EvidenceNext DEF IInv
<1>. QED
  BY <1>1, <1>2, <1>3 DEF IInv

\* The inductive invariant holds throughout.
THEOREM Invariance == Spec => []IInv
<1>1. Init => IInv
  BY InvariantInit
<1>2. IInv /\ [Next]_vars => IInv'
  BY InvariantNext
<1>. QED
  BY <1>1, <1>2, PTL DEF Spec

\* FOR UPDATE SKIP LOCKED and the status flip give a row to one goroutine at a
\* time, for any number of processes, until a reset takes it from a live one.
THEOREM Exclusion == Spec => []Exclusive
<1>1. IInv => Exclusive
  BY DEF IInv
<1>. QED
  BY <1>1, Invariance, PTL

\* A second copy of an alert in the chat has one of the two causes.
THEOREM DuplicatesExplained == Spec => []DuplicateHasCause
<1>1. ASSUME IInv PROVE DuplicateHasCause
  BY <1>1 DEF IInv, TypeOK, HistoryOK, Recorded, DuplicateHasCause
<1>. QED
  BY <1>1, Invariance, PTL

\* A row that says `sent` was accepted or dropped by the router, and one that
\* failed for good was never seen, but for the two causes.
THEOREM ClosedRowsTell == Spec => []ClosedRowsAreTrue
<1>1. ASSUME IInv, NEW a \in Alerts, Closed(a), status[a] # "sent",
             delivered[a] > 0, a \notin unconfirmed \cup overrun
      PROVE  FALSE
  <2>1. delivered[a] = 1
    BY <1>1 DEF IInv, TypeOK, HistoryOK, Recorded
  <2>2. PICK t \in Threads : cur[t] = a /\ pc[t] \in {"accepted", "confirm"}
    BY <1>1, <2>1 DEF IInv, Recorded
  <2>3. a \in batch[t]
    BY <1>1, <2>2 DEF IInv, TypeOK, ThreadsOK
  <2>4. status[a] = "sending"
    BY <1>1, <2>3 DEF IInv, Exclusive
  <2>. QED
    BY <1>1, <2>4 DEF Closed
<1>2. ASSUME IInv PROVE ClosedRowsAreTrue
  BY <1>1, <1>2 DEF IInv, Evidence, ClosedRowsAreTrue
<1>. QED
  BY <1>2, Invariance, PTL

\* send_attempts stays within MaxAttempts, and a scheduled retry strictly below,
\* for every row no reset took from a live goroutine.
THEOREM BudgetKept == Spec => []RetryBudget
<1>1. ASSUME IInv PROVE RetryBudget
  BY <1>1 DEF IInv, AttemptsLeft, RetryBudget, Closed
<1>. QED
  BY <1>1, Invariance, PTL

\* A drain never resets a row that its own process works on: wg.Wait orders
\* every reset after the last goroutine of the drain before.
THEOREM DrainsAreOrdered == Spec => OwnDrainNeverOverruns
<1>1. ASSUME IInv, NEW p \in Procs, mode[p] = "idle", NEW t \in Mine(p)
      PROVE  batch[t] = {}
  BY <1>1 DEF IInv, RestsEmpty, Mine
<1>2. IInv /\ [Next]_vars =>
        [\A p \in Procs : mode[p] = "idle" /\ mode'[p] = "draining" =>
            \A a \in overrun' \ overrun, t \in Mine(p) : a \notin batch[t]]_vars
  BY <1>1
<1>. QED
  BY <1>2, Invariance, PTL DEF Spec, OwnDrainNeverOverruns

-----------------------------------------------------------------------------
(* The table implements the abstract work queue *)

\* How the stage of a row follows from its columns.
LEMMA StageOf ==
    ASSUME TypeOK, NEW a \in Alerts
    PROVE  /\ status[a] = "none" => Stage(a) = "absent"
           /\ status[a] = "pending" => Stage(a) = "ready"
           /\ status[a] = "sending" => Stage(a) = "out"
           /\ status[a] = "sent" => Stage(a) = "closed"
           /\ status[a] = "failed" /\ retry[a] = NoRetry => Stage(a) = "closed"
           /\ status[a] = "failed" /\ retry[a] # NoRetry => Stage(a) = "ready"
BY DEF Stage, Closed, TypeOK, RowsOK

Stages == [a \in Alerts |-> Stage(a)]

\* Rows that keep status and next_retry_at keep their stage.
LEMMA StageKept ==
    ASSUME NEW a \in Alerts, status'[a] = status[a],
           (retry'[a] = NoRetry) <=> (retry[a] = NoRetry)
    PROVE  Stage(a)' = Stage(a)
BY DEF Stage, Closed

\* A statement that moves the rows of S, and no other, moves their stages.
LEMMA StageMoved ==
    ASSUME NEW S \in SUBSET Alerts, NEW from, NEW to,
           \A a \in S : Stage(a) = from /\ Stage(a)' = to,
           \A a \in Alerts \ S : Stage(a)' = Stage(a)
    PROVE  Queue!Move(S, from, to)
BY DEF Queue!Move

LEMMA QueueStep ==
    ASSUME TypeOK, [Next]_vars
    PROVE  Queue!Next \/ Stages' = Stages
<1>0. TypeOK'
  BY TypeNext
<1>1. ASSUME NEW a \in Alerts, Create(a)
      PROVE  Queue!Next
  <2>1. Stage(a) = "absent" /\ Stage(a)' = "ready"
    BY <1>0, <1>1, StageOf DEF Create, Stage, Closed, TypeOK, RowsOK
  <2>2. \A b \in Alerts \ {a} : Stage(b)' = Stage(b)
    BY <1>1, StageKept DEF Create, TypeOK, RowsOK
  <2>3. Queue!Put(a)
    BY <2>1, <2>2 DEF Queue!Put
  <2>. QED
    BY <2>3 DEF Queue!Next
<1>2. ASSUME NEW p \in Procs, Drain(p)
      PROVE  Queue!Next \/ Stages' = Stages
  <2>1. CASE UNCHANGED status
    BY <1>2, <2>1, StageKept DEF Drain, Stages
  <2>2. CASE status' # status
    <3>. DEFINE S == {a \in Alerts : Stale(a)}
    <3>1. /\ status' = [a \in Alerts |-> IF a \in S THEN "pending" ELSE status[a]]
          /\ UNCHANGED retry
      BY <1>2, <2>2 DEF Drain
    <3>2. \A a \in S : Stage(a) = "out" /\ Stage(a)' = "ready"
      BY <3>1 DEF Stale, Stage, Closed
    <3>3. \A a \in Alerts \ S : Stage(a)' = Stage(a)
      BY <3>1, StageKept
    <3>4. Queue!Move(S, "out", "ready")
      BY <3>2, <3>3, StageMoved
    <3>. QED
      BY <3>4 DEF Queue!Next, Queue!GiveBack
  <2>. QED
    BY <2>1, <2>2
<1>3. ASSUME NEW t \in Threads, Claim(t)
      PROVE  Queue!Next
  <2>1. PICK S \in Oldest(ClaimLimit, {a \in Alerts : Claimable(a)}) :
             status' = [a \in Alerts |-> IF a \in S THEN "sending" ELSE status[a]]
    BY <1>3 DEF Claim
  <2>2. S \subseteq Alerts /\ (\A a \in S : Claimable(a)) /\ UNCHANGED retry
    BY <1>3 DEF Oldest, Claim
  <2>3. \A a \in S : Stage(a) = "ready" /\ Stage(a)' = "out"
    BY <2>1, <2>2 DEF Claimable, Stage, Closed, NoRetry
  <2>4. \A a \in Alerts \ S : Stage(a)' = Stage(a)
    BY <2>1, <2>2, StageKept
  <2>5. Queue!Move(S, "ready", "out")
    BY <2>2, <2>3, <2>4, StageMoved
  <2>. QED
    BY <2>2, <2>5 DEF Queue!Next, Queue!Take
<1>4. ASSUME NEW t \in Threads, MarkSent(t)
      PROVE  Queue!Next \/ Stages' = Stages
  <2>1. CASE UNCHANGED <<status, retry>>
    BY <2>1, StageKept DEF Stages
  <2>2. CASE ~UNCHANGED <<status, retry>>
    <3>1. PICK a \in Alerts : a = cur[t]
      BY <1>4 DEF MarkSent, TypeOK, ThreadsOK
    <3>2. /\ status[a] = "sending" /\ status' = [status EXCEPT ![a] = "sent"]
          /\ retry' = [retry EXCEPT ![a] = NoRetry]
      BY <1>4, <2>2, <3>1 DEF MarkSent, StillSending
    <3>3. Stage(a) = "out" /\ Stage(a)' = "closed"
      BY <3>2 DEF Stage, Closed, TypeOK, RowsOK
    <3>4. \A b \in Alerts \ {a} : Stage(b)' = Stage(b)
      BY <3>2, StageKept DEF TypeOK, RowsOK
    <3>5. Queue!Move({a}, "out", "closed")
      BY <3>3, <3>4, StageMoved
    <3>. QED
      BY <3>5 DEF Queue!Next, Queue!Close
  <2>. QED
    BY <2>1, <2>2
<1>5. ASSUME NEW t \in Threads, MarkFailed(t)
      PROVE  Queue!Next \/ Stages' = Stages
  <2>1. CASE UNCHANGED <<status, retry>>
    BY <2>1, StageKept DEF Stages
  <2>2. CASE ~UNCHANGED <<status, retry>>
    <3>1. PICK a \in Alerts : a = cur[t]
      BY <1>5 DEF MarkFailed, TypeOK, ThreadsOK
    <3>2. status[a] = "sending" /\ status' = [status EXCEPT ![a] = "failed"]
      BY <1>5, <2>2, <3>1 DEF MarkFailed, StillSending
    <3>3. PICK r \in NextRetry(t, pc[t] = "give_up") : retry' = [retry EXCEPT ![a] = r]
      BY <1>5, <2>2, <3>1 DEF MarkFailed, StillSending
    <3>4. Stage(a) = "out" /\ Stage(a)' \in {"closed", "ready"}
      BY <3>2 DEF Stage, Closed, TypeOK, RowsOK
    <3>5. \A b \in Alerts \ {a} : Stage(b)' = Stage(b)
      BY <3>2, <3>3, StageKept DEF TypeOK, RowsOK
    <3>6. Queue!Move({a}, "out", "closed") \/ Queue!Move({a}, "out", "ready")
      BY <3>4, <3>5, StageMoved
    <3>. QED
      BY <3>6 DEF Queue!Next, Queue!Close, Queue!GiveBack
  <2>. QED
    BY <2>1, <2>2
<1>6. CASE Tick
  <2>1. \A a \in Alerts : (retry'[a] = NoRetry) <=> (retry[a] = NoRetry)
    BY <1>6 DEF Tick, TypeOK, RowsOK, NoRetry
  <2>. QED
    BY <1>6, <2>1, StageKept DEF Tick, Stages
<1>7. CASE UNCHANGED <<status, retry>>
  BY <1>7, StageKept DEF Stages
<1>8. \/ \E a \in Alerts : Create(a)
      \/ \E p \in Procs : Drain(p)
      \/ \E t \in Threads : Claim(t) \/ MarkSent(t) \/ MarkFailed(t)
      \/ Tick
      \/ UNCHANGED <<status, retry>>
  BY DEF Next, Run, Work, EndDrain, Start, Stop, Crash, Leave, ClaimFails, Begin, Accept,
         Acknowledge, Suppress, Refuse, Abandon, MarkLost, vars, row
<1>. QED
  BY <1>1, <1>2, <1>3, <1>4, <1>5, <1>6, <1>7, <1>8

\* The table is a work queue for every number of rows, processes and goroutines:
\* rows leave the queue only by a claim, come back only from a sender, and a
\* closed row is never touched again, whatever stale senders do.
THEOREM Implementation == Spec => ImplementsQueue
<1>1. Init => Queue!Init
  <2>. SUFFICES ASSUME Init
                PROVE  Queue!Init
    OBVIOUS
  <2>1. \A a \in Alerts : status[a] = "none"
    BY DEF Init
  <2>2. \A a \in Alerts : Stage(a) = "absent"
    BY <2>1, StageOf, TypeInit
  <2>. QED
    BY <2>2 DEF Queue!Init
<1>2. TypeOK /\ [Next]_vars => [Queue!Next]_Stages
  BY QueueStep
<1>. QED
  BY <1>1, <1>2, TypeCorrect, PTL DEF Spec, ImplementsQueue, Queue!Spec, Stages

-----------------------------------------------------------------------------
(* AlertDecision: what the trades of a line are worth *)

\* Every set of numbers that is not empty has a least one: what induction over
\* the size of a set is done with here.
LEMMA LeastNat ==
    ASSUME NEW S, S \subseteq Nat, S # {}
    PROVE  \E n \in S : \A m \in S : n <= m
<1>. DEFINE R == OpToRel(<, Nat)
<1>1. IsWellFoundedOn(R, Nat)
  BY NatLessThanWellFounded, Zenon
<1>2. \A m, n \in Nat : m < n => <<m, n>> \in R
  BY DEF OpToRel
<1>. HIDE DEF R
<1>3. PICK n \in S : \A m \in S : ~(<<m, n>> \in R)
  BY <1>1, WFMin, Zenon
<1>4. \A m \in S : ~(m < n)
  BY <1>2, <1>3, Zenon
<1>. QED
  BY <1>4

\* The equation of Sum, on the sets of at most n trades.
UpTo(n) == {U \in SUBSET Trades : Cardinality(U) <= n}
One(U) == CHOOSE u \in U : TRUE
Adds(g, U) == IF U = {} THEN 0 ELSE Notional[One(U)] + g[U \ {One(U)}]
Solves(g, n) == g = [U \in UpTo(n) |-> Adds(g, U)]

\* Without the trade it picks, a set of trades is smaller by one.
LEMMA OneLess ==
    ASSUME NEW U \in SUBSET Trades, U # {}
    PROVE  /\ One(U) \in U /\ U \ {One(U)} \in SUBSET Trades
           /\ Cardinality(U) \in Nat /\ Cardinality(U \ {One(U)}) \in Nat
           /\ Cardinality(U) = Cardinality(U \ {One(U)}) + 1
<1>1. One(U) \in U
  BY DEF One
<1>2. IsFiniteSet(U)
  BY TradesAssumption, FS_Subset
<1>3. /\ IsFiniteSet(U \ {One(U)})
      /\ Cardinality(U \ {One(U)}) = Cardinality(U) - 1
  BY <1>1, <1>2, FS_RemoveElement
<1>4. Cardinality(U) \in Nat /\ Cardinality(U \ {One(U)}) \in Nat
  BY <1>2, <1>3, FS_CardinalityType
<1>. QED
  BY <1>1, <1>3, <1>4

\* The equation has a solution for every bound, by the least bound without one.
LEMMA SumSolvable == \A n \in Nat : \E g : Solves(g, n)
<1>. DEFINE Bad == {n \in Nat : ~\E g : Solves(g, n)}
<1>. SUFFICES ASSUME Bad # {} PROVE FALSE
  OBVIOUS
<1>1. PICK n \in Bad : \A m \in Bad : n <= m
  BY LeastNat
<1>2. n \in Nat /\ ~\E g : Solves(g, n)
  OBVIOUS
<1>3. \A U \in UpTo(0) : U = {}
  <2>. SUFFICES ASSUME NEW U \in SUBSET Trades, Cardinality(U) <= 0, U # {} PROVE FALSE
    BY DEF UpTo
  <2>1. Cardinality(U) = Cardinality(U \ {One(U)}) + 1 /\ Cardinality(U \ {One(U)}) \in Nat
    BY OneLess
  <2>. QED
    BY <2>1
<1>4. CASE n = 0
  <2>. DEFINE g == [U \in UpTo(0) |-> 0]
  <2>1. \A U \in UpTo(0) : Adds(g, U) = 0
    BY <1>3 DEF Adds
  <2>2. Solves(g, 0)
    BY <2>1 DEF Solves
  <2>. QED
    BY <1>2, <1>4, <2>2
<1>5. CASE n # 0
  <2>1. n - 1 \in Nat /\ n - 1 < n
    BY <1>2, <1>5
  <2>2. n - 1 \notin Bad
    BY <1>1, <1>2, <2>1
  <2>3. PICK g : Solves(g, n - 1)
    BY <2>1, <2>2
  <2>. DEFINE h == [U \in UpTo(n) |-> Adds(g, U)]
  <2>4. ASSUME NEW U \in UpTo(n) PROVE Adds(g, U) = Adds(h, U)
    <3>1. CASE U = {}
      BY <3>1 DEF Adds
    <3>2. CASE U # {}
      <4>. DEFINE V == U \ {One(U)}
      <4>1. V \in UpTo(n - 1) /\ V \in UpTo(n)
        BY <1>2, <2>1, <3>2, OneLess DEF UpTo
      <4>2. g[V] = Adds(g, V)
        <5>1. g = [W \in UpTo(n - 1) |-> Adds(g, W)]
          BY <2>3 DEF Solves
        <5>. HIDE DEF V
        <5>. QED
          BY <4>1, <5>1, Zenon
      <4>3. h[V] = Adds(g, V)
        BY <4>1
      <4>. QED
        BY <3>2, <4>2, <4>3 DEF Adds
    <3>. QED
      BY <3>1, <3>2
  <2>5. Solves(h, n)
    <3>1. h = [U \in UpTo(n) |-> Adds(h, U)]
      BY <2>4
    <3>. QED
      BY <3>1 DEF Solves
  <2>. QED
    BY <1>2, <2>5
<1>. QED
  BY <1>4, <1>5

\* Sum satisfies its definition: it adds up, a trade at a time.
LEMMA SumAdds == \A S \in SUBSET Trades : Sum[S] = Adds(Sum, S)
<1>1. UpTo(Cardinality(Trades)) = SUBSET Trades /\ Cardinality(Trades) \in Nat
  BY TradesAssumption, FS_Subset, FS_CardinalityType DEF UpTo
<1>2. PICK g : g = [S \in SUBSET Trades |-> Adds(g, S)]
  BY <1>1, SumSolvable DEF Solves
<1>3. Sum = CHOOSE f : f = [S \in SUBSET Trades |-> Adds(f, S)]
  BY Zenon DEF Sum, Adds, One
<1>4. Sum = [S \in SUBSET Trades |-> Adds(Sum, S)]
  BY <1>2, <1>3, Zenon
<1>. QED
  BY <1>4, Zenon

\* What a set of trades is worth is a natural number.
LEMMA SumNat == \A S \in SUBSET Trades : Sum[S] \in Nat
<1>. DEFINE Bad == {n \in Nat : \E S \in SUBSET Trades : Cardinality(S) = n /\ Sum[S] \notin Nat}
<1>1. SUFFICES Bad = {}
  BY TradesAssumption, FS_Subset, FS_CardinalityType
<1>. SUFFICES ASSUME Bad # {} PROVE FALSE
  OBVIOUS
<1>2. PICK n \in Bad : \A m \in Bad : n <= m
  BY LeastNat
<1>3. PICK S \in SUBSET Trades : Cardinality(S) = n /\ Sum[S] \notin Nat
  OBVIOUS
<1>4. Sum[S] = Adds(Sum, S)
  BY SumAdds
<1>5. S # {}
  BY <1>3, <1>4 DEF Adds
<1>6. S \ {One(S)} \in SUBSET Trades /\ Cardinality(S \ {One(S)}) < n
  BY <1>3, <1>5, OneLess
<1>7. Sum[S \ {One(S)}] \in Nat
  BY <1>2, <1>3, <1>5, <1>6, OneLess
<1>8. Notional[One(S)] \in Nat
  BY <1>5, OneLess, TradesAssumption
<1>. QED
  BY <1>3, <1>4, <1>5, <1>7, <1>8 DEF Adds

\* Sum does not depend on the order in which it takes the trades: one trade more is
\* worth its notional more, as the code's running totals and the database's SUM.
LEMMA SumIsTheTotal ==
    \A S \in SUBSET Trades : \A t \in Trades \ S : Sum[S \cup {t}] = Sum[S] + Notional[t]
<1>. DEFINE Adding(S, t) == Sum[S \cup {t}] = Sum[S] + Notional[t]
            Bad == {n \in Nat : \E S \in SUBSET Trades : \E t \in Trades \ S :
                                   Cardinality(S) = n /\ ~Adding(S, t)}
<1>1. SUFFICES Bad = {}
  BY TradesAssumption, FS_Subset, FS_CardinalityType
<1>. SUFFICES ASSUME Bad # {} PROVE FALSE
  OBVIOUS
<1>2. PICK n \in Bad : \A m \in Bad : n <= m
  <2>1. Bad \subseteq Nat
    OBVIOUS
  <2>. HIDE DEF Bad
  <2>. QED
    BY <2>1, LeastNat
<1>3. PICK S \in SUBSET Trades : \E t \in Trades \ S : Cardinality(S) = n /\ ~Adding(S, t)
  OBVIOUS
<1>4. PICK t \in Trades \ S : Cardinality(S) = n /\ ~Adding(S, t)
  BY <1>3
<1>. DEFINE U == S \cup {t}
            p == One(U)
            V == S \ {p}
<1>5. U \in SUBSET Trades /\ p \in U
  BY OneLess
<1>6. Sum[U] = Notional[p] + Sum[U \ {p}]
  BY <1>5, SumAdds DEF Adds
<1>7. /\ Sum[S] \in Nat /\ Sum[V] \in Nat
      /\ Notional[t] \in Nat /\ Notional[p] \in Nat
  BY <1>5, SumNat, TradesAssumption
<1>8. CASE p = t
  <2>1. U \ {p} = S
    BY <1>4, <1>8
  <2>. HIDE DEF U, p, Adding
  <2>2. Sum[U] = Notional[t] + Sum[S]
    BY <1>6, <1>8, <2>1
  <2>3. Sum[U] = Sum[S] + Notional[t]
    BY <1>7, <2>2
  <2>. QED
    BY <1>4, <2>3 DEF Adding, U
<1>9. CASE p # t
  <2>1. p \in S /\ IsFiniteSet(S)
    BY <1>5, <1>9, TradesAssumption, FS_Subset
  <2>2. Cardinality(V) = n - 1 /\ Cardinality(V) \in Nat
    BY <1>4, <2>1, FS_RemoveElement, FS_CardinalityType, ZenonT(60)
  <2>3. n - 1 \notin Bad /\ n - 1 \in Nat
    <3>1. n \in Nat /\ n - 1 \in Nat /\ ~(n <= n - 1)
      BY <1>2, <2>2
    <3>. HIDE DEF Bad
    <3>. QED
      BY <1>2, <3>1
  <2>4. V \in SUBSET Trades /\ t \in Trades \ V /\ p \in Trades \ V
    BY <1>4, <1>5
  <2>. HIDE DEF U, p, V, Adding
  <2>5. Adding(V, t) /\ Adding(V, p)
    BY <2>2, <2>3, <2>4
  <2>6. U \ {p} = V \cup {t} /\ S = V \cup {p}
    BY <1>4, <1>9, <2>1 DEF U, V
  <2>7. Sum[U \ {p}] = Sum[V] + Notional[t] /\ Sum[S] = Sum[V] + Notional[p]
    BY <2>5, <2>6 DEF Adding
  <2>8. Sum[U] = Sum[S] + Notional[t]
    BY <1>6, <1>7, <2>7
  <2>. QED
    BY <1>4, <2>8 DEF Adding, U
<1>. QED
  BY <1>8, <1>9

-----------------------------------------------------------------------------
(* AlertDecision: types, hands and rows *)

\* A finding in hand belongs to a running handler and is whole; at the single
\* trade's surface it has that trade's key, and a lifetime line's key tells the
\* wallet and the tier.
FindingsOK ==
    /\ DOMAIN hand = Trades
    /\ \A t \in Trades : hand[t] # Nothing =>
          /\ stage[t] \notin Resting
          /\ hand[t] = [key |-> hand[t].key, sev |-> hand[t].sev, by |-> t,
                        wallet |-> hand[t].wallet, usd |-> hand[t].usd, at |-> 0]
          /\ hand[t].usd \in Nat
          /\ hand[t].key[1] = "lifetime" => hand[t].key = <<"lifetime", hand[t].wallet, hand[t].sev>>
          /\ stage[t] = "single" => hand[t].key = SingleKey(t)

\* So do the keys of the rows, and there are finitely many.
TableOK ==
    /\ IsFiniteSet(alerts)
    /\ \A r \in alerts : /\ r.by \in Trades /\ r.usd \in Nat
                         /\ r.key[1] = "lifetime" => r.key = <<"lifetime", r.wallet, r.sev>>

Decided == DecisionTypeOK /\ FindingsOK /\ TableOK

LEMMA RuleFacts ==
    /\ At \in [Trades -> Nat] /\ Notional \in [Trades -> Nat] /\ Grade \in [Trades -> 0 .. Critical]
    /\ \A b \in Baselines : b.tail \in 0 .. Critical /\ b.ready \in BOOLEAN
    /\ MaxTime \in Nat /\ Mishaps \in Nat /\ Limit \in Nat \ {0} /\ Factor \in Nat
    /\ EventWindow \in Nat /\ WalletWindow \in Nat
<1>1. Notional \in [Trades -> Nat]
  BY TradesAssumption
<1>2. \A b \in Baselines : b.tail \in 0 .. Critical /\ b.ready \in BOOLEAN
  BY TradesAssumption
<1>. QED
  BY <1>1, <1>2, TradesAssumption, RulesAssumption

\* What a surface does: it composes a finding, which the gate judges, or, past
\* the single trade, cannot read.
Composes(t, key, sev, usd, filtered) ==
    /\ stage[t] \in {"single", "recent", "owner", "lifetime"} /\ hand[t] = Nothing
    /\ usd \in Nat
    /\ key[1] = "lifetime" => key = <<"lifetime", Wallet[t], sev>>
    /\ stage[t] = "single" => key = SingleKey(t) /\ sev = score[t]
    /\ stage[t] = "lifetime" => key = LifetimeKey(t, sev) /\ sev = LineTier(Line(Wallet[t], 0), t)
    /\ Offer(t, sev, Finding(t, key, sev, usd), filtered) \/ (stage[t] # "single" /\ Unread(t))
    /\ Rest

LEMMA SurfacesCompose ==
    ASSUME NEW t \in Trades, Single(t) \/ RecentLine(t) \/ Owner(t) \/ LifetimeLine(t)
    PROVE  \E key, sev, usd, filtered : Composes(t, key, sev, usd, filtered)
<1>1. \A S \in SUBSET Trades : Sum[S] \in Nat
  BY SumNat
<1>2. \A w, since : Line(w, since) \in SUBSET Trades /\ {u \in Stored : Wallet[u] = w} \in SUBSET Trades
  BY DEF Line, Stored
<1>3. CASE Single(t)
  <2>1. Composes(t, SingleKey(t), score[t], Notional[t], TRUE)
    BY <1>3, RuleFacts DEF Single, Composes, Ready, SingleKey
  <2>. QED
    BY <2>1
<1>4. CASE RecentLine(t)
  <2>. DEFINE S == Line(Wallet[t], now - LineWindow)
              sev == LineTier(S, t)
  <2>1. Sum[S] \in Nat
    BY <1>1, <1>2
  <2>2. stage[t] = "recent" /\ hand[t] = Nothing /\ Rest
        /\ (Offer(t, sev, Finding(t, RecentKey(t), sev, Sum[S]), TRUE) \/ Unread(t))
    BY <1>4 DEF RecentLine, Ready
  <2>3. RecentKey(t)[1] = "recent"
    BY DEF RecentKey
  <2>. HIDE DEF S, sev
  <2>4. Composes(t, RecentKey(t), sev, Sum[S], TRUE)
    BY <2>1, <2>2, <2>3 DEF Composes
  <2>. QED
    BY <2>4
<1>5. CASE Owner(t)
  <2>. DEFINE S == {u \in Stored : Wallet[u] = Wallet[t]}
              sev == OwnerTier(Wallet[t])
  <2>1. Sum[S] \in Nat
    BY <1>1, <1>2
  <2>2. stage[t] = "owner" /\ hand[t] = Nothing /\ Rest
        /\ (Offer(t, sev, Finding(t, OwnerKey(t, sev), sev, Sum[S]), FALSE) \/ Unread(t))
    BY <1>5 DEF Owner, Ready
  <2>3. OwnerKey(t, sev)[1] = "owner"
    BY DEF OwnerKey
  <2>. HIDE DEF S, sev
  <2>4. Composes(t, OwnerKey(t, sev), sev, Sum[S], FALSE)
    BY <2>1, <2>2, <2>3 DEF Composes
  <2>. QED
    BY <2>4
<1>6. CASE LifetimeLine(t)
  <2>. DEFINE S == Line(Wallet[t], 0)
              sev == LineTier(S, t)
  <2>1. Sum[S] \in Nat
    BY <1>1, <1>2
  <2>2. stage[t] = "lifetime" /\ hand[t] = Nothing /\ Rest
        /\ (Offer(t, sev, Finding(t, LifetimeKey(t, sev), sev, Sum[S]), TRUE) \/ Unread(t))
    BY <1>6 DEF LifetimeLine, Ready
  <2>3. \A x : LifetimeKey(t, x) = <<"lifetime", Wallet[t], x>>
    BY DEF LifetimeKey
  <2>4. \A u : Composes(t, LifetimeKey(t, sev), sev, u, TRUE) <=>
                 (u \in Nat /\ (Offer(t, sev, Finding(t, LifetimeKey(t, sev), sev, u), TRUE) \/ Unread(t)))
    BY <2>2, <2>3 DEF Composes
  <2>5. Composes(t, LifetimeKey(t, sev), sev, Sum[S], TRUE)
    BY <2>1, <2>2, <2>4
  <2>. QED
    BY <2>5
<1>. QED
  BY <1>3, <1>4, <1>5, <1>6

\* What an offer changes, whatever was composed.
LEMMA OfferMoves ==
    ASSUME FindingsOK, NEW t \in Trades, NEW key, NEW sev, NEW usd, NEW filtered,
           Composes(t, key, sev, usd, filtered), DecisionTypeOK
    PROVE  /\ UNCHANGED <<now, score, alerts, sent, full>>
           /\ \/ stage' = [stage EXCEPT ![t] = After[stage[t]]] /\ hand' = hand
              \/ stage' = stage /\ hand' = [hand EXCEPT ![t] = Finding(t, key, sev, usd)]
           /\ lost \subseteq lost' /\ lost' \subseteq lost \cup {t}
           /\ opened \subseteq opened' /\ opened' \subseteq opened \cup {t}
           /\ mishaps' \in Nat /\ lastFire' = lastFire
<1>1. UNCHANGED <<now, score, alerts, sent, full, lastFire>>
  BY DEF Composes, Rest, table, cluster
<1>2. CASE Offer(t, sev, Finding(t, key, sev, usd), filtered)
  BY <1>1, <1>2 DEF Offer, Mishap, DecisionTypeOK
<1>3. CASE Unread(t)
  BY <1>1, <1>3 DEF Unread, Mishap, DecisionTypeOK
<1>. QED
  BY <1>2, <1>3 DEF Composes

LEMMA DecidedInit == DecisionInit => Decided
<1>. SUFFICES ASSUME DecisionInit PROVE Decided
  OBVIOUS
<1>1. IsFiniteSet({})
  BY FS_EmptySet
<1>2. DecisionTypeOK
  BY RuleFacts DEF DecisionInit, DecisionTypeOK, Resting, After, Critical
<1>. QED
  BY <1>1, <1>2 DEF DecisionInit, Decided, FindingsOK, TableOK

\* A finding that was just composed is one a handler may have in hand.
GoodFinding(f, t) ==
    /\ f = [key |-> f.key, sev |-> f.sev, by |-> t, wallet |-> f.wallet, usd |-> f.usd, at |-> 0]
    /\ f.usd \in Nat
    /\ f.key[1] = "lifetime" => f.key = <<"lifetime", f.wallet, f.sev>>
    /\ stage[t] = "single" => f.key = SingleKey(t)

LEMMA ComposedIsGood ==
    ASSUME NEW t \in Trades, NEW key, NEW sev, NEW usd, NEW filtered,
           Composes(t, key, sev, usd, filtered)
    PROVE  GoodFinding(Finding(t, key, sev, usd), t)
<1>. DEFINE f == Finding(t, key, sev, usd)
<1>1. /\ f = [key |-> key, sev |-> sev, by |-> t, wallet |-> Wallet[t], usd |-> usd, at |-> 0]
      /\ f.key = key /\ f.sev = sev /\ f.by = t /\ f.wallet = Wallet[t] /\ f.usd = usd
  BY DEF Finding
<1>2. /\ usd \in Nat
      /\ key[1] = "lifetime" => key = <<"lifetime", Wallet[t], sev>>
      /\ stage[t] = "single" => key = SingleKey(t)
  BY DEF Composes
<1>3. f = [key |-> f.key, sev |-> f.sev, by |-> t, wallet |-> f.wallet, usd |-> f.usd, at |-> 0]
  BY DEF Finding
<1>. HIDE DEF f
<1>4. /\ f.usd \in Nat
      /\ f.key[1] = "lifetime" => f.key = <<"lifetime", f.wallet, f.sev>>
      /\ stage[t] = "single" => f.key = SingleKey(t)
  BY <1>1, <1>2, Zenon
<1>5. GoodFinding(f, t)
  BY <1>3, <1>4, Zenon DEF GoodFinding
<1>. QED
  BY <1>5 DEF f

LEMMA WatchIsGood ==
    ASSUME NEW t \in Trades
    PROVE  /\ Watch(t) = [key |-> Watch(t).key, sev |-> Watch(t).sev, by |-> t, wallet |-> Watch(t).wallet,
                          usd |-> Watch(t).usd, at |-> 0]
           /\ Watch(t).usd \in Nat /\ Watch(t).key[1] = "cluster" /\ Watch(t).sev = Hard
<1>1. Watch(t) = [key |-> WatchKey, sev |-> Hard, by |-> t, wallet |-> Nothing, usd |-> 0, at |-> 0]
  BY DEF Watch, Finding
<1>2. WatchKey[1] = "cluster"
  BY DEF WatchKey
<1>. QED
  BY <1>1, <1>2

\* A step of one handler leaves the others' findings as they were.
LEMMA OneHand ==
    ASSUME FindingsOK, NEW t \in Trades, DOMAIN hand' = Trades,
           \A u \in Trades : u # t => stage'[u] = stage[u] /\ hand'[u] = hand[u],
           hand'[t] # Nothing => stage'[t] \notin Resting /\ GoodFinding(hand[t], t)'
    PROVE  FindingsOK'
<1>. SUFFICES ASSUME NEW u \in Trades, hand'[u] # Nothing
              PROVE  stage'[u] \notin Resting /\ GoodFinding(hand[u], u)'
  BY DEF FindingsOK, GoodFinding
<1>1. CASE u = t
  BY <1>1
<1>2. CASE u # t
  <2>1. stage'[u] = stage[u] /\ hand'[u] = hand[u] /\ stage[u] \notin Resting /\ GoodFinding(hand[u], u)
    BY <1>2 DEF FindingsOK, GoodFinding
  <2>. QED
    BY <2>1 DEF GoodFinding, SingleKey
<1>. QED
  BY <1>1, <1>2

\* How a handler's first step may end: passed over, with the single trade's part
\* over, with a category watch in hand, or at the single trade.
Starts(t, s) ==
    /\ stage' = [stage EXCEPT ![t] = s]
    /\ s \in {"done", "recent"} => score' = score
    /\ s # "watch" => hand' = hand
    /\ s = "watch" => hand' = [hand EXCEPT ![t] = Watch(t)]
    /\ s = "done" => t \in lost'
    /\ \E x \in 0 .. Critical : score' = [score EXCEPT ![t] = x] \/ score' = score
    /\ lastFire' = lastFire \/ lastFire' = now

\* The part of that step behind the baseline's answer.
LEMMA ScoreStarts ==
    ASSUME NEW t \in Trades, NEW b \in Baselines, NEW s,
           IF Score(t, b) = 0
           THEN /\ stage' = [stage EXCEPT ![t] = "recent"]
                /\ UNCHANGED <<hand, score, cluster>>
           ELSE /\ score' = [score EXCEPT ![t] = Score(t, b)]
                /\ entries' = s
                /\ lastFire' = IF Clusters(s) THEN now ELSE lastFire
                /\ stage' = [stage EXCEPT ![t] = IF Clusters(s) THEN "watch" ELSE "single"]
                /\ hand' = IF Clusters(s)
                           THEN [hand EXCEPT ![t] = Watch(t)]
                           ELSE hand
    PROVE  \E z \in {"recent", "watch", "single"} : Starts(t, z)
<1>1. CASE Score(t, b) = 0
  BY <1>1 DEF cluster, Critical, Starts
<1>2. Score(t, b) \in 0 .. Critical
  BY RuleFacts DEF Score, Info, Critical
<1>3. CASE Score(t, b) # 0 /\ Clusters(s)
  BY <1>2, <1>3 DEF Starts
<1>4. CASE Score(t, b) # 0 /\ ~Clusters(s)
  BY <1>2, <1>4 DEF Starts
<1>. QED
  BY <1>1, <1>3, <1>4

LEMMA BeginMoves ==
    ASSUME DecisionTypeOK, FindingsOK, NEW t \in Trades, BeginTrade(t)
    PROVE  /\ stage[t] = "stored" /\ hand[t] = Nothing
           /\ UNCHANGED <<now, alerts, sent, opened, full>>
           /\ mishaps' \in Nat
           /\ \E s \in {"done", "recent", "watch", "single"} : Starts(t, s)
           /\ lost \subseteq lost' /\ lost' \subseteq lost \cup {t}
<1>1. stage[t] = "stored" /\ hand[t] = Nothing /\ UNCHANGED <<now, alerts, sent, opened, full>>
  BY DEF BeginTrade, table, DecisionTypeOK, Resting
<1>2. CASE /\ stage' = [stage EXCEPT ![t] = "done"]
           /\ lost' = lost \cup {t} /\ UNCHANGED <<hand, score, cluster, mishaps>>
  BY <1>1, <1>2 DEF DecisionTypeOK, Critical, Starts, cluster
<1>3. CASE /\ Mishap /\ stage' = [stage EXCEPT ![t] = "recent"]
           /\ lost' = lost \cup {t} /\ UNCHANGED <<hand, score, cluster>>
  BY <1>1, <1>3 DEF Critical, Starts, cluster, Mishap, DecisionTypeOK
<1>4. CASE /\ UNCHANGED <<lost, mishaps>>
           /\ \E z \in {"recent", "watch", "single"} : Starts(t, z)
  BY <1>1, <1>4 DEF DecisionTypeOK
<1>. QED
  BY <1>1, <1>2, <1>3, <1>4, ScoreStarts DEF BeginTrade

LEMMA SurfaceDecided ==
    ASSUME Decided, NEW t \in Trades, Single(t) \/ RecentLine(t) \/ Owner(t) \/ LifetimeLine(t)
    PROVE  Decided'
<1>1. PICK key, sev, usd, filtered : Composes(t, key, sev, usd, filtered)
  BY SurfacesCompose
<1>. DEFINE f == Finding(t, key, sev, usd)
<1>2. DecisionTypeOK /\ FindingsOK /\ TableOK
  BY DEF Decided
<1>3. /\ UNCHANGED <<now, score, alerts, sent, full>>
      /\ \/ stage' = [stage EXCEPT ![t] = After[stage[t]]] /\ hand' = hand
         \/ stage' = stage /\ hand' = [hand EXCEPT ![t] = f]
      /\ lost' \subseteq lost \cup {t} /\ opened' \subseteq opened \cup {t}
      /\ mishaps' \in Nat /\ lastFire' = lastFire
  BY <1>1, <1>2, OfferMoves
<1>4. GoodFinding(f, t)
  BY <1>1, ComposedIsGood
<1>5. stage[t] \in {"single", "recent", "owner", "lifetime"} /\ hand[t] = Nothing
  BY <1>1 DEF Composes
<1>. HIDE DEF f
<1>6. DOMAIN hand' = Trades
  BY <1>2, <1>3 DEF FindingsOK
<1>7. FindingsOK' /\ \A u \in Trades : hand'[u] # Nothing => stage'[u] \notin Resting /\ hand'[u].by = u
  <2>1. CASE stage' = [stage EXCEPT ![t] = After[stage[t]]] /\ hand' = hand
    <3>1. FindingsOK'
      BY <1>2, <1>5, <1>6, <2>1, OneHand DEF DecisionTypeOK
    <3>2. \A u \in Trades : hand'[u] # Nothing => u # t
      BY <1>5, <2>1
    <3>. QED
      BY <1>2, <2>1, <3>1, <3>2 DEF DecisionTypeOK
  <2>2. CASE stage' = stage /\ hand' = [hand EXCEPT ![t] = f]
    <3>0. hand'[t] = f
      BY <1>2, <2>2 DEF FindingsOK
    <3>1. \A u \in Trades : u # t => stage'[u] = stage[u] /\ hand'[u] = hand[u]
      BY <1>2, <2>2 DEF FindingsOK
    <3>2. hand'[t] # Nothing => stage'[t] \notin Resting /\ GoodFinding(hand[t], t)'
      BY <1>4, <1>5, <2>2, <3>0 DEF GoodFinding, SingleKey, Resting
    <3>3. FindingsOK'
      BY <1>2, <1>6, <3>1, <3>2, OneHand
    <3>4. f.by = t
      BY <1>4 DEF GoodFinding
    <3>. QED
      BY <1>2, <3>0, <3>1, <3>2, <3>3, <3>4 DEF DecisionTypeOK
  <2>. QED
    BY <1>3, <2>1, <2>2
<1>8. stage' \in [Trades -> Resting \cup DOMAIN After]
  BY <1>2, <1>3, <1>5 DEF DecisionTypeOK, Resting, After
<1>9. DecisionTypeOK'
  BY <1>2, <1>3, <1>7, <1>8 DEF DecisionTypeOK
<1>10. TableOK'
  BY <1>2, <1>3 DEF TableOK
<1>. QED
  BY <1>7, <1>9, <1>10 DEF Decided

LEMMA BeginDecided ==
    ASSUME Decided, NEW t \in Trades, BeginTrade(t)
    PROVE  Decided'
<1>1. DecisionTypeOK /\ FindingsOK /\ TableOK
  BY DEF Decided
<1>2. /\ stage[t] = "stored" /\ hand[t] = Nothing
      /\ UNCHANGED <<now, alerts, sent, opened, full>> /\ mishaps' \in Nat
      /\ lost' \subseteq lost \cup {t}
  BY <1>1, BeginMoves
<1>3. PICK s \in {"done", "recent", "watch", "single"} : Starts(t, s)
  BY <1>1, BeginMoves
<1>. DEFINE Moved == /\ DOMAIN hand' = Trades
                     /\ \A u \in Trades : u # t => stage'[u] = stage[u] /\ hand'[u] = hand[u]
                     /\ hand'[t] # Nothing => stage'[t] = "watch" /\ hand'[t] = Watch(t)
<1>4. Moved
  <2>1. DOMAIN hand = Trades /\ stage \in [Trades -> Resting \cup DOMAIN After]
    BY <1>1 DEF FindingsOK, DecisionTypeOK
  <2>2. stage' = [stage EXCEPT ![t] = s]
    BY <1>3 DEF Starts
  <2>3. CASE s # "watch"
    <3>1. hand' = hand
      BY <1>3, <2>3 DEF Starts
    <3>. QED
      BY <1>2, <2>1, <2>2, <3>1
  <2>4. CASE s = "watch"
    <3>1. hand' = [hand EXCEPT ![t] = Watch(t)]
      BY <1>3, <2>4 DEF Starts
    <3>. QED
      BY <1>2, <2>1, <2>2, <2>4, <3>1
  <2>. QED
    BY <2>3, <2>4
<1>5. hand'[t] # Nothing => stage'[t] \notin Resting /\ GoodFinding(hand[t], t)'
  <2>. SUFFICES ASSUME hand'[t] # Nothing PROVE stage'[t] \notin Resting /\ GoodFinding(hand[t], t)'
    OBVIOUS
  <2>1. stage'[t] = "watch" /\ hand'[t] = Watch(t)
    BY <1>4
  <2>2. /\ Watch(t) = [key |-> Watch(t).key, sev |-> Watch(t).sev, by |-> t, wallet |-> Watch(t).wallet,
                       usd |-> Watch(t).usd, at |-> 0]
        /\ Watch(t).usd \in Nat /\ Watch(t).key[1] = "cluster"
    BY WatchIsGood
  <2>. QED
    BY <2>1, <2>2 DEF GoodFinding, Resting
<1>6. FindingsOK'
  BY <1>1, <1>4, <1>5, OneHand
<1>7. Watch(t).by = t
  BY DEF Watch, Finding
<1>8. \A u \in Trades : hand'[u] # Nothing => stage'[u] \notin Resting /\ hand'[u].by = u
  BY <1>1, <1>4, <1>5, <1>7 DEF DecisionTypeOK
<1>9. /\ stage' \in [Trades -> Resting \cup DOMAIN After]
       /\ score' \in [Trades -> 0 .. Critical]
       /\ lastFire' \in -1 .. MaxTime
  BY <1>1, <1>3 DEF Starts, DecisionTypeOK, Resting, After
<1>10. DecisionTypeOK'
  BY <1>1, <1>2, <1>8, <1>9 DEF DecisionTypeOK
<1>11. TableOK'
  BY <1>1, <1>2 DEF TableOK
<1>. QED
  BY <1>6, <1>10, <1>11 DEF Decided

\* An insert adds the finding in hand as a row, or nothing.
LEMMA InsertMoves ==
    ASSUME Decided, NEW t \in Trades, Insert(t)
    PROVE  /\ hand[t] # Nothing /\ stage[t] \in DOMAIN After
           /\ hand' = [hand EXCEPT ![t] = Nothing]
           /\ UNCHANGED <<now, score, sent, lastFire, opened, full>> /\ mishaps' \in Nat
           /\ alerts \subseteq alerts' /\ IsFiniteSet(alerts')
           /\ \A r \in alerts' : r \notin alerts =>
                 /\ r = [hand[t] EXCEPT !.at = now]
                 /\ r.key = hand[t].key /\ r.sev = hand[t].sev /\ r.by = t /\ r.wallet = hand[t].wallet
                 /\ r.usd = hand[t].usd
                 /\ \A q \in alerts : q.key # r.key
           /\ \E s \in {After[stage[t]], "owner"} :
                 /\ stage' = [stage EXCEPT ![t] = s]
                 /\ s # After[stage[t]] => stage[t] = "recent"
           /\ \/ lost' = lost /\ \E r \in alerts' : r.key = hand[t].key
              \/ lost' = lost \cup {t} /\ alerts' = alerts
<1>1. DecisionTypeOK /\ FindingsOK /\ TableOK
  BY DEF Decided
<1>2. /\ hand[t] # Nothing /\ hand' = [hand EXCEPT ![t] = Nothing]
      /\ UNCHANGED <<now, score, sent, lastFire, opened, full>>
  BY DEF Insert, cluster
<1>3. stage[t] \in DOMAIN After
  BY <1>1, <1>2 DEF DecisionTypeOK, FindingsOK
<1>. DEFINE new == [hand[t] EXCEPT !.at = now]
<1>4. /\ new.key = hand[t].key /\ new.sev = hand[t].sev /\ new.by = t /\ new.wallet = hand[t].wallet
      /\ new.usd = hand[t].usd
  <2>1. hand[t] = [key |-> hand[t].key, sev |-> hand[t].sev, by |-> t,
                   wallet |-> hand[t].wallet, usd |-> hand[t].usd, at |-> 0]
    BY <1>1, <1>2 DEF FindingsOK
  <2>. QED
    BY <2>1
<1>. HIDE DEF new
<1>5. IsFiniteSet(alerts) /\ IsFiniteSet(alerts \cup {new})
  BY <1>1, FS_AddElement DEF TableOK
<1>. DEFINE taken == \E r \in alerts : r.key = hand[t].key
<1>6. CASE /\ alerts' = IF taken THEN alerts ELSE alerts \cup {new}
           /\ stage' = [stage EXCEPT ![t] = IF @ = "recent" /\ ~taken THEN "owner" ELSE After[@]]
           /\ UNCHANGED <<lost, mishaps>>
  <2>1. CASE taken
    <3>1. alerts' = alerts /\ stage' = [stage EXCEPT ![t] = After[stage[t]]]
          /\ lost' = lost /\ mishaps' \in Nat
      BY <1>1, <1>6, <2>1 DEF DecisionTypeOK
    <3>. QED
      BY <1>2, <1>3, <1>5, <2>1, <3>1
  <2>2. CASE ~taken
    <3>1. alerts' = alerts \cup {new} /\ lost' = lost /\ mishaps' \in Nat
      BY <1>1, <1>6, <2>2 DEF DecisionTypeOK
    <3>2. \A r \in alerts' : r \notin alerts => r = new /\ \A q \in alerts : q.key # new.key
      BY <1>4, <2>2, <3>1
    <3>3. \E r \in alerts' : r.key = hand[t].key
      BY <1>4, <3>1
    <3>4. \E s \in {After[stage[t]], "owner"} :
             /\ stage' = [stage EXCEPT ![t] = s]
             /\ s # After[stage[t]] => stage[t] = "recent"
      BY <1>6, <2>2
    <3>. QED
      BY <1>2, <1>3, <1>4, <1>5, <3>1, <3>2, <3>3, <3>4 DEF new
  <2>. QED
    BY <2>1, <2>2
<1>7. CASE /\ Mishap
           /\ stage' = [stage EXCEPT ![t] = After[@]]
           /\ lost' = lost \cup {t}
           /\ UNCHANGED alerts
  <2>1. mishaps' \in Nat
    BY <1>1, <1>7 DEF Mishap, DecisionTypeOK
  <2>. QED
    BY <1>2, <1>3, <1>5, <1>7, <2>1
<1>. QED
  BY <1>6, <1>7 DEF Insert, new

LEMMA InsertDecided ==
    ASSUME Decided, NEW t \in Trades, Insert(t)
    PROVE  Decided'
<1>1. DecisionTypeOK /\ FindingsOK /\ TableOK
  BY DEF Decided
<1>2. /\ hand[t] # Nothing /\ hand' = [hand EXCEPT ![t] = Nothing] /\ stage[t] \in DOMAIN After
      /\ UNCHANGED <<now, score, sent, lastFire, opened, full>> /\ mishaps' \in Nat
      /\ alerts \subseteq alerts' /\ IsFiniteSet(alerts') /\ lost' \subseteq lost \cup {t}
  BY InsertMoves
<1>3. \A r \in alerts' : r \notin alerts =>
         /\ r = [hand[t] EXCEPT !.at = now]
         /\ r.key = hand[t].key /\ r.sev = hand[t].sev /\ r.by = t /\ r.wallet = hand[t].wallet
         /\ r.usd = hand[t].usd
         /\ \A q \in alerts : q.key # r.key
  BY InsertMoves
<1>4. PICK s \in {After[stage[t]], "owner"} : stage' = [stage EXCEPT ![t] = s]
  BY InsertMoves
<1>5. DOMAIN hand' = Trades /\ hand'[t] = Nothing
      /\ \A u \in Trades : u # t => stage'[u] = stage[u] /\ hand'[u] = hand[u]
  BY <1>1, <1>2, <1>4 DEF FindingsOK, DecisionTypeOK
<1>6. FindingsOK'
  BY <1>1, <1>5, OneHand
<1>7. \A r, q \in alerts' : r.key = q.key => r = q
  <2>1. \A r, q \in alerts : r.key = q.key => r = q
    BY <1>1 DEF DecisionTypeOK
  <2>. QED
    BY <1>3, <2>1
<1>8. sent' \subseteq {r.key : r \in alerts'}
  BY <1>1, <1>2 DEF DecisionTypeOK
<1>9. stage' \in [Trades -> Resting \cup DOMAIN After]
  BY <1>1, <1>2, <1>4 DEF DecisionTypeOK, Resting, After
<1>10. \A u \in Trades : hand'[u] # Nothing => stage'[u] \notin Resting /\ hand'[u].by = u
  BY <1>1, <1>5 DEF DecisionTypeOK
<1>11. DecisionTypeOK'
  BY <1>1, <1>2, <1>7, <1>8, <1>9, <1>10 DEF DecisionTypeOK
<1>12. TableOK'
  <2>1. hand[t].usd \in Nat
        /\ (hand[t].key[1] = "lifetime" => hand[t].key = <<"lifetime", hand[t].wallet, hand[t].sev>>)
    BY <1>1, <1>2 DEF FindingsOK
  <2>. SUFFICES ASSUME NEW r \in alerts'
                PROVE  /\ r.by \in Trades /\ r.usd \in Nat
                       /\ r.key[1] = "lifetime" => r.key = <<"lifetime", r.wallet, r.sev>>
    BY <1>2 DEF TableOK
  <2>2. CASE r \in alerts
    BY <1>1, <2>2 DEF TableOK
  <2>3. CASE r \notin alerts
    <3>1. r.key = hand[t].key /\ r.sev = hand[t].sev /\ r.by = t /\ r.wallet = hand[t].wallet /\ r.usd = hand[t].usd
      BY <1>3, <2>3
    <3>. QED
      BY <2>1, <3>1
  <2>. QED
    BY <2>2, <2>3
<1>. QED
  BY <1>6, <1>11, <1>12 DEF Decided

\* The steps that are no handler's.
LEMMA StoreDecided ==
    ASSUME Decided, NEW t \in Trades, Store(t)
    PROVE  Decided'
<1>1. DecisionTypeOK /\ FindingsOK /\ TableOK
  BY DEF Decided
<1>2. /\ stage[t] = "new" /\ stage' = [stage EXCEPT ![t] = "stored"]
      /\ UNCHANGED <<now, hand, score, alerts, sent, lastFire, lost, opened, full, mishaps>>
  BY DEF Store, table, cluster, decisionHistory
<1>3. hand[t] = Nothing
  BY <1>1, <1>2 DEF FindingsOK, Resting
<1>4. FindingsOK'
  BY <1>1, <1>2, <1>3, OneHand DEF FindingsOK, DecisionTypeOK
<1>5. DecisionTypeOK'
  <2>1. stage' \in [Trades -> Resting \cup DOMAIN After]
    BY <1>1, <1>2 DEF DecisionTypeOK, Resting
  <2>2. \A u \in Trades : hand'[u] # Nothing => stage'[u] \notin Resting /\ hand'[u].by = u
    BY <1>1, <1>2, <1>3 DEF DecisionTypeOK
  <2>. QED
    BY <1>1, <1>2, <2>1, <2>2 DEF DecisionTypeOK
<1>. QED
  BY <1>1, <1>2, <1>4, <1>5 DEF Decided, TableOK

LEMMA OthersDecided ==
    ASSUME Decided, SecondPasses \/ SenderDrains \/ HandlersDie \/ UNCHANGED decisionVars
    PROVE  Decided'
<1>1. DecisionTypeOK /\ FindingsOK /\ TableOK
  BY DEF Decided
<1>2. CASE SecondPasses
  <2>1. now' \in 0 .. MaxTime
        /\ UNCHANGED <<stage, hand, score, alerts, sent, lastFire, lost, opened, full, mishaps>>
    BY <1>1, <1>2, RuleFacts DEF SecondPasses, handlers, table, cluster, decisionHistory, DecisionTypeOK
  <2>. QED
    BY <1>1, <2>1 DEF Decided, DecisionTypeOK, FindingsOK, TableOK, SingleKey
<1>3. CASE SenderDrains
  <2>1. sent' = {r.key : r \in alerts}
        /\ UNCHANGED <<now, stage, hand, score, alerts, lastFire, lost, opened, mishaps>>
    BY <1>3 DEF SenderDrains, handlers, cluster
  <2>. QED
    BY <1>1, <2>1 DEF Decided, DecisionTypeOK, FindingsOK, TableOK, SingleKey
<1>4. CASE HandlersDie
  <2>1. /\ stage' = [u \in Trades |-> IF stage[u] \in Resting THEN stage[u] ELSE "stored"]
        /\ hand' = [u \in Trades |-> Nothing]
        /\ score' = [u \in Trades |-> IF stage[u] \in Resting THEN score[u] ELSE 0]
        /\ lastFire' = -1 /\ mishaps' \in Nat
        /\ UNCHANGED <<now, alerts, sent, lost, opened, full>>
    BY <1>1, <1>4 DEF HandlersDie, Mishap, table, decisionHistory, DecisionTypeOK
  <2>2. stage' \in [Trades -> Resting \cup DOMAIN After] /\ score' \in [Trades -> 0 .. Critical]
    BY <1>1, <2>1 DEF DecisionTypeOK, Resting, Critical
  <2>3. DecisionTypeOK'
    BY <1>1, <2>1, <2>2, RuleFacts DEF DecisionTypeOK
  <2>4. FindingsOK'
    BY <2>1 DEF FindingsOK
  <2>. QED
    BY <1>1, <2>1, <2>3, <2>4 DEF Decided, TableOK
<1>5. CASE UNCHANGED decisionVars
  BY <1>1, <1>5 DEF decisionVars, handlers, table, cluster, decisionHistory,
                    Decided, DecisionTypeOK, FindingsOK, TableOK, SingleKey
<1>. QED
  BY <1>2, <1>3, <1>4, <1>5

LEMMA DecidedStep == Decided /\ [DecisionNext]_decisionVars => Decided'
BY SurfaceDecided, BeginDecided, InsertDecided, StoreDecided, OthersDecided DEF DecisionNext, Observe

\* A row's key is unique, what is sent is a row, a finding in hand belongs to the
\* handler that composed it and the stages are those of the code, for any number
\* of trades, wallets and faults and whatever the rules' thresholds.
THEOREM DecisionTypes == DecisionSpec => []Decided
BY DecidedInit, DecidedStep, PTL DEF DecisionSpec

-----------------------------------------------------------------------------
(* A trade that fired is told or kept back for a reason *)

KeptBack(t) ==
    \/ \E r \in alerts : r.key = SingleKey(t)
    \/ Wallet[t] \in Makers
    \/ score[t] = Info /\ \/ \E r \in alerts : r.key \in sent /\ r.at > At[t] - WalletWindow
                                               /\ r.wallet = Wallet[t] /\ Notional[t] < Factor * r.usd
                          \/ /\ Cardinality({r \in alerts : r.key \in sent /\ r.at > At[t] - EventWindow}) >= Limit
                             /\ \E r \in alerts : r.at > At[t] - EventWindow /\ Notional[t] < Factor * r.usd

\* A trade has no score before its handler scored it; once the handler is past the
\* single trade's surface, the trade has its row, or the reason is there already.
SilenceInv ==
    \A t \in Trades :
        /\ stage[t] \in {"new", "stored"} => score[t] = 0
        /\ stage[t] \in {"recent", "owner", "lifetime", "done"} /\ score[t] # 0 /\ t \notin lost => KeptBack(t)

\* A reason stays: rows stay as they are, and sent ones stay sent.
LEMMA ReasonsStay ==
    ASSUME NEW t \in Trades, KeptBack(t), score'[t] = score[t],
           alerts \subseteq alerts', sent \subseteq sent', IsFiniteSet(alerts')
    PROVE  KeptBack(t)'
<1>1. CASE \E r \in alerts : r.key = SingleKey(t)
  BY <1>1 DEF KeptBack, SingleKey
<1>2. CASE Wallet[t] \in Makers
  BY <1>2 DEF KeptBack
<1>3. CASE score[t] = Info /\ \E r \in alerts : r.key \in sent /\ r.at > At[t] - WalletWindow
                                               /\ r.wallet = Wallet[t] /\ Notional[t] < Factor * r.usd
  BY <1>3 DEF KeptBack
<1>4. CASE /\ score[t] = Info
           /\ Cardinality({r \in alerts : r.key \in sent /\ r.at > At[t] - EventWindow}) >= Limit
           /\ \E r \in alerts : r.at > At[t] - EventWindow /\ Notional[t] < Factor * r.usd
  <2>. DEFINE A == {r \in alerts : r.key \in sent /\ r.at > At[t] - EventWindow}
              B == {r \in alerts' : r.key \in sent' /\ r.at > At[t] - EventWindow}
  <2>1. A \subseteq B /\ B \subseteq alerts'
    OBVIOUS
  <2>2. IsFiniteSet(A) /\ IsFiniteSet(B)
    BY <2>1, FS_Subset
  <2>3. Cardinality(A) <= Cardinality(B) /\ Cardinality(A) \in Nat /\ Cardinality(B) \in Nat
    BY <2>1, <2>2, FS_Subset, FS_CardinalityType
  <2>4. Cardinality(A) >= Limit
    BY <1>4
  <2>. HIDE DEF A, B
  <2>5. Cardinality(B) >= Limit
    BY <2>3, <2>4, RuleFacts
  <2>6. \E r \in alerts' : r.at > At[t] - EventWindow /\ Notional[t] < Factor * r.usd
    BY <1>4
  <2>. QED
    BY <1>4, <2>5, <2>6 DEF KeptBack, B
<1>. QED
  BY <1>1, <1>2, <1>3, <1>4 DEF KeptBack

\* What the gate or the filter kept back has its reason.
LEMMA SkippedForReason ==
    ASSUME NEW t \in Trades, NEW key, NEW sev, NEW usd, NEW filtered,
           Composes(t, key, sev, usd, filtered),
           stage[t] = "single", stage'[t] # "single", score[t] # 0
    PROVE  KeptBack(t)
<1>1. /\ sev = score[t] /\ Offer(t, sev, Finding(t, key, sev, usd), filtered)
  BY DEF Composes
<1>2. (filtered /\ TwoSided(t)) \/ Suppressed(t, sev)
  BY <1>1 DEF Offer
<1>3. CASE TwoSided(t)
  BY <1>3 DEF TwoSided, KeptBack
<1>4. CASE sev = Info /\ Repeats(t)
  BY <1>1, <1>4 DEF Repeats, Recent, KeptBack
<1>5. CASE sev = Info /\ Capped(t)
  <2>1. /\ Cardinality({r \in alerts : r.key \in sent /\ r.at > At[t] - EventWindow}) >= Limit
        /\ \E r \in alerts : r.at > At[t] - EventWindow /\ Notional[t] < Factor * r.usd
    BY <1>5 DEF Capped, Recent
  <2>. QED
    BY <1>1, <1>5, <2>1 DEF KeptBack
<1>. QED
  BY <1>2, <1>3, <1>4, <1>5 DEF Suppressed

\* A handler's step keeps the other trades' reasons.
LEMMA OneScore ==
    ASSUME SilenceInv, NEW t \in Trades,
           \A u \in Trades : u # t => stage'[u] = stage[u] /\ score'[u] = score[u],
           alerts \subseteq alerts', sent \subseteq sent', IsFiniteSet(alerts'), lost \subseteq lost',
           stage'[t] \in {"new", "stored"} => score'[t] = 0,
           stage'[t] \in {"recent", "owner", "lifetime", "done"} /\ score'[t] # 0 /\ t \notin lost' => KeptBack(t)'
    PROVE  SilenceInv'
<1>. SUFFICES ASSUME NEW u \in Trades
              PROVE  /\ stage'[u] \in {"new", "stored"} => score'[u] = 0
                     /\ stage'[u] \in {"recent", "owner", "lifetime", "done"} /\ score'[u] # 0 /\ u \notin lost'
                        => KeptBack(u)'
  BY DEF SilenceInv
<1>1. CASE u = t
  BY <1>1
<1>2. CASE u # t
  <2>1. stage'[u] = stage[u] /\ score'[u] = score[u] /\ (u \notin lost' => u \notin lost)
    BY <1>2
  <2>2. KeptBack(u) => KeptBack(u)'
    BY <2>1, ReasonsStay
  <2>3. /\ stage[u] \in {"new", "stored"} => score[u] = 0
        /\ stage[u] \in {"recent", "owner", "lifetime", "done"} /\ score[u] # 0 /\ u \notin lost => KeptBack(u)
    BY DEF SilenceInv
  <2>. QED
    BY <2>1, <2>2, <2>3
<1>. QED
  BY <1>1, <1>2

LEMMA SurfaceSilence ==
    ASSUME Decided, SilenceInv, NEW t \in Trades,
           Single(t) \/ RecentLine(t) \/ Owner(t) \/ LifetimeLine(t)
    PROVE  SilenceInv'
<1>1. PICK key, sev, usd, filtered : Composes(t, key, sev, usd, filtered)
  BY SurfacesCompose
<1>2. DecisionTypeOK /\ FindingsOK /\ TableOK
  BY DEF Decided
<1>3. /\ UNCHANGED <<score, alerts, sent>> /\ lost \subseteq lost'
      /\ stage' = [stage EXCEPT ![t] = After[stage[t]]] \/ stage' = stage
      /\ IsFiniteSet(alerts')
  BY <1>1, <1>2, OfferMoves DEF TableOK
<1>4. stage[t] \in {"single", "recent", "owner", "lifetime"} /\ stage'[t] \in {stage[t], After[stage[t]]}
      /\ \A u \in Trades : u # t => stage'[u] = stage[u]
  BY <1>1, <1>2, <1>3 DEF Composes, DecisionTypeOK
<1>5. stage'[t] \notin {"new", "stored"}
  BY <1>4 DEF After
<1>6. ASSUME stage'[t] \in {"recent", "owner", "lifetime", "done"}, score'[t] # 0, t \notin lost'
      PROVE  KeptBack(t)'
  <2>1. score'[t] = score[t] /\ t \notin lost
    BY <1>3, <1>6
  <2>2. KeptBack(t)
    <3>1. CASE stage[t] = "single"
      BY <1>1, <1>6, <2>1, <3>1, SkippedForReason
    <3>2. CASE stage[t] # "single"
      BY <1>4, <1>6, <2>1, <3>2 DEF SilenceInv
    <3>. QED
      BY <3>1, <3>2
  <2>. QED
    BY <1>3, <2>1, <2>2, ReasonsStay
<1>7. alerts \subseteq alerts' /\ sent \subseteq sent' /\ \A u \in Trades : score'[u] = score[u]
  BY <1>3
<1>. QED
  BY <1>3, <1>4, <1>5, <1>6, <1>7, OneScore

LEMMA BeginSilence ==
    ASSUME Decided, SilenceInv, NEW t \in Trades, BeginTrade(t)
    PROVE  SilenceInv'
<1>1. DecisionTypeOK /\ FindingsOK /\ TableOK
  BY DEF Decided
<1>2. /\ stage[t] = "stored" /\ UNCHANGED <<alerts, sent>> /\ lost \subseteq lost'
      /\ IsFiniteSet(alerts')
  BY <1>1, BeginMoves DEF TableOK
<1>3. PICK s \in {"done", "recent", "watch", "single"} : Starts(t, s)
  BY <1>1, BeginMoves
<1>4. score[t] = 0
  BY <1>2 DEF SilenceInv
<1>5. stage'[t] = s /\ \A u \in Trades : u # t => stage'[u] = stage[u] /\ score'[u] = score[u]
  BY <1>1, <1>3 DEF Starts, DecisionTypeOK
<1>6. s \in {"done", "recent"} => score'[t] = 0
  BY <1>3, <1>4 DEF Starts
<1>7. alerts \subseteq alerts' /\ sent \subseteq sent'
  BY <1>2
<1>. QED
  BY <1>2, <1>5, <1>6, <1>7, OneScore

LEMMA InsertSilence ==
    ASSUME Decided, SilenceInv, NEW t \in Trades, Insert(t)
    PROVE  SilenceInv'
<1>1. DecisionTypeOK /\ FindingsOK /\ TableOK
  BY DEF Decided
<1>2. /\ hand[t] # Nothing /\ stage[t] \in DOMAIN After /\ UNCHANGED <<score, sent>>
      /\ alerts \subseteq alerts' /\ IsFiniteSet(alerts')
      /\ \/ lost' = lost /\ \E r \in alerts' : r.key = hand[t].key
         \/ lost' = lost \cup {t} /\ alerts' = alerts
  BY InsertMoves
<1>3. PICK s \in {After[stage[t]], "owner"} : /\ stage' = [stage EXCEPT ![t] = s]
                                              /\ s # After[stage[t]] => stage[t] = "recent"
  BY InsertMoves
<1>4. stage'[t] = s /\ \A u \in Trades : u # t => stage'[u] = stage[u] /\ score'[u] = score[u]
  BY <1>1, <1>2, <1>3 DEF DecisionTypeOK
<1>5. stage'[t] \notin {"new", "stored"}
  BY <1>2, <1>4 DEF After
<1>6. ASSUME stage'[t] \in {"recent", "owner", "lifetime", "done"}, score'[t] # 0, t \notin lost'
      PROVE  KeptBack(t)'
  <2>1. score'[t] = score[t] /\ t \notin lost /\ \E r \in alerts' : r.key = hand[t].key
    BY <1>2, <1>6
  <2>2. CASE stage[t] = "single"
    <3>1. hand[t].key = SingleKey(t)
      BY <1>1, <1>2, <2>2 DEF FindingsOK
    <3>. QED
      BY <2>1, <3>1 DEF KeptBack, SingleKey
  <2>3. CASE stage[t] = "watch"
    BY <1>3, <1>4, <1>6, <2>3 DEF After
  <2>4. CASE stage[t] \notin {"single", "watch"}
    <3>1. stage[t] \in {"recent", "owner", "lifetime"}
      BY <1>2, <2>4 DEF After
    <3>2. KeptBack(t)
      BY <1>6, <2>1, <3>1 DEF SilenceInv
    <3>. QED
      BY <1>2, <2>1, <3>2, ReasonsStay
  <2>. QED
    BY <2>2, <2>3, <2>4
<1>7. sent \subseteq sent' /\ lost \subseteq lost'
  BY <1>2
<1>. QED
  BY <1>2, <1>4, <1>5, <1>6, <1>7, OneScore

LEMMA OthersSilence ==
    ASSUME Decided, SilenceInv,
           (\E t \in Trades : Store(t)) \/ SecondPasses \/ SenderDrains \/ HandlersDie \/ UNCHANGED decisionVars
    PROVE  SilenceInv'
<1>1. DecisionTypeOK /\ FindingsOK /\ TableOK
  BY DEF Decided
<1>2. alerts' = alerts /\ sent \subseteq sent' /\ lost' = lost /\ IsFiniteSet(alerts')
  BY <1>1 DEF Store, SecondPasses, SenderDrains, HandlersDie, decisionVars, table, decisionHistory,
              DecisionTypeOK, TableOK
<1>3. \A t \in Trades : score'[t] = score[t] /\ KeptBack(t) => KeptBack(t)'
  BY <1>2, ReasonsStay
<1>4. \A t \in Trades : \/ stage'[t] = stage[t] /\ score'[t] = score[t]
                        \/ stage'[t] = "stored" /\ score'[t] = 0
  <2>1. CASE \E t \in Trades : Store(t)
    BY <1>1, <2>1 DEF Store, SilenceInv, DecisionTypeOK
  <2>2. CASE SecondPasses \/ SenderDrains \/ UNCHANGED decisionVars
    BY <2>2 DEF SecondPasses, SenderDrains, decisionVars, handlers
  <2>3. CASE HandlersDie
    BY <2>3 DEF HandlersDie
  <2>. QED
    BY <2>1, <2>2, <2>3
<1>. QED
  BY <1>2, <1>3, <1>4 DEF SilenceInv

LEMMA SilenceInit == DecisionInit => SilenceInv
BY DEF DecisionInit, SilenceInv

LEMMA SilenceStep == Decided /\ SilenceInv /\ [DecisionNext]_decisionVars => SilenceInv'
BY SurfaceSilence, BeginSilence, InsertSilence, OthersSilence DEF DecisionNext, Observe

\* A trade that fired and was not told was kept back for a reason that is still in
\* the database, for any number of trades and handlers and any limits of the gate.
THEOREM SilenceIsExplained == DecisionSpec => []SilenceHasCause
<1>1. SilenceInv => SilenceHasCause
  BY DEF SilenceInv, SilenceHasCause, KeptBack
<1>. QED
  BY <1>1, DecidedInit, DecidedStep, SilenceInit, SilenceStep, PTL DEF DecisionSpec

-----------------------------------------------------------------------------
(* A line that stands is told *)

Whole(w) == Line(w, 0)
Stands(w) == Highest({x \in Tiers : Passes(Whole(w), x)})

\* A row, or a finding in hand, that tells the wallet's lifetime line at its tier.
Tells(f, w) ==
    /\ f.key[1] = "lifetime" /\ f.wallet = w
    /\ f.sev = Stands(w) \/ (Stands(w) = Critical /\ f.sev = Hard)

\* A handler that has the wallet's lifetime line still to read, or has read all of
\* it and is about to insert what it tells.
WillRead(t) == \/ stage[t] \in {"stored", "watch", "single", "recent", "owner"}
               \/ stage[t] = "lifetime" /\ hand[t] = Nothing
Carries(t) == stage[t] = "lifetime" /\ hand[t] # Nothing /\ Tells(hand[t], Wallet[t])

Matters(w) == Whole(w) \cap lost = {} /\ w \notin Makers /\ Stands(w) >= Warning

LineInv ==
    \A t \in Stored :
        Matters(Wallet[t]) =>
            \/ \E r \in alerts : Tells(r, Wallet[t])
            \/ \E u \in Whole(Wallet[t]) : WillRead(u) \/ Carries(u)

LEMMA WholeIs == \A w : Whole(w) = {t \in Stored : Wallet[t] = w}
BY TradesAssumption DEF Whole, Line, Stored

\* As long as the same trades are stored, the lines are the same.
LEMMA SameLines ==
    ASSUME Stored' = Stored
    PROVE  \A w : Whole(w)' = Whole(w) /\ Stands(w)' = Stands(w)
<1>1. \A w : Whole(w)' = Whole(w)
  BY WholeIs DEF Whole, Line
<1>2. ASSUME NEW w PROVE Stands(w)' = Stands(w)
  <2>1. Whole(w)' = Whole(w)
    BY <1>1
  <2>. QED
    BY <2>1 DEF Stands
<1>. QED
  BY <1>1, <1>2

\* A step that stores no trade keeps LineInv when every handler that was to tell a
\* line that matters still is, told it, or failed.
LEMMA LineKept ==
    ASSUME LineInv, Stored' = Stored, lost \subseteq lost', alerts \subseteq alerts',
           \A u \in Stored :
              Matters(Wallet[u]) /\ u \notin lost' /\ (WillRead(u) \/ Carries(u)) =>
                 WillRead(u)' \/ Carries(u)' \/ \E r \in alerts' : Tells(r, Wallet[u])'
    PROVE  LineInv'
<1>1. \A w : Whole(w)' = Whole(w) /\ Stands(w)' = Stands(w)
  BY SameLines
<1>. SUFFICES ASSUME NEW t \in Stored, Matters(Wallet[t])'
              PROVE  \/ \E r \in alerts' : Tells(r, Wallet[t])'
                     \/ \E u \in Whole(Wallet[t])' : WillRead(u)' \/ Carries(u)'
  BY DEF LineInv
<1>2. Matters(Wallet[t]) /\ Whole(Wallet[t]) \cap lost' = {}
  BY <1>1 DEF Matters
<1>3. CASE \E r \in alerts : Tells(r, Wallet[t])
  BY <1>1, <1>3 DEF Tells
<1>4. ASSUME NEW u \in Whole(Wallet[t]), WillRead(u) \/ Carries(u)
      PROVE  \/ \E r \in alerts' : Tells(r, Wallet[t])'
             \/ WillRead(u)' \/ Carries(u)'
  <2>1. u \in Stored /\ Wallet[u] = Wallet[t] /\ u \notin lost'
    BY <1>2, <1>4, WholeIs
  <2>. QED
    BY <1>2, <1>4, <2>1
<1>. QED
  BY <1>1, <1>2, <1>3, <1>4 DEF LineInv

\* So does a handler's step that keeps or tells its own line.
LEMMA OneLine ==
    ASSUME LineInv, NEW t \in Trades, stage[t] # "new", stage'[t] # "new",
           \A u \in Trades : u # t => stage'[u] = stage[u] /\ hand'[u] = hand[u],
           lost \subseteq lost', alerts \subseteq alerts',
           Matters(Wallet[t]) /\ t \notin lost' /\ (WillRead(t) \/ Carries(t)) =>
              WillRead(t)' \/ Carries(t)' \/ \E r \in alerts' : Tells(r, Wallet[t])'
    PROVE  LineInv'
<1>1. Stored' = Stored
  BY DEF Stored
<1>2. \A w : Stands(w)' = Stands(w)
  BY <1>1, SameLines
<1>3. ASSUME NEW u \in Stored, u # t, WillRead(u) \/ Carries(u)
      PROVE  WillRead(u)' \/ Carries(u)'
  <2>1. stage'[u] = stage[u] /\ hand'[u] = hand[u]
    BY <1>3 DEF Stored
  <2>2. Stands(Wallet[u])' = Stands(Wallet[u])
    BY <1>2
  <2>3. WillRead(u) => WillRead(u)'
    BY <2>1 DEF WillRead
  <2>4. Carries(u) => Carries(u)'
    BY <2>1, <2>2 DEF Carries, Tells
  <2>. QED
    BY <1>3, <2>3, <2>4
<1>4. \A u \in Stored :
         Matters(Wallet[u]) /\ u \notin lost' /\ (WillRead(u) \/ Carries(u)) =>
            WillRead(u)' \/ Carries(u)' \/ \E r \in alerts' : Tells(r, Wallet[u])'
  BY <1>3
<1>. QED
  BY <1>1, <1>4, LineKept

\* The lifetime line a handler reads is judged at the tier it stands at.
LEMMA ReadsWhatStands ==
    ASSUME NEW t \in Stored
    PROVE  LET sev == LineTier(Line(Wallet[t], 0), t) IN
              sev = Stands(Wallet[t]) \/ (Stands(Wallet[t]) = Critical /\ sev = Hard)
<1>1. Line(Wallet[t], 0) # {}
  BY WholeIs DEF Whole
<1>. QED
  BY <1>1 DEF LineTier, Stands, Whole

LEMMA SurfaceLine ==
    ASSUME Decided, LineInv, NEW t \in Trades,
           Single(t) \/ RecentLine(t) \/ Owner(t) \/ LifetimeLine(t)
    PROVE  LineInv'
<1>1. PICK key, sev, usd, filtered : Composes(t, key, sev, usd, filtered)
  BY SurfacesCompose
<1>. DEFINE f == Finding(t, key, sev, usd)
<1>2. DecisionTypeOK /\ FindingsOK /\ TableOK
  BY DEF Decided
<1>3. /\ alerts' = alerts /\ lost \subseteq lost'
      /\ \/ stage' = [stage EXCEPT ![t] = After[stage[t]]] /\ hand' = hand
         \/ stage' = stage /\ hand' = [hand EXCEPT ![t] = f]
  BY <1>1, <1>2, OfferMoves
<1>4. stage[t] \in {"single", "recent", "owner", "lifetime"} /\ hand[t] = Nothing
  BY <1>1 DEF Composes
<1>5. /\ \/ stage'[t] = After[stage[t]] /\ hand'[t] = Nothing
         \/ stage'[t] = stage[t] /\ hand'[t] = f
      /\ \A u \in Trades : u # t => stage'[u] = stage[u] /\ hand'[u] = hand[u]
  <2>1. DOMAIN hand = Trades /\ stage \in [Trades -> Resting \cup DOMAIN After]
    BY <1>2 DEF FindingsOK, DecisionTypeOK
  <2>. HIDE DEF f
  <2>. QED
    BY <1>3, <1>4, <2>1
<1>6. f.key = key /\ f.wallet = Wallet[t] /\ f.sev = sev
  BY DEF Finding
<1>7. ASSUME Matters(Wallet[t]), t \notin lost'
      PROVE  WillRead(t)' \/ Carries(t)'
  <2>1. CASE stage[t] \in {"single", "recent", "owner"}
    BY <1>5, <2>1 DEF WillRead, After
  <2>2. CASE stage[t] = "lifetime"
    <3>1. t \in Stored /\ Stored' = Stored
      BY <1>4, <1>5 DEF Stored, After
    <3>2. /\ key = <<"lifetime", Wallet[t], sev>> /\ sev = LineTier(Line(Wallet[t], 0), t)
          /\ Offer(t, sev, f, filtered) \/ Unread(t)
      BY <1>1, <2>2 DEF Composes, LifetimeKey
    <3>3. sev = Stands(Wallet[t]) \/ (Stands(Wallet[t]) = Critical /\ sev = Hard)
      BY <3>1, <3>2, ReadsWhatStands
    <3>4. sev # 0 /\ ~Suppressed(t, sev) /\ ~TwoSided(t)
      BY <1>7, <3>3 DEF Matters, Suppressed, TwoSided, Info, Warning, Critical, Hard
    <3>5. stage' = stage /\ hand' = [hand EXCEPT ![t] = f]
      <4>. HIDE DEF f
      <4>1. ~Unread(t)
        BY <1>7 DEF Unread
      <4>. QED
        BY <3>2, <3>4, <4>1 DEF Offer
    <3>6. stage'[t] = "lifetime" /\ hand'[t] = f
      BY <1>2, <2>2, <3>5 DEF FindingsOK
    <3>7. Stands(Wallet[t])' = Stands(Wallet[t])
      BY <3>1, SameLines
    <3>8. key[1] = "lifetime"
      BY <3>2
    <3>9. f.key[1] = "lifetime" /\ f.wallet = Wallet[t]
          /\ (f.sev = Stands(Wallet[t])' \/ (Stands(Wallet[t])' = Critical /\ f.sev = Hard))
      BY <1>6, <3>3, <3>7, <3>8
    <3>. HIDE DEF f
    <3>10. Tells(hand[t], Wallet[t])'
      BY <3>6, <3>9 DEF Tells
    <3>. QED
      BY <3>6, <3>10 DEF WillRead, Carries
  <2>. QED
    BY <1>4, <2>1, <2>2
<1>8. stage[t] # "new" /\ stage'[t] # "new" /\ alerts \subseteq alerts'
  BY <1>3, <1>4, <1>5 DEF After
<1>. QED
  BY <1>3, <1>5, <1>7, <1>8, OneLine

LEMMA BeginLine ==
    ASSUME Decided, LineInv, NEW t \in Trades, BeginTrade(t)
    PROVE  LineInv'
<1>1. DecisionTypeOK /\ FindingsOK /\ TableOK
  BY DEF Decided
<1>2. /\ stage[t] = "stored" /\ hand[t] = Nothing /\ alerts' = alerts /\ lost \subseteq lost'
  BY <1>1, BeginMoves
<1>3. PICK s \in {"done", "recent", "watch", "single"} : Starts(t, s)
  BY <1>1, BeginMoves
<1>4. stage'[t] = s /\ \A u \in Trades : u # t => stage'[u] = stage[u] /\ hand'[u] = hand[u]
  <2>1. DOMAIN hand = Trades /\ stage \in [Trades -> Resting \cup DOMAIN After]
    BY <1>1 DEF FindingsOK, DecisionTypeOK
  <2>2. stage' = [stage EXCEPT ![t] = s]
        /\ (hand' = hand \/ hand' = [hand EXCEPT ![t] = Watch(t)])
    BY <1>3 DEF Starts
  <2>. QED
    BY <2>1, <2>2
<1>5. t \notin lost' => WillRead(t)'
  BY <1>3, <1>4 DEF Starts, WillRead
<1>6. stage[t] # "new" /\ stage'[t] # "new" /\ alerts \subseteq alerts'
  BY <1>2, <1>3, <1>4
<1>. QED
  BY <1>2, <1>4, <1>5, <1>6, OneLine

LEMMA InsertLine ==
    ASSUME Decided, LineInv, NEW t \in Trades, Insert(t)
    PROVE  LineInv'
<1>1. DecisionTypeOK /\ FindingsOK /\ TableOK /\ TableOK'
  BY InsertDecided DEF Decided
<1>2. /\ hand[t] # Nothing /\ stage[t] \in DOMAIN After
      /\ hand' = [hand EXCEPT ![t] = Nothing] /\ alerts \subseteq alerts'
      /\ \/ lost' = lost /\ \E r \in alerts' : r.key = hand[t].key
         \/ lost' = lost \cup {t} /\ alerts' = alerts
  BY InsertMoves
<1>3. PICK s \in {After[stage[t]], "owner"} : /\ stage' = [stage EXCEPT ![t] = s]
                                              /\ s # After[stage[t]] => stage[t] = "recent"
  BY InsertMoves
<1>4. stage'[t] = s /\ hand'[t] = Nothing
      /\ \A u \in Trades : u # t => stage'[u] = stage[u] /\ hand'[u] = hand[u]
  BY <1>1, <1>2, <1>3 DEF FindingsOK, DecisionTypeOK
<1>5. stage[t] # "new" /\ stage'[t] # "new"
  BY <1>2, <1>4 DEF After
<1>6. ASSUME t \notin lost', WillRead(t) \/ Carries(t)
      PROVE  WillRead(t)' \/ \E r \in alerts' : Tells(r, Wallet[t])'
  <2>1. CASE stage[t] # "lifetime"
    BY <1>2, <1>3, <1>4, <2>1 DEF WillRead, After
  <2>2. CASE stage[t] = "lifetime"
    <3>1. Tells(hand[t], Wallet[t])
      BY <1>2, <1>6, <2>2 DEF WillRead, Carries
    <3>2. PICK r \in alerts' : r.key = hand[t].key
      BY <1>2, <1>6
    <3>3. hand[t].key = <<"lifetime", hand[t].wallet, hand[t].sev>> /\ hand[t].key[1] = "lifetime"
      BY <1>1, <1>2, <3>1 DEF FindingsOK, Tells
    <3>4. r.key = <<"lifetime", r.wallet, r.sev>> /\ r.key[1] = "lifetime"
      BY <1>1, <3>2, <3>3 DEF TableOK
    <3>5. r.wallet = hand[t].wallet /\ r.sev = hand[t].sev
      <4>1. <<"lifetime", r.wallet, r.sev>> = <<"lifetime", hand[t].wallet, hand[t].sev>>
        BY <3>2, <3>3, <3>4
      <4>. QED
        BY <4>1
    <3>6. Stored' = Stored
      BY <1>4, <1>5 DEF Stored
    <3>7. Stands(Wallet[t])' = Stands(Wallet[t])
      BY <3>6, SameLines
    <3>8. Tells(r, Wallet[t])'
      BY <3>1, <3>4, <3>5, <3>7 DEF Tells
    <3>. QED
      BY <3>8
  <2>. QED
    BY <2>1, <2>2
<1>7. lost \subseteq lost'
  BY <1>2
<1>. QED
  BY <1>2, <1>4, <1>5, <1>6, <1>7, OneLine

\* A trade that is stored has its wallet's line still to read.
LEMMA StoreLine ==
    ASSUME Decided, LineInv, NEW t \in Trades, Store(t)
    PROVE  LineInv'
<1>1. /\ stage[t] = "new" /\ stage' = [stage EXCEPT ![t] = "stored"]
      /\ UNCHANGED <<hand, alerts, lost>> /\ stage \in [Trades -> Resting \cup DOMAIN After]
  BY DEF Store, table, decisionHistory, Decided, DecisionTypeOK
<1>2. stage'[t] = "stored" /\ \A u \in Trades : u # t => stage'[u] = stage[u]
  BY <1>1
<1>3. Stored' = Stored \cup {t}
  BY <1>2 DEF Stored
<1>. SUFFICES ASSUME NEW v \in Stored', Matters(Wallet[v])'
              PROVE  \/ \E r \in alerts' : Tells(r, Wallet[v])'
                     \/ \E u \in Whole(Wallet[v])' : WillRead(u)' \/ Carries(u)'
  BY DEF LineInv
<1>4. CASE Wallet[v] = Wallet[t]
  <2>1. t \in Whole(Wallet[v])'
    BY <1>2, <1>4, TradesAssumption DEF Whole, Line, Stored
  <2>2. WillRead(t)'
    BY <1>2 DEF WillRead
  <2>. QED
    BY <2>1, <2>2
<1>5. CASE Wallet[v] # Wallet[t]
  <2>1. Whole(Wallet[v])' = Whole(Wallet[v])
    BY <1>3, <1>5 DEF Whole, Line
  <2>2. Stands(Wallet[v])' = Stands(Wallet[v])
    BY <2>1 DEF Stands
  <2>3. v \in Stored /\ Matters(Wallet[v])
    BY <1>1, <1>3, <1>5, <2>1, <2>2 DEF Matters
  <2>4. ASSUME NEW u \in Whole(Wallet[v]), WillRead(u) \/ Carries(u)
        PROVE  WillRead(u)' \/ Carries(u)'
    <3>1. u \in Trades /\ u # t /\ Wallet[u] = Wallet[v]
      BY <1>5, <2>4 DEF Whole, Line, Stored
    <3>2. stage'[u] = stage[u] /\ hand'[u] = hand[u]
      BY <1>1, <1>2, <3>1
    <3>3. Stands(Wallet[u])' = Stands(Wallet[u])
      BY <2>2, <3>1
    <3>4. WillRead(u) => WillRead(u)'
      BY <3>2 DEF WillRead
    <3>5. Carries(u) => Carries(u)'
      BY <3>2, <3>3 DEF Carries, Tells
    <3>. QED
      BY <2>4, <3>4, <3>5
  <2>5. \A r \in alerts : Tells(r, Wallet[v]) => Tells(r, Wallet[v])'
    BY <2>2 DEF Tells
  <2>. QED
    BY <1>1, <2>1, <2>3, <2>4, <2>5 DEF LineInv
<1>. QED
  BY <1>4, <1>5

LEMMA OthersLine ==
    ASSUME Decided, LineInv, SecondPasses \/ SenderDrains \/ HandlersDie \/ UNCHANGED decisionVars
    PROVE  LineInv'
<1>1. alerts' = alerts /\ lost' = lost
  BY DEF SecondPasses, SenderDrains, HandlersDie, decisionVars, table, decisionHistory
<1>2. CASE SecondPasses \/ SenderDrains \/ UNCHANGED decisionVars
  <2>1. stage' = stage /\ hand' = hand
    BY <1>2 DEF SecondPasses, SenderDrains, decisionVars, handlers
  <2>2. Stored' = Stored
    BY <2>1 DEF Stored
  <2>3. \A w : Stands(w)' = Stands(w)
    BY <2>2, SameLines
  <2>4. ASSUME NEW u \in Stored, WillRead(u) \/ Carries(u)
        PROVE  WillRead(u)' \/ Carries(u)'
    <3>1. WillRead(u) => WillRead(u)'
      BY <2>1 DEF WillRead
    <3>2. Carries(u) => Carries(u)'
      BY <2>1, <2>3 DEF Carries, Tells
    <3>. QED
      BY <2>4, <3>1, <3>2
  <2>. QED
    BY <1>1, <2>2, <2>4, LineKept
<1>3. CASE HandlersDie
  <2>1. stage' = [u \in Trades |-> IF stage[u] \in Resting THEN stage[u] ELSE "stored"]
    BY <1>3 DEF HandlersDie
  <2>2. Stored' = Stored
    BY <2>1 DEF Stored, Resting
  <2>3. ASSUME NEW u \in Stored, WillRead(u) \/ Carries(u)
        PROVE  WillRead(u)'
    BY <2>1, <2>3 DEF WillRead, Carries, Stored, Resting
  <2>. QED
    BY <1>1, <2>2, <2>3, LineKept
<1>. QED
  BY <1>2, <1>3

LEMMA LineInit == DecisionInit => LineInv
BY DEF DecisionInit, LineInv, Stored

LEMMA LineStep == Decided /\ LineInv /\ [DecisionNext]_decisionVars => LineInv'
BY SurfaceLine, BeginLine, InsertLine, StoreLine, OthersLine DEF DecisionNext, Observe

\* A wallet's line that stands at warning or above has been told at its tier when
\* no handler runs, for any number of trades stored and handled in any order, any
\* tier ladder and any crashes; a line is passed over only by a failed statement.
THEOREM LinesAreTold == DecisionSpec => []LineIsTold
<1>1. LineInv => LineIsTold
  <2>. SUFFICES ASSUME LineInv, \A t \in Trades : stage[t] \in {"new", "done"},
                       NEW t \in Stored, Matters(Wallet[t])
                PROVE  \E r \in alerts : Tells(r, Wallet[t])
    BY DEF LineIsTold, Matters, Stands, Whole, Tells
  <2>1. \A u \in Trades : ~WillRead(u) /\ ~Carries(u)
    BY DEF WillRead, Carries
  <2>2. Whole(Wallet[t]) \subseteq Trades
    BY DEF Whole, Line, Stored
  <2>. QED
    BY <2>1, <2>2 DEF LineInv
<1>. QED
  BY <1>1, DecidedInit, DecidedStep, LineInit, LineStep, PTL DEF DecisionSpec

-----------------------------------------------------------------------------
(* Past the event's cap *)

\* A row or a finding of an info alert that was not past the gate when the cap was
\* reached is of a trade larger by the factor than the alerts of then.
Outgrows(f) ==
    f.sev = Info /\ f.key \notin full.ahead /\ f.by \notin opened
    /\ (\A x \in full.rows : x.at > At[f.by] - EventWindow)
    => \A x \in full.rows : Notional[f.by] >= Factor * x.usd

CapInv ==
    full # Nothing =>
        /\ full.rows \subseteq alerts /\ \A x \in full.rows : x.key \in sent
        /\ Cardinality(full.rows) >= Limit
        /\ \A r \in alerts : Outgrows(r)
        /\ \A t \in Trades : hand[t] # Nothing => Outgrows(hand[t])

\* When the event's window holds the alerts of the full cap, the gate lets an info
\* alert pass only if its trade is larger by the factor than each of them.
LEMMA GateHolds ==
    ASSUME TableOK, CapInv, full # Nothing, NEW t \in Trades, ~Suppressed(t, Info),
           \A x \in full.rows : x.at > At[t] - EventWindow
    PROVE  \A x \in full.rows : Notional[t] >= Factor * x.usd
<1>. DEFINE prior == {r \in alerts : r.key \in sent /\ r.at > At[t] - EventWindow}
<1>1. full.rows \subseteq prior /\ prior \subseteq alerts
  BY DEF CapInv
<1>2. IsFiniteSet(prior) /\ IsFiniteSet(full.rows)
  BY <1>1, FS_Subset DEF TableOK
<1>3. Cardinality(full.rows) <= Cardinality(prior)
      /\ Cardinality(full.rows) \in Nat /\ Cardinality(prior) \in Nat
  BY <1>1, <1>2, FS_Subset, FS_CardinalityType
<1>4. Cardinality(full.rows) >= Limit
  BY DEF CapInv
<1>5. Cardinality(prior) >= Limit
  <2>. HIDE DEF prior
  <2>. QED
    BY <1>3, <1>4, RuleFacts
<1>6. \A r \in prior : ~(Notional[t] < Factor * r.usd)
  BY <1>5 DEF Suppressed, Capped, Recent
<1>. SUFFICES ASSUME NEW x \in full.rows PROVE Notional[t] >= Factor * x.usd
  OBVIOUS
<1>7. ~(Notional[t] < Factor * x.usd) /\ x.usd \in Nat /\ Notional[t] \in Nat /\ Factor \in Nat
  BY <1>1, <1>6, RuleFacts DEF TableOK
<1>8. Factor * x.usd \in Nat
  BY <1>7
<1>. QED
  BY <1>7, <1>8

\* A handler's step that keeps the cap's rows and whose new row or finding, if any,
\* respects the cap, keeps CapInv.
LEMMA OneOutgrows ==
    ASSUME CapInv, NEW t \in Trades, full' = full, sent' = sent,
           alerts \subseteq alerts', opened \subseteq opened',
           \A u \in Trades : u # t => hand'[u] = hand[u],
           full # Nothing => /\ \A r \in alerts' : r \notin alerts => Outgrows(r)'
                             /\ hand'[t] # Nothing => Outgrows(hand[t])'
    PROVE  CapInv'
<1>. SUFFICES ASSUME full # Nothing PROVE CapInv'
  BY DEF CapInv
<1>1. /\ full.rows \subseteq alerts /\ \A x \in full.rows : x.key \in sent
      /\ Cardinality(full.rows) >= Limit
      /\ \A r \in alerts : Outgrows(r)
      /\ \A u \in Trades : hand[u] # Nothing => Outgrows(hand[u])
  BY DEF CapInv
<1>2. \A r \in alerts : Outgrows(r)'
  BY <1>1 DEF Outgrows
<1>3. ASSUME NEW u \in Trades, u # t, hand'[u] # Nothing
      PROVE  Outgrows(hand[u])'
  <2>1. hand'[u] = hand[u] /\ Outgrows(hand[u])
    BY <1>1, <1>3
  <2>. QED
    BY <2>1 DEF Outgrows
<1>. QED
  BY <1>1, <1>2, <1>3 DEF CapInv

LEMMA SurfaceCap ==
    ASSUME Decided, CapInv, NEW t \in Trades,
           Single(t) \/ RecentLine(t) \/ Owner(t) \/ LifetimeLine(t)
    PROVE  CapInv'
<1>1. PICK key, sev, usd, filtered : Composes(t, key, sev, usd, filtered)
  BY SurfacesCompose
<1>. DEFINE f == Finding(t, key, sev, usd)
<1>2. DecisionTypeOK /\ FindingsOK /\ TableOK
  BY DEF Decided
<1>3. /\ UNCHANGED <<alerts, sent, full>> /\ opened \subseteq opened'
      /\ \/ hand' = hand
         \/ hand' = [hand EXCEPT ![t] = f]
      /\ hand[t] = Nothing /\ DOMAIN hand = Trades
  <2>1. hand[t] = Nothing /\ DOMAIN hand = Trades
    BY <1>1, <1>2 DEF Composes, FindingsOK
  <2>2. UNCHANGED <<alerts, sent, full>> /\ opened \subseteq opened'
        /\ (hand' = hand \/ hand' = [hand EXCEPT ![t] = f])
    BY <1>1, <1>2, OfferMoves
  <2>. QED
    BY <2>1, <2>2
<1>4. f.sev = sev /\ f.by = t
  BY DEF Finding
<1>. HIDE DEF f
<1>5. \A u \in Trades : u # t => hand'[u] = hand[u]
  BY <1>3
<1>6. ASSUME full # Nothing, hand'[t] # Nothing
      PROVE  Outgrows(hand[t])'
  <2>1. hand' = [hand EXCEPT ![t] = f] /\ hand'[t] = f
    BY <1>3, <1>6
  <2>2. Offer(t, sev, f, filtered) /\ hand' # hand
    BY <1>1, <1>3, <1>6 DEF Composes, Unread, f
  <2>3. ~Suppressed(t, sev) \/ t \in opened'
    BY <2>2 DEF Offer
  <2>4. ASSUME sev = Info, t \notin opened', \A x \in full.rows : x.at > At[t] - EventWindow
        PROVE  \A x \in full.rows : Notional[t] >= Factor * x.usd
    BY <1>2, <1>6, <2>3, <2>4, GateHolds
  <2>. QED
    BY <1>3, <1>4, <2>1, <2>4 DEF Outgrows
<1>. QED
  BY <1>3, <1>5, <1>6, OneOutgrows

LEMMA BeginCap ==
    ASSUME Decided, CapInv, NEW t \in Trades, BeginTrade(t)
    PROVE  CapInv'
<1>1. DecisionTypeOK /\ FindingsOK
  BY DEF Decided
<1>2. UNCHANGED <<alerts, sent, opened, full>> /\ hand[t] = Nothing /\ DOMAIN hand = Trades
  BY <1>1, BeginMoves DEF FindingsOK
<1>3. PICK s \in {"done", "recent", "watch", "single"} : Starts(t, s)
  BY <1>1, BeginMoves
<1>4. hand' = hand \/ hand' = [hand EXCEPT ![t] = Watch(t)]
  BY <1>3 DEF Starts
<1>5. \A u \in Trades : u # t => hand'[u] = hand[u]
  BY <1>2, <1>4
<1>6. hand'[t] # Nothing => hand'[t] = Watch(t)
  BY <1>2, <1>4
<1>7. Watch(t).sev # Info
  BY WatchIsGood DEF Hard, Info
<1>8. hand'[t] # Nothing => Outgrows(hand[t])'
  BY <1>6, <1>7 DEF Outgrows
<1>. QED
  BY <1>2, <1>5, <1>8, OneOutgrows

LEMMA InsertCap ==
    ASSUME Decided, CapInv, NEW t \in Trades, Insert(t)
    PROVE  CapInv'
<1>1. FindingsOK /\ hand[t] # Nothing /\ hand' = [hand EXCEPT ![t] = Nothing]
      /\ UNCHANGED <<sent, opened, full>> /\ alerts \subseteq alerts'
  BY InsertMoves DEF Decided
<1>2. \A r \in alerts' : r \notin alerts =>
         r.key = hand[t].key /\ r.sev = hand[t].sev /\ r.by = t
  BY InsertMoves
<1>3. hand[t].by = t
  BY <1>1 DEF Decided, DecisionTypeOK
<1>4. ASSUME full # Nothing, NEW r \in alerts', r \notin alerts
      PROVE  Outgrows(r)'
  <2>1. Outgrows(hand[t])
    BY <1>1, <1>4 DEF CapInv
  <2>2. r.key = hand[t].key /\ r.sev = hand[t].sev /\ r.by = hand[t].by
    BY <1>2, <1>3, <1>4
  <2>. QED
    BY <1>1, <2>1, <2>2 DEF Outgrows
<1>5. hand'[t] = Nothing /\ \A u \in Trades : u # t => hand'[u] = hand[u]
  BY <1>1 DEF FindingsOK
<1>. QED
  BY <1>1, <1>4, <1>5, OneOutgrows

\* The drain that reaches the cap finds every row, and every finding in hand, ahead
\* of it.
LEMMA DrainCap ==
    ASSUME Decided, CapInv, SenderDrains
    PROVE  CapInv'
<1>. DEFINE keys == {r.key : r \in alerts}
<1>1. DecisionTypeOK /\ TableOK
  BY DEF Decided
<1>2. /\ sent' = keys /\ UNCHANGED <<hand, alerts, opened>>
      /\ full' = IF full = Nothing /\ Cardinality(keys) >= Limit
                 THEN [rows |-> alerts, ahead |-> keys \cup InFlight]
                 ELSE full
  BY DEF SenderDrains, handlers
<1>3. CASE full = Nothing /\ Cardinality(keys) >= Limit
  <2>1. full'.rows = alerts /\ full'.ahead = keys \cup InFlight
    BY <1>2, <1>3
  <2>2. Cardinality(alerts) >= Limit
    <3>. DEFINE k == [r \in alerts |-> r.key]
    <3>1. k \in Surjection(alerts, keys)
      BY DEF Surjection
    <3>2. IsFiniteSet(alerts) /\ IsFiniteSet(keys) /\ Cardinality(keys) <= Cardinality(alerts)
      <4>. HIDE DEF k, keys
      <4>. QED
        BY <1>1, <3>1, FS_Surjection DEF TableOK
    <3>3. Cardinality(alerts) \in Nat /\ Cardinality(keys) \in Nat
      <4>. HIDE DEF keys
      <4>. QED
        BY <3>2, FS_CardinalityType
    <3>. HIDE DEF keys
    <3>. QED
      BY <1>3, <3>2, <3>3, RuleFacts
  <2>3. \A r \in alerts' : Outgrows(r)'
    BY <1>2, <2>1 DEF Outgrows
  <2>4. \A t \in Trades : hand'[t] # Nothing => hand[t].key \in full'.ahead
    BY <1>2, <2>1 DEF InFlight
  <2>5. \A t \in Trades : hand'[t] # Nothing => Outgrows(hand[t])'
    BY <1>2, <2>4 DEF Outgrows
  <2>6. full'.rows \subseteq alerts' /\ \A x \in full'.rows : x.key \in sent'
    BY <1>2, <2>1
  <2>. QED
    BY <2>1, <2>2, <2>3, <2>5, <2>6 DEF CapInv
<1>4. CASE ~(full = Nothing /\ Cardinality(keys) >= Limit)
  <2>1. full' = full /\ sent \subseteq sent'
    BY <1>1, <1>2, <1>4 DEF DecisionTypeOK
  <2>. QED
    BY <1>2, <2>1 DEF CapInv, Outgrows
<1>. QED
  BY <1>3, <1>4

LEMMA OthersCap ==
    ASSUME Decided, CapInv,
           (\E t \in Trades : Store(t)) \/ SecondPasses \/ HandlersDie \/ UNCHANGED decisionVars
    PROVE  CapInv'
<1>1. UNCHANGED <<alerts, sent, opened, full>>
  BY DEF Store, SecondPasses, HandlersDie, decisionVars, table, decisionHistory
<1>2. hand' = hand \/ \A t \in Trades : hand'[t] = Nothing
  BY DEF Store, SecondPasses, HandlersDie, decisionVars, handlers
<1>. QED
  BY <1>1, <1>2 DEF CapInv, Outgrows

LEMMA CapInit == DecisionInit => CapInv
BY DEF DecisionInit, CapInv

LEMMA CapStep == Decided /\ CapInv /\ [DecisionNext]_decisionVars => CapInv'
BY SurfaceCap, BeginCap, InsertCap, DrainCap, OthersCap DEF DecisionNext, Observe

\* Once an event's cap is reached, only an alert that was past the gate by then, one
\* the gate could not judge, or one of a trade larger by the factor still becomes a
\* row, for any limit, factor and window and any number of handlers.
THEOREM CapIsKept == DecisionSpec => []OverCapWasInFlight
<1>1. CapInv => OverCapWasInFlight
  BY DEF CapInv, OverCapWasInFlight, Outgrows
<1>. QED
  BY <1>1, DecidedInit, DecidedStep, CapInit, CapStep, PTL DEF DecisionSpec
=============================================================================
