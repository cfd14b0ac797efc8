----------------------- MODULE DetectionQueueProofs -----------------------
(***************************************************************************)
(* What DetectionQueue guarantees for any number of trades, processes and  *)
(* goroutines, any claim limit, lease and lag, and any number of faults.   *)
(***************************************************************************)
EXTENDS DetectionQueue, TLAPS

ConstantAssumption == /\ Trades \subseteq Nat /\ None \notin Trades
                      /\ MarketOf \in [Trades -> Markets]
                      /\ KeyOf \in [Trades -> Keys]
                      /\ ProcOf \in [Threads -> Procs]
                      /\ ClaimLimit \in Nat \ {0} /\ ClaimTTL \in Nat
                      /\ MaxLag \in Nat /\ Faults \in Nat /\ Slow \in Nat

LEMMA ConstantFacts == ConstantAssumption
BY TradesAssumption, MapsAssumption, LimitsAssumption DEF ConstantAssumption

-----------------------------------------------------------------------------
(* Type correctness *)

LEMMA TypeInit == DetectionInit => DetectionOK
BY ConstantFacts DEF DetectionInit, DetectionOK, RowsOK, ProcsOK, ThreadsOK, HistoryOK, Unclaimed, ConstantAssumption

\* A goroutine that lets go of its row keeps its variables well-typed.
LEMMA ReleaseType ==
    ASSUME ThreadsOK, NEW g \in Threads, Release(g),
           pc[g] \notin {"done", "claim", "loop"}
    PROVE  ThreadsOK'
<1>1. cur[g] \in batch[g] /\ batch[g] \subseteq Trades
  BY DEF ThreadsOK
<1>2. /\ pc' \in [Threads -> {"done", "claim", "loop", "unknown", "observe", "insert", "stamp", "failed"}]
      /\ batch' \in [Threads -> SUBSET Trades]
      /\ late' \in [Threads -> SUBSET Trades]
      /\ cur' \in [Threads -> Trades \cup {None}]
  BY <1>1 DEF Release, ThreadsOK
<1>3. ASSUME NEW h \in Threads, pc'[h] \notin {"done", "claim", "loop"}
      PROVE  cur'[h] \in batch'[h]
  BY <1>3 DEF Release, ThreadsOK
<1>. QED
  BY <1>2, <1>3 DEF ThreadsOK

LEMMA RowsNext ==
    ASSUME DetectionOK, [DetectionNext]_detectionVars
    PROVE  RowsOK'
<1>1. ASSUME NEW t \in Trades, NEW age \in 0 .. MaxLag + 1, Arrive(t, age)
      PROVE  RowsOK'
  BY <1>1, ConstantFacts DEF ConstantAssumption, Arrive, DetectionOK, RowsOK, ThreadsOK, Unclaimed
<1>2. ASSUME NEW p \in Procs, StartTick(p)
      PROVE  RowsOK'
  BY <1>2, ConstantFacts DEF ConstantAssumption, StartTick, DetectionOK, RowsOK, ThreadsOK, Unclaimed
<1>3. ASSUME NEW p \in Procs, EndTick(p)
      PROVE  RowsOK'
  BY <1>3, ConstantFacts DEF ConstantAssumption, EndTick, DetectionOK, RowsOK, ThreadsOK, Unclaimed, row
<1>4. ASSUME NEW p \in Procs, Start(p)
      PROVE  RowsOK'
  BY <1>4, ConstantFacts DEF ConstantAssumption, Start, DetectionOK, RowsOK, ThreadsOK, Unclaimed, row
<1>5. ASSUME NEW p \in Procs, Stop(p)
      PROVE  RowsOK'
  BY <1>5, ConstantFacts DEF ConstantAssumption, Stop, DetectionOK, RowsOK, ThreadsOK, Unclaimed, row
<1>6. ASSUME NEW p \in Procs, Crash(p)
      PROVE  RowsOK'
  BY <1>6, ConstantFacts DEF ConstantAssumption, Crash, DetectionOK, RowsOK, ThreadsOK, Unclaimed, row
<1>7. ASSUME NEW p \in Procs, NEW S \in SUBSET Markets, Sweep(p, S)
      PROVE  RowsOK'
  BY <1>7, ConstantFacts DEF ConstantAssumption, Sweep, DetectionOK, RowsOK, ThreadsOK, Unclaimed, row
<1>8. ASSUME NEW g \in Threads, Claim(g)
      PROVE  RowsOK'
  BY <1>8, ConstantFacts DEF ConstantAssumption, Claim, DetectionOK, RowsOK, ThreadsOK, Unclaimed, Newest, Claimable, Expired
<1>9. ASSUME NEW g \in Threads, ClaimNothing(g)
      PROVE  RowsOK'
  BY <1>9, ConstantFacts DEF ConstantAssumption, ClaimNothing, DetectionOK, RowsOK, ThreadsOK, Unclaimed, row
<1>10. ASSUME NEW g \in Threads, NextBatch(g)
      PROVE  RowsOK'
  BY <1>10, ConstantFacts DEF ConstantAssumption, NextBatch, DetectionOK, RowsOK, ThreadsOK, Unclaimed, row
<1>11. ASSUME NEW g \in Threads, NEW t \in Trades, Take(g, t)
      PROVE  RowsOK'
  BY <1>11, ConstantFacts DEF ConstantAssumption, Take, DetectionOK, RowsOK, ThreadsOK, Unclaimed, row
<1>12. ASSUME NEW g \in Threads, Observe(g)
      PROVE  RowsOK'
  BY <1>12, ConstantFacts DEF ConstantAssumption, Observe, DetectionOK, RowsOK, ThreadsOK, Unclaimed, row
<1>13. ASSUME NEW g \in Threads, Insert(g)
      PROVE  RowsOK'
  BY <1>13, ConstantFacts DEF ConstantAssumption, Insert, DetectionOK, RowsOK, ThreadsOK, Unclaimed, row
<1>14. ASSUME NEW g \in Threads, Stamp(g)
      PROVE  RowsOK'
  BY <1>14, ConstantFacts DEF ConstantAssumption, Stamp, DetectionOK, RowsOK, ThreadsOK, Unclaimed, Mark, Verdict, Final
<1>15. ASSUME NEW g \in Threads, StampLost(g)
      PROVE  RowsOK'
  BY <1>15, ConstantFacts DEF ConstantAssumption, StampLost, DetectionOK, RowsOK, ThreadsOK, Unclaimed, row
<1>16. CASE Clock
  BY <1>16, ConstantFacts DEF ConstantAssumption, Clock, DetectionOK, RowsOK, ThreadsOK, Unclaimed, Leased, Aging
<1>17. CASE UNCHANGED detectionVars
  BY <1>17 DEF detectionVars, row, thread, seen, proc, DetectionOK, RowsOK, ThreadsOK, Unclaimed
<1>. QED
  BY <1>1, <1>2, <1>3, <1>4, <1>5, <1>6, <1>7, <1>8, <1>9, <1>10, <1>11, <1>12, <1>13, <1>14, <1>15, <1>16, <1>17 DEF DetectionNext, Run, Work

LEMMA ProcsNext ==
    ASSUME DetectionOK, [DetectionNext]_detectionVars
    PROVE  ProcsOK'
<1>1. ASSUME NEW t \in Trades, NEW age \in 0 .. MaxLag + 1, Arrive(t, age)
      PROVE  ProcsOK'
  BY <1>1, ConstantFacts DEF ConstantAssumption, Arrive, DetectionOK, ProcsOK, proc
<1>2. ASSUME NEW p \in Procs, StartTick(p)
      PROVE  ProcsOK'
  BY <1>2, ConstantFacts DEF ConstantAssumption, StartTick, DetectionOK, ProcsOK
<1>3. ASSUME NEW p \in Procs, EndTick(p)
      PROVE  ProcsOK'
  BY <1>3, ConstantFacts DEF ConstantAssumption, EndTick, DetectionOK, ProcsOK
<1>4. ASSUME NEW p \in Procs, Start(p)
      PROVE  ProcsOK'
  BY <1>4, ConstantFacts DEF ConstantAssumption, Start, DetectionOK, ProcsOK
<1>5. ASSUME NEW p \in Procs, Stop(p)
      PROVE  ProcsOK'
  BY <1>5, ConstantFacts DEF ConstantAssumption, Stop, DetectionOK, ProcsOK
<1>6. ASSUME NEW p \in Procs, Crash(p)
      PROVE  ProcsOK'
  BY <1>6, ConstantFacts DEF ConstantAssumption, Crash, DetectionOK, ProcsOK
<1>7. ASSUME NEW p \in Procs, NEW S \in SUBSET Markets, Sweep(p, S)
      PROVE  ProcsOK'
  BY <1>7, ConstantFacts DEF ConstantAssumption, Sweep, DetectionOK, ProcsOK
<1>8. ASSUME NEW g \in Threads, Claim(g)
      PROVE  ProcsOK'
  BY <1>8, ConstantFacts DEF ConstantAssumption, Claim, DetectionOK, ProcsOK, proc
<1>9. ASSUME NEW g \in Threads, ClaimNothing(g)
      PROVE  ProcsOK'
  BY <1>9, ConstantFacts DEF ConstantAssumption, ClaimNothing, DetectionOK, ProcsOK, proc
<1>10. ASSUME NEW g \in Threads, NextBatch(g)
      PROVE  ProcsOK'
  BY <1>10, ConstantFacts DEF ConstantAssumption, NextBatch, DetectionOK, ProcsOK, proc
<1>11. ASSUME NEW g \in Threads, NEW t \in Trades, Take(g, t)
      PROVE  ProcsOK'
  BY <1>11, ConstantFacts DEF ConstantAssumption, Take, DetectionOK, ProcsOK, proc
<1>12. ASSUME NEW g \in Threads, Observe(g)
      PROVE  ProcsOK'
  BY <1>12, ConstantFacts DEF ConstantAssumption, Observe, DetectionOK, ProcsOK, proc
<1>13. ASSUME NEW g \in Threads, Insert(g)
      PROVE  ProcsOK'
  BY <1>13, ConstantFacts DEF ConstantAssumption, Insert, DetectionOK, ProcsOK, proc
<1>14. ASSUME NEW g \in Threads, Stamp(g)
      PROVE  ProcsOK'
  BY <1>14, ConstantFacts DEF ConstantAssumption, Stamp, DetectionOK, ProcsOK, proc
<1>15. ASSUME NEW g \in Threads, StampLost(g)
      PROVE  ProcsOK'
  BY <1>15, ConstantFacts DEF ConstantAssumption, StampLost, DetectionOK, ProcsOK, proc
<1>16. CASE Clock
  BY <1>16, ConstantFacts DEF ConstantAssumption, Clock, DetectionOK, ProcsOK, proc
<1>17. CASE UNCHANGED detectionVars
  BY <1>17 DEF detectionVars, row, thread, seen, proc, DetectionOK, ProcsOK
<1>. QED
  BY <1>1, <1>2, <1>3, <1>4, <1>5, <1>6, <1>7, <1>8, <1>9, <1>10, <1>11, <1>12, <1>13, <1>14, <1>15, <1>16, <1>17 DEF DetectionNext, Run, Work

LEMMA ThreadsNext ==
    ASSUME DetectionOK, [DetectionNext]_detectionVars
    PROVE  ThreadsOK'
<1>1. ASSUME NEW t \in Trades, NEW age \in 0 .. MaxLag + 1, Arrive(t, age)
      PROVE  ThreadsOK'
  BY <1>1, ConstantFacts DEF ConstantAssumption, Arrive, DetectionOK, ThreadsOK, thread
<1>2. ASSUME NEW p \in Procs, StartTick(p)
      PROVE  ThreadsOK'
  BY <1>2, ConstantFacts DEF ConstantAssumption, StartTick, DetectionOK, ThreadsOK
<1>3. ASSUME NEW p \in Procs, EndTick(p)
      PROVE  ThreadsOK'
  BY <1>3, ConstantFacts DEF ConstantAssumption, EndTick, DetectionOK, ThreadsOK, thread
<1>4. ASSUME NEW p \in Procs, Start(p)
      PROVE  ThreadsOK'
  BY <1>4, ConstantFacts DEF ConstantAssumption, Start, DetectionOK, ThreadsOK, thread
<1>5. ASSUME NEW p \in Procs, Stop(p)
      PROVE  ThreadsOK'
  BY <1>5, ConstantFacts DEF ConstantAssumption, Stop, DetectionOK, ThreadsOK, thread
<1>6. ASSUME NEW p \in Procs, Crash(p)
      PROVE  ThreadsOK'
  BY <1>6, ConstantFacts DEF ConstantAssumption, Crash, DetectionOK, ThreadsOK
<1>7. ASSUME NEW p \in Procs, NEW S \in SUBSET Markets, Sweep(p, S)
      PROVE  ThreadsOK'
  BY <1>7, ConstantFacts DEF ConstantAssumption, Sweep, DetectionOK, ThreadsOK, thread
<1>8. ASSUME NEW g \in Threads, Claim(g)
      PROVE  ThreadsOK'
  <2>1. PICK S \in Newest(ClaimLimit, {t \in Trades : Claimable(t)}) :
            \/ /\ batch' = [batch EXCEPT ![g] = S]
               /\ late' = [late EXCEPT ![g] = TooLate(S)]
               /\ pc' = [pc EXCEPT ![g] = IF S = {} THEN "done" ELSE "loop"]
            \/ pc' = [pc EXCEPT ![g] = "done"] /\ UNCHANGED <<batch, late>>
    BY <1>8 DEF Claim
  <2>2. S \subseteq Trades /\ TooLate(S) \subseteq Trades /\ UNCHANGED cur
    BY <1>8 DEF Newest, TooLate, Claim
  <2>3. /\ batch' \in [Threads -> SUBSET Trades]
        /\ late' \in [Threads -> SUBSET Trades]
        /\ pc' \in [Threads -> {"done", "claim", "loop", "unknown", "observe", "insert", "stamp", "failed"}]
    BY <2>1, <2>2 DEF DetectionOK, ThreadsOK
  <2>4. ASSUME NEW h \in Threads, pc'[h] \notin {"done", "claim", "loop"}
        PROVE  cur'[h] \in batch'[h]
    <3>1. h # g /\ pc'[h] = pc[h] /\ batch'[h] = batch[h]
      BY <2>1, <2>4 DEF DetectionOK, ThreadsOK
    <3>. QED
      BY <2>2, <2>4, <3>1 DEF DetectionOK, ThreadsOK
  <2>. QED
    BY <2>2, <2>3, <2>4 DEF DetectionOK, ThreadsOK
<1>9. ASSUME NEW g \in Threads, ClaimNothing(g)
      PROVE  ThreadsOK'
  BY <1>9, ConstantFacts DEF ConstantAssumption, ClaimNothing, DetectionOK, ThreadsOK
<1>10. ASSUME NEW g \in Threads, NextBatch(g)
      PROVE  ThreadsOK'
  BY <1>10, ConstantFacts DEF ConstantAssumption, NextBatch, DetectionOK, ThreadsOK
<1>11. ASSUME NEW g \in Threads, NEW t \in Trades, Take(g, t)
      PROVE  ThreadsOK'
  BY <1>11, ConstantFacts DEF ConstantAssumption, Take, DetectionOK, ThreadsOK
<1>12. ASSUME NEW g \in Threads, Observe(g)
      PROVE  ThreadsOK'
  BY <1>12, ConstantFacts DEF ConstantAssumption, Observe, DetectionOK, ThreadsOK, Ending, Recovered
<1>13. ASSUME NEW g \in Threads, Insert(g)
      PROVE  ThreadsOK'
  BY <1>13, ConstantFacts DEF ConstantAssumption, Insert, DetectionOK, ThreadsOK, Ending, Recovered
<1>14. ASSUME NEW g \in Threads, Stamp(g)
      PROVE  ThreadsOK'
  BY <1>14, ReleaseType DEF Stamp, DetectionOK
<1>15. ASSUME NEW g \in Threads, StampLost(g)
      PROVE  ThreadsOK'
  BY <1>15, ReleaseType DEF StampLost, DetectionOK
<1>16. CASE Clock
  BY <1>16, ConstantFacts DEF ConstantAssumption, Clock, DetectionOK, ThreadsOK, thread
<1>17. CASE UNCHANGED detectionVars
  BY <1>17 DEF detectionVars, row, thread, seen, proc, DetectionOK, ThreadsOK
<1>. QED
  BY <1>1, <1>2, <1>3, <1>4, <1>5, <1>6, <1>7, <1>8, <1>9, <1>10, <1>11, <1>12, <1>13, <1>14, <1>15, <1>16, <1>17 DEF DetectionNext, Run, Work

LEMMA HistoryNext ==
    ASSUME DetectionOK, [DetectionNext]_detectionVars
    PROVE  HistoryOK'
<1>1. ASSUME NEW t \in Trades, NEW age \in 0 .. MaxLag + 1, Arrive(t, age)
      PROVE  HistoryOK'
  BY <1>1, ConstantFacts DEF ConstantAssumption, Arrive, DetectionOK, HistoryOK, ThreadsOK, seen
<1>2. ASSUME NEW p \in Procs, StartTick(p)
      PROVE  HistoryOK'
  BY <1>2, ConstantFacts DEF ConstantAssumption, StartTick, DetectionOK, HistoryOK, ThreadsOK, Overrun, Mishap
<1>3. ASSUME NEW p \in Procs, EndTick(p)
      PROVE  HistoryOK'
  BY <1>3, ConstantFacts DEF ConstantAssumption, EndTick, DetectionOK, HistoryOK, ThreadsOK, seen
<1>4. ASSUME NEW p \in Procs, Start(p)
      PROVE  HistoryOK'
  BY <1>4, ConstantFacts DEF ConstantAssumption, Start, DetectionOK, HistoryOK, ThreadsOK, seen
<1>5. ASSUME NEW p \in Procs, Stop(p)
      PROVE  HistoryOK'
  BY <1>5, ConstantFacts DEF ConstantAssumption, Stop, DetectionOK, HistoryOK, ThreadsOK, seen, Mishap
<1>6. ASSUME NEW p \in Procs, Crash(p)
      PROVE  HistoryOK'
  <2>1. \A h \in Threads : SeenOnly(h) \subseteq Trades
    BY DEF SeenOnly, DetectionOK, ThreadsOK
  <2>2. lostStamps' \subseteq Trades
    BY <1>6, <2>1 DEF Crash, Mine, DetectionOK, HistoryOK
  <2>3. faultsLeft' \in Nat
    BY <1>6 DEF Crash, Mishap, DetectionOK, HistoryOK
  <2>. QED
    BY <1>6, <2>2, <2>3 DEF Crash, DetectionOK, HistoryOK
<1>7. ASSUME NEW p \in Procs, NEW S \in SUBSET Markets, Sweep(p, S)
      PROVE  HistoryOK'
  BY <1>7, ConstantFacts DEF ConstantAssumption, Sweep, DetectionOK, HistoryOK, ThreadsOK, seen
<1>8. ASSUME NEW g \in Threads, Claim(g)
      PROVE  HistoryOK'
  <2>1. overrun' \subseteq Trades /\ slow' \in Nat
    BY <1>8 DEF Claim, Overrun, Newest, DetectionOK, HistoryOK
  <2>2. faultsLeft' \in Nat
    BY <1>8 DEF Claim, Mishap, DetectionOK, HistoryOK
  <2>. QED
    BY <1>8, <2>1, <2>2 DEF Claim, DetectionOK, HistoryOK
<1>9. ASSUME NEW g \in Threads, ClaimNothing(g)
      PROVE  HistoryOK'
  BY <1>9, ConstantFacts DEF ConstantAssumption, ClaimNothing, DetectionOK, HistoryOK, ThreadsOK, seen, Mishap, Cut
<1>10. ASSUME NEW g \in Threads, NextBatch(g)
      PROVE  HistoryOK'
  BY <1>10, ConstantFacts DEF ConstantAssumption, NextBatch, DetectionOK, HistoryOK, ThreadsOK, seen
<1>11. ASSUME NEW g \in Threads, NEW t \in Trades, Take(g, t)
      PROVE  HistoryOK'
  BY <1>11, ConstantFacts DEF ConstantAssumption, Take, DetectionOK, HistoryOK, ThreadsOK, seen
<1>12. ASSUME NEW g \in Threads, Observe(g)
      PROVE  HistoryOK'
  <2>1. PICK t \in Trades : t = cur[g]
    BY <1>12 DEF Observe, DetectionOK, ThreadsOK
  <2>2. looks' = [looks EXCEPT ![t] = looks[t] + 1]
    BY <1>12, <2>1 DEF Observe
  <2>3. looks' \in [Trades -> Nat]
    BY <2>2 DEF DetectionOK, HistoryOK
  <2>4. gated' \subseteq Trades /\ wanted' \subseteq Trades
    BY <1>12, <2>1 DEF Observe, DetectionOK, HistoryOK
  <2>. QED
    BY <1>12, <2>3, <2>4 DEF Observe, DetectionOK, HistoryOK
<1>13. ASSUME NEW g \in Threads, Insert(g)
      PROVE  HistoryOK'
  <2>1. unstored' \subseteq Trades
    BY <1>13 DEF Insert, DetectionOK, HistoryOK, ThreadsOK
  <2>2. faultsLeft' \in Nat
    BY <1>13 DEF Insert, Mishap, DetectionOK, HistoryOK
  <2>. QED
    BY <1>13, <2>1, <2>2 DEF Insert, DetectionOK, HistoryOK
<1>14. ASSUME NEW g \in Threads, Stamp(g)
      PROVE  HistoryOK'
  BY <1>14, ConstantFacts DEF ConstantAssumption, Stamp, DetectionOK, HistoryOK, ThreadsOK, seen
<1>15. ASSUME NEW g \in Threads, StampLost(g)
      PROVE  HistoryOK'
  <2>1. lostStamps' \subseteq Trades
    BY <1>15 DEF StampLost, SeenOnly, DetectionOK, HistoryOK, ThreadsOK
  <2>2. faultsLeft' \in Nat
    BY <1>15 DEF StampLost, Cut, Mishap, DetectionOK, HistoryOK
  <2>. QED
    BY <1>15, <2>1, <2>2 DEF StampLost, DetectionOK, HistoryOK
<1>16. CASE Clock
  BY <1>16, ConstantFacts DEF ConstantAssumption, Clock, DetectionOK, HistoryOK, ThreadsOK, seen
<1>17. CASE UNCHANGED detectionVars
  BY <1>17 DEF detectionVars, row, thread, seen, proc, DetectionOK, HistoryOK, ThreadsOK
<1>. QED
  BY <1>1, <1>2, <1>3, <1>4, <1>5, <1>6, <1>7, <1>8, <1>9, <1>10, <1>11, <1>12, <1>13, <1>14, <1>15, <1>16, <1>17 DEF DetectionNext, Run, Work

LEMMA TypeNext == DetectionOK /\ [DetectionNext]_detectionVars => DetectionOK'
BY RowsNext, ProcsNext, ThreadsNext, HistoryNext DEF DetectionOK

\* Columns, processes, goroutines and history stay well-typed, only a pending row
\* has a lease, and a goroutine past the choice of a row works on its own batch.
THEOREM TypeCorrect == DetectionSpec => []DetectionOK
<1>. QED
  BY TypeInit, TypeNext, PTL DEF DetectionSpec

-----------------------------------------------------------------------------
(* The inductive invariant *)

LEMMA RestsEmptyNext ==
    ASSUME DetectionOK, RestsEmpty, [DetectionNext]_detectionVars
    PROVE  RestsEmpty'
<1>1. ASSUME NEW t \in Trades, NEW age \in 0 .. MaxLag + 1, Arrive(t, age)
      PROVE  RestsEmpty'
  BY <1>1, ConstantFacts DEF ConstantAssumption, Arrive, DetectionOK, ProcsOK, ThreadsOK, RestsEmpty, thread, proc
<1>2. ASSUME NEW p \in Procs, StartTick(p)
      PROVE  RestsEmpty'
  BY <1>2, ConstantFacts DEF ConstantAssumption, StartTick, DetectionOK, ProcsOK, ThreadsOK, RestsEmpty
<1>3. ASSUME NEW p \in Procs, EndTick(p)
      PROVE  RestsEmpty'
  BY <1>3, ConstantFacts DEF ConstantAssumption, EndTick, DetectionOK, ProcsOK, ThreadsOK, RestsEmpty, thread, Mine
<1>4. ASSUME NEW p \in Procs, Start(p)
      PROVE  RestsEmpty'
  BY <1>4, ConstantFacts DEF ConstantAssumption, Start, DetectionOK, ProcsOK, ThreadsOK, RestsEmpty, thread
<1>5. ASSUME NEW p \in Procs, Stop(p)
      PROVE  RestsEmpty'
  BY <1>5, ConstantFacts DEF ConstantAssumption, Stop, DetectionOK, ProcsOK, ThreadsOK, RestsEmpty, thread
<1>6. ASSUME NEW p \in Procs, Crash(p)
      PROVE  RestsEmpty'
  BY <1>6, ConstantFacts DEF ConstantAssumption, Crash, DetectionOK, ProcsOK, ThreadsOK, RestsEmpty
<1>7. ASSUME NEW p \in Procs, NEW S \in SUBSET Markets, Sweep(p, S)
      PROVE  RestsEmpty'
  BY <1>7, ConstantFacts DEF ConstantAssumption, Sweep, DetectionOK, ProcsOK, ThreadsOK, RestsEmpty, thread
<1>8. ASSUME NEW g \in Threads, Claim(g)
      PROVE  RestsEmpty'
  <2>1. mode' = mode /\ mode[ProcOf[g]] \notin {"idle", "down"} /\ batch[g] = {}
    BY <1>8 DEF Claim, proc, RestsEmpty
  <2>2. \A h \in Threads : h # g => pc'[h] = pc[h] /\ batch'[h] = batch[h]
    BY <1>8 DEF Claim, DetectionOK, ThreadsOK
  <2>3. pc'[g] = "done" => batch'[g] = {}
    BY <1>8, <2>1 DEF Claim, DetectionOK, ThreadsOK
  <2>4. pc'[g] # "claim"
    BY <1>8 DEF Claim, DetectionOK, ThreadsOK
  <2>. QED
    BY <2>1, <2>2, <2>3, <2>4 DEF RestsEmpty
<1>9. ASSUME NEW g \in Threads, ClaimNothing(g)
      PROVE  RestsEmpty'
  BY <1>9, ConstantFacts DEF ConstantAssumption, ClaimNothing, DetectionOK, ProcsOK, ThreadsOK, RestsEmpty, proc
<1>10. ASSUME NEW g \in Threads, NextBatch(g)
      PROVE  RestsEmpty'
  BY <1>10, ConstantFacts DEF ConstantAssumption, NextBatch, DetectionOK, ProcsOK, ThreadsOK, RestsEmpty, proc
<1>11. ASSUME NEW g \in Threads, NEW t \in Trades, Take(g, t)
      PROVE  RestsEmpty'
  BY <1>11, ConstantFacts DEF ConstantAssumption, Take, DetectionOK, ProcsOK, ThreadsOK, RestsEmpty, proc
<1>12. ASSUME NEW g \in Threads, Observe(g)
      PROVE  RestsEmpty'
  BY <1>12, ConstantFacts DEF ConstantAssumption, Observe, DetectionOK, ProcsOK, ThreadsOK, RestsEmpty, proc, Ending, Recovered
<1>13. ASSUME NEW g \in Threads, Insert(g)
      PROVE  RestsEmpty'
  BY <1>13, ConstantFacts DEF ConstantAssumption, Insert, DetectionOK, ProcsOK, ThreadsOK, RestsEmpty, proc, Ending, Recovered
<1>14. ASSUME NEW g \in Threads, Stamp(g)
      PROVE  RestsEmpty'
  BY <1>14, ConstantFacts DEF ConstantAssumption, Stamp, DetectionOK, ProcsOK, ThreadsOK, RestsEmpty, proc, Release
<1>15. ASSUME NEW g \in Threads, StampLost(g)
      PROVE  RestsEmpty'
  BY <1>15, ConstantFacts DEF ConstantAssumption, StampLost, DetectionOK, ProcsOK, ThreadsOK, RestsEmpty, proc, Release
<1>16. CASE Clock
  BY <1>16, ConstantFacts DEF ConstantAssumption, Clock, DetectionOK, ProcsOK, ThreadsOK, RestsEmpty, thread, proc
<1>17. CASE UNCHANGED detectionVars
  BY <1>17 DEF detectionVars, row, thread, seen, proc, DetectionOK, ProcsOK, ThreadsOK, RestsEmpty
<1>. QED
  BY <1>1, <1>2, <1>3, <1>4, <1>5, <1>6, <1>7, <1>8, <1>9, <1>10, <1>11, <1>12, <1>13, <1>14, <1>15, <1>16, <1>17 DEF DetectionNext, Run, Work

LEMMA ExclusiveNext ==
    ASSUME DetectionOK, RestsEmpty, Exclusive, [DetectionNext]_detectionVars
    PROVE  Exclusive'
<1>1. ASSUME NEW t \in Trades, NEW age \in 0 .. MaxLag + 1, Arrive(t, age)
      PROVE  Exclusive'
  BY <1>1, ConstantFacts DEF ConstantAssumption, Arrive, DetectionOK, RowsOK, ThreadsOK, Exclusive, thread, seen
<1>2. ASSUME NEW p \in Procs, StartTick(p)
      PROVE  Exclusive'
  BY <1>2, ConstantFacts DEF ConstantAssumption, StartTick, DetectionOK, RowsOK, ThreadsOK, Exclusive, Overrun, Held, Expired, Unclaimed
<1>3. ASSUME NEW p \in Procs, EndTick(p)
      PROVE  Exclusive'
  BY <1>3, ConstantFacts DEF ConstantAssumption, EndTick, DetectionOK, RowsOK, ThreadsOK, Exclusive, row, thread, seen
<1>4. ASSUME NEW p \in Procs, Start(p)
      PROVE  Exclusive'
  BY <1>4, ConstantFacts DEF ConstantAssumption, Start, DetectionOK, RowsOK, ThreadsOK, Exclusive, row, thread, seen
<1>5. ASSUME NEW p \in Procs, Stop(p)
      PROVE  Exclusive'
  BY <1>5, ConstantFacts DEF ConstantAssumption, Stop, DetectionOK, RowsOK, ThreadsOK, Exclusive, row, thread, seen
<1>6. ASSUME NEW p \in Procs, Crash(p)
      PROVE  Exclusive'
  BY <1>6, ConstantFacts DEF ConstantAssumption, Crash, DetectionOK, RowsOK, ThreadsOK, Exclusive, row
<1>7. ASSUME NEW p \in Procs, NEW S \in SUBSET Markets, Sweep(p, S)
      PROVE  Exclusive'
  BY <1>7, ConstantFacts DEF ConstantAssumption, Sweep, DetectionOK, RowsOK, ThreadsOK, Exclusive, row, thread, seen
<1>8. ASSUME NEW g \in Threads, Claim(g)
      PROVE  Exclusive'
  <2>1. PICK S \in Newest(ClaimLimit, {t \in Trades : Claimable(t)}) :
          /\ lease' = [t \in Trades |-> IF t \in S THEN 0 ELSE lease[t]]
          /\ Overrun(S)
          /\ batch' = [batch EXCEPT ![g] = S] \/ batch' = batch
    BY <1>8 DEF Claim
  <2>2. S \subseteq Trades /\ \A t \in S : verdict[t] = "pending"
    BY DEF Newest, Claimable, Expired, DetectionOK, RowsOK, Unclaimed
  <2>3. UNCHANGED verdict /\ batch[g] = {}
    BY <1>8 DEF Claim, RestsEmpty
  <2>4. overrun \subseteq overrun' /\ \A t \in S : Held(t) => t \in overrun'
    <3>1. overrun' = overrun \cup {t \in S : Held(t) /\ lease[t] > ClaimTTL}
      BY <2>1 DEF Overrun
    <3>2. ASSUME NEW t \in S, Held(t), t \notin overrun
          PROVE  lease[t] > ClaimTTL
      <4>1. lease[t] # Unclaimed
        BY <2>2, <3>2 DEF Held, Exclusive
      <4>2. Claimable(t)
        BY DEF Newest
      <4>. QED
        BY <4>1, <4>2 DEF Claimable, Expired
    <3>. QED
      BY <3>1, <3>2
  <2>5. \A h \in Threads : batch'[h] \subseteq IF h = g THEN S ELSE batch[h]
    BY <2>1, <2>3 DEF DetectionOK, ThreadsOK
  <2>6. ASSUME NEW t \in Trades \ overrun', NEW h \in Threads, t \in batch'[h]
        PROVE  /\ verdict[t] = "pending" /\ lease'[t] # Unclaimed
               /\ \A k \in Threads : t \in batch'[k] => k = h
    <3>1. CASE t \in S
      <4>1. \A k \in Threads : t \notin batch[k]
        BY <2>4, <2>6, <3>1 DEF Held
      <4>. QED
        BY <2>1, <2>2, <2>5, <2>6, <3>1, <4>1 DEF Unclaimed
    <3>2. CASE t \notin S
      <4>1. \A k \in Threads : t \in batch'[k] => t \in batch[k]
        BY <2>3, <2>5, <3>2
      <4>2. lease'[t] = lease[t]
        BY <2>1, <2>6, <3>2
      <4>. QED
        BY <2>4, <2>6, <4>1, <4>2 DEF Exclusive
    <3>. QED
      BY <3>1, <3>2
  <2>. QED
    BY <2>3, <2>6 DEF Exclusive
<1>9. ASSUME NEW g \in Threads, ClaimNothing(g)
      PROVE  Exclusive'
  BY <1>9, ConstantFacts DEF ConstantAssumption, ClaimNothing, DetectionOK, RowsOK, ThreadsOK, Exclusive, row, seen
<1>10. ASSUME NEW g \in Threads, NextBatch(g)
      PROVE  Exclusive'
  BY <1>10, ConstantFacts DEF ConstantAssumption, NextBatch, DetectionOK, RowsOK, ThreadsOK, Exclusive, row, seen
<1>11. ASSUME NEW g \in Threads, NEW t \in Trades, Take(g, t)
      PROVE  Exclusive'
  BY <1>11, ConstantFacts DEF ConstantAssumption, Take, DetectionOK, RowsOK, ThreadsOK, Exclusive, row, seen
<1>12. ASSUME NEW g \in Threads, Observe(g)
      PROVE  Exclusive'
  BY <1>12, ConstantFacts DEF ConstantAssumption, Observe, DetectionOK, RowsOK, ThreadsOK, Exclusive, row
<1>13. ASSUME NEW g \in Threads, Insert(g)
      PROVE  Exclusive'
  BY <1>13, ConstantFacts DEF ConstantAssumption, Insert, DetectionOK, RowsOK, ThreadsOK, Exclusive, row
<1>14. ASSUME NEW g \in Threads, Stamp(g)
      PROVE  Exclusive'
  BY <1>14, ConstantFacts DEF ConstantAssumption, Stamp, DetectionOK, RowsOK, ThreadsOK, Exclusive, Mark, Release, seen
<1>15. ASSUME NEW g \in Threads, StampLost(g)
      PROVE  Exclusive'
  BY <1>15, ConstantFacts DEF ConstantAssumption, StampLost, DetectionOK, RowsOK, ThreadsOK, Exclusive, row, Release
<1>16. CASE Clock
  <2>1. ASSUME NEW t \in Trades, lease[t] # Unclaimed
        PROVE  lease'[t] # Unclaimed
    <3>1. lease[t] \in Nat
      BY <2>1 DEF DetectionOK, RowsOK
    <3>2. lease'[t] \in {lease[t], lease[t] + 1}
      BY <1>16 DEF Clock
    <3>. QED
      BY <3>1, <3>2 DEF Unclaimed
  <2>. QED
    BY <1>16, <2>1 DEF Clock, Exclusive, DetectionOK, ThreadsOK, thread, seen
<1>17. CASE UNCHANGED detectionVars
  BY <1>17 DEF detectionVars, row, thread, seen, proc, DetectionOK, RowsOK, ThreadsOK, Exclusive
<1>. QED
  BY <1>1, <1>2, <1>3, <1>4, <1>5, <1>6, <1>7, <1>8, <1>9, <1>10, <1>11, <1>12, <1>13, <1>14, <1>15, <1>16, <1>17 DEF DetectionNext, Run, Work

LEMMA LateIsOldNext ==
    ASSUME DetectionOK, RestsEmpty, LateIsOld, [DetectionNext]_detectionVars
    PROVE  LateIsOld'
<1>1. ASSUME NEW t \in Trades, NEW age \in 0 .. MaxLag + 1, Arrive(t, age)
      PROVE  LateIsOld'
  BY <1>1, ConstantFacts DEF ConstantAssumption, Arrive, DetectionOK, RowsOK, ThreadsOK, LateIsOld, TooOld, Final, thread
<1>2. ASSUME NEW p \in Procs, StartTick(p)
      PROVE  LateIsOld'
  BY <1>2, ConstantFacts DEF ConstantAssumption, StartTick, DetectionOK, RowsOK, ThreadsOK, LateIsOld, TooOld, Final
<1>3. ASSUME NEW p \in Procs, EndTick(p)
      PROVE  LateIsOld'
  BY <1>3, ConstantFacts DEF ConstantAssumption, EndTick, DetectionOK, RowsOK, ThreadsOK, LateIsOld, TooOld, Final, row, thread
<1>4. ASSUME NEW p \in Procs, Start(p)
      PROVE  LateIsOld'
  BY <1>4, ConstantFacts DEF ConstantAssumption, Start, DetectionOK, RowsOK, ThreadsOK, LateIsOld, TooOld, Final, row, thread
<1>5. ASSUME NEW p \in Procs, Stop(p)
      PROVE  LateIsOld'
  BY <1>5, ConstantFacts DEF ConstantAssumption, Stop, DetectionOK, RowsOK, ThreadsOK, LateIsOld, TooOld, Final, row, thread
<1>6. ASSUME NEW p \in Procs, Crash(p)
      PROVE  LateIsOld'
  BY <1>6, ConstantFacts DEF ConstantAssumption, Crash, DetectionOK, RowsOK, ThreadsOK, LateIsOld, TooOld, Final, row
<1>7. ASSUME NEW p \in Procs, NEW S \in SUBSET Markets, Sweep(p, S)
      PROVE  LateIsOld'
  BY <1>7, ConstantFacts DEF ConstantAssumption, Sweep, DetectionOK, RowsOK, ThreadsOK, LateIsOld, TooOld, Final, row, thread
<1>8. ASSUME NEW g \in Threads, Claim(g)
      PROVE  LateIsOld'
  <2>1. PICK S \in Newest(ClaimLimit, {t \in Trades : Claimable(t)}) :
            \/ /\ batch' = [batch EXCEPT ![g] = S]
               /\ late' = [late EXCEPT ![g] = TooLate(S)]
            \/ UNCHANGED <<batch, late>>
    BY <1>8 DEF Claim
  <2>2. \A t \in S : t \in Trades /\ verdict[t] = "pending"
    BY DEF Newest, Claimable, Expired
  <2>3. TooLate(S) = {t \in S : TooOld(t)}
    BY DEF TooLate
  <2>4. UNCHANGED <<verdict, old>>
    BY <1>8 DEF Claim
  <2>. QED
    BY <2>1, <2>2, <2>3, <2>4 DEF LateIsOld, TooOld, DetectionOK, ThreadsOK
<1>9. ASSUME NEW g \in Threads, ClaimNothing(g)
      PROVE  LateIsOld'
  BY <1>9, ConstantFacts DEF ConstantAssumption, ClaimNothing, DetectionOK, RowsOK, ThreadsOK, LateIsOld, TooOld, Final, row
<1>10. ASSUME NEW g \in Threads, NextBatch(g)
      PROVE  LateIsOld'
  BY <1>10, ConstantFacts DEF ConstantAssumption, NextBatch, DetectionOK, RowsOK, ThreadsOK, LateIsOld, TooOld, Final, row
<1>11. ASSUME NEW g \in Threads, NEW t \in Trades, Take(g, t)
      PROVE  LateIsOld'
  BY <1>11, ConstantFacts DEF ConstantAssumption, Take, DetectionOK, RowsOK, ThreadsOK, LateIsOld, TooOld, Final, row
<1>12. ASSUME NEW g \in Threads, Observe(g)
      PROVE  LateIsOld'
  BY <1>12, ConstantFacts DEF ConstantAssumption, Observe, DetectionOK, RowsOK, ThreadsOK, LateIsOld, TooOld, Final, row
<1>13. ASSUME NEW g \in Threads, Insert(g)
      PROVE  LateIsOld'
  BY <1>13, ConstantFacts DEF ConstantAssumption, Insert, DetectionOK, RowsOK, ThreadsOK, LateIsOld, TooOld, Final, row
<1>14. ASSUME NEW g \in Threads, Stamp(g)
      PROVE  LateIsOld'
  BY <1>14, ConstantFacts DEF ConstantAssumption, Stamp, DetectionOK, RowsOK, ThreadsOK, LateIsOld, TooOld, Final, Mark, Release, Verdict
<1>15. ASSUME NEW g \in Threads, StampLost(g)
      PROVE  LateIsOld'
  BY <1>15, ConstantFacts DEF ConstantAssumption, StampLost, DetectionOK, RowsOK, ThreadsOK, LateIsOld, TooOld, Final, row, Release
<1>16. CASE Clock
  <2>1. ASSUME NEW t \in Trades, TooOld(t)
        PROVE  old'[t] > MaxLag
    <3>1. old[t] \in Nat /\ old[t] > MaxLag /\ MaxLag \in Nat
      BY <2>1, ConstantFacts DEF ConstantAssumption, TooOld, DetectionOK, RowsOK
    <3>2. old'[t] \in {old[t], old[t] + 1}
      BY <1>16 DEF Clock
    <3>. QED
      BY <3>1, <3>2
  <2>. QED
    BY <1>16, <2>1 DEF Clock, LateIsOld, TooOld, DetectionOK, ThreadsOK, thread
<1>17. CASE UNCHANGED detectionVars
  BY <1>17 DEF detectionVars, row, thread, seen, proc, DetectionOK, RowsOK, ThreadsOK, LateIsOld, TooOld, Final
<1>. QED
  BY <1>1, <1>2, <1>3, <1>4, <1>5, <1>6, <1>7, <1>8, <1>9, <1>10, <1>11, <1>12, <1>13, <1>14, <1>15, <1>16, <1>17 DEF DetectionNext, Run, Work

LEMMA LooksCountedNext ==
    ASSUME DetectionOK, RestsEmpty, Exclusive, LooksCounted, [DetectionNext]_detectionVars
    PROVE  LooksCounted'
<1>1. ASSUME NEW t \in Trades, NEW age \in 0 .. MaxLag + 1, Arrive(t, age)
      PROVE  LooksCounted'
  BY <1>1, ConstantFacts DEF ConstantAssumption, Arrive, DetectionOK, RowsOK, ThreadsOK, HistoryOK, LooksCounted, SeenOnly, Final, thread, seen
<1>2. ASSUME NEW p \in Procs, StartTick(p)
      PROVE  LooksCounted'
  <2>1. \A h \in Threads : SeenOnly(h) \subseteq SeenOnly(h)'
    BY <1>2 DEF StartTick, SeenOnly, RestsEmpty, DetectionOK, ProcsOK, ThreadsOK
  <2>2. UNCHANGED <<verdict, looks, lostStamps>> /\ overrun \subseteq overrun'
    BY <1>2 DEF StartTick, Overrun
  <2>. QED
    BY <2>1, <2>2 DEF LooksCounted
<1>3. ASSUME NEW p \in Procs, EndTick(p)
      PROVE  LooksCounted'
  BY <1>3, ConstantFacts DEF ConstantAssumption, EndTick, DetectionOK, RowsOK, ThreadsOK, HistoryOK, LooksCounted, SeenOnly, Final, row, thread, seen
<1>4. ASSUME NEW p \in Procs, Start(p)
      PROVE  LooksCounted'
  BY <1>4, ConstantFacts DEF ConstantAssumption, Start, DetectionOK, RowsOK, ThreadsOK, HistoryOK, LooksCounted, SeenOnly, Final, row, thread, seen
<1>5. ASSUME NEW p \in Procs, Stop(p)
      PROVE  LooksCounted'
  BY <1>5, ConstantFacts DEF ConstantAssumption, Stop, DetectionOK, RowsOK, ThreadsOK, HistoryOK, LooksCounted, SeenOnly, Final, row, thread, seen
<1>6. ASSUME NEW p \in Procs, Crash(p)
      PROVE  LooksCounted'
  BY <1>6, ConstantFacts DEF ConstantAssumption, Crash, DetectionOK, RowsOK, ThreadsOK, HistoryOK, LooksCounted, SeenOnly, Final, row, Mine
<1>7. ASSUME NEW p \in Procs, NEW S \in SUBSET Markets, Sweep(p, S)
      PROVE  LooksCounted'
  BY <1>7, ConstantFacts DEF ConstantAssumption, Sweep, DetectionOK, RowsOK, ThreadsOK, HistoryOK, LooksCounted, SeenOnly, Final, row, thread, seen
<1>8. ASSUME NEW g \in Threads, Claim(g)
      PROVE  LooksCounted'
  BY <1>8, ConstantFacts DEF ConstantAssumption, Claim, DetectionOK, RowsOK, ThreadsOK, HistoryOK, LooksCounted, SeenOnly, Final, RestsEmpty, Overrun
<1>9. ASSUME NEW g \in Threads, ClaimNothing(g)
      PROVE  LooksCounted'
  BY <1>9, ConstantFacts DEF ConstantAssumption, ClaimNothing, DetectionOK, RowsOK, ThreadsOK, HistoryOK, LooksCounted, SeenOnly, Final, row, seen
<1>10. ASSUME NEW g \in Threads, NextBatch(g)
      PROVE  LooksCounted'
  BY <1>10, ConstantFacts DEF ConstantAssumption, NextBatch, DetectionOK, RowsOK, ThreadsOK, HistoryOK, LooksCounted, SeenOnly, Final, row, seen
<1>11. ASSUME NEW g \in Threads, NEW t \in Trades, Take(g, t)
      PROVE  LooksCounted'
  BY <1>11, ConstantFacts DEF ConstantAssumption, Take, DetectionOK, RowsOK, ThreadsOK, HistoryOK, LooksCounted, SeenOnly, Final, row, seen
<1>12. ASSUME NEW g \in Threads, Observe(g)
      PROVE  LooksCounted'
  BY <1>12, ConstantFacts DEF ConstantAssumption, Observe, DetectionOK, RowsOK, ThreadsOK, HistoryOK, LooksCounted, SeenOnly, Final, row, Exclusive, Ending, Recovered
<1>13. ASSUME NEW g \in Threads, Insert(g)
      PROVE  LooksCounted'
  BY <1>13, ConstantFacts DEF ConstantAssumption, Insert, DetectionOK, RowsOK, ThreadsOK, HistoryOK, LooksCounted, SeenOnly, Final, row, Ending, Recovered
<1>14. ASSUME NEW g \in Threads, Stamp(g)
      PROVE  LooksCounted'
  <2>1. UNCHANGED <<looks, lostStamps, overrun>>
    BY <1>14 DEF Stamp, seen
  <2>2. /\ verdict' = [verdict EXCEPT ![cur[g]] = Verdict(g)]
        /\ DOMAIN verdict = Trades
        /\ Verdict(g) \in Final
    BY <1>14 DEF Stamp, Mark, Verdict, Final, DetectionOK, RowsOK
  <2>3. \A h \in Threads : h # g => SeenOnly(h)' = SeenOnly(h)
    BY <1>14 DEF Stamp, Release, SeenOnly, DetectionOK, ThreadsOK
  <2>4. ASSUME NEW t \in Trades \ (lostStamps \cup overrun), looks[t] = 1
        PROVE  verdict'[t] \in Final \/ \E h \in Threads : t \in SeenOnly(h)'
    <3>1. CASE t = cur[g]
      BY <2>2, <3>1
    <3>2. CASE t # cur[g] /\ verdict[t] \in Final
      BY <2>2, <3>2
    <3>3. CASE t # cur[g] /\ \E h \in Threads : t \in SeenOnly(h)
      <4>1. PICK h \in Threads : t \in SeenOnly(h)
        BY <3>3
      <4>2. h # g
        BY <3>3, <4>1 DEF SeenOnly
      <4>. QED
        BY <2>3, <4>1, <4>2
    <3>. QED
      BY <2>4, <3>1, <3>2, <3>3 DEF LooksCounted
  <2>5. \A t \in Trades \ (lostStamps \cup overrun) : looks[t] <= 1
    BY DEF LooksCounted
  <2>. QED
    BY <2>1, <2>4, <2>5 DEF LooksCounted
<1>15. ASSUME NEW g \in Threads, StampLost(g)
      PROVE  LooksCounted'
  BY <1>15, ConstantFacts DEF ConstantAssumption, StampLost, DetectionOK, RowsOK, ThreadsOK, HistoryOK, LooksCounted, SeenOnly, Final, row, Release
<1>16. CASE Clock
  BY <1>16, ConstantFacts DEF ConstantAssumption, Clock, DetectionOK, RowsOK, ThreadsOK, HistoryOK, LooksCounted, SeenOnly, Final, thread, seen
<1>17. CASE UNCHANGED detectionVars
  BY <1>17 DEF detectionVars, row, thread, seen, proc, DetectionOK, RowsOK, ThreadsOK, HistoryOK, LooksCounted, SeenOnly, Final
<1>. QED
  BY <1>1, <1>2, <1>3, <1>4, <1>5, <1>6, <1>7, <1>8, <1>9, <1>10, <1>11, <1>12, <1>13, <1>14, <1>15, <1>16, <1>17 DEF DetectionNext, Run, Work

LEMMA StampHasGroundNext ==
    ASSUME DetectionOK, RestsEmpty, Exclusive, LateIsOld, StampHasGround, [DetectionNext]_detectionVars
    PROVE  StampHasGround'
<1>1. ASSUME NEW t \in Trades, NEW age \in 0 .. MaxLag + 1, Arrive(t, age)
      PROVE  StampHasGround'
  BY <1>1, ConstantFacts DEF ConstantAssumption, Arrive, DetectionOK, ThreadsOK, HistoryOK, StampHasGround, thread, seen
<1>2. ASSUME NEW p \in Procs, StartTick(p)
      PROVE  StampHasGround'
  BY <1>2, ConstantFacts DEF ConstantAssumption, StartTick, DetectionOK, ThreadsOK, HistoryOK, StampHasGround, Overrun
<1>3. ASSUME NEW p \in Procs, EndTick(p)
      PROVE  StampHasGround'
  BY <1>3, ConstantFacts DEF ConstantAssumption, EndTick, DetectionOK, ThreadsOK, HistoryOK, StampHasGround, row, thread, seen
<1>4. ASSUME NEW p \in Procs, Start(p)
      PROVE  StampHasGround'
  BY <1>4, ConstantFacts DEF ConstantAssumption, Start, DetectionOK, ThreadsOK, HistoryOK, StampHasGround, row, thread, seen
<1>5. ASSUME NEW p \in Procs, Stop(p)
      PROVE  StampHasGround'
  BY <1>5, ConstantFacts DEF ConstantAssumption, Stop, DetectionOK, ThreadsOK, HistoryOK, StampHasGround, row, thread, seen
<1>6. ASSUME NEW p \in Procs, Crash(p)
      PROVE  StampHasGround'
  BY <1>6, ConstantFacts DEF ConstantAssumption, Crash, DetectionOK, ThreadsOK, HistoryOK, StampHasGround, row
<1>7. ASSUME NEW p \in Procs, NEW S \in SUBSET Markets, Sweep(p, S)
      PROVE  StampHasGround'
  BY <1>7, ConstantFacts DEF ConstantAssumption, Sweep, DetectionOK, ThreadsOK, HistoryOK, StampHasGround, row, thread, seen
<1>8. ASSUME NEW g \in Threads, Claim(g)
      PROVE  StampHasGround'
  BY <1>8, ConstantFacts DEF ConstantAssumption, Claim, DetectionOK, ThreadsOK, HistoryOK, StampHasGround, Overrun, RestsEmpty
<1>9. ASSUME NEW g \in Threads, ClaimNothing(g)
      PROVE  StampHasGround'
  BY <1>9, ConstantFacts DEF ConstantAssumption, ClaimNothing, DetectionOK, ThreadsOK, HistoryOK, StampHasGround, row, seen
<1>10. ASSUME NEW g \in Threads, NextBatch(g)
      PROVE  StampHasGround'
  BY <1>10, ConstantFacts DEF ConstantAssumption, NextBatch, DetectionOK, ThreadsOK, HistoryOK, StampHasGround, row, seen
<1>11. ASSUME NEW g \in Threads, NEW t \in Trades, Take(g, t)
      PROVE  StampHasGround'
  BY <1>11, ConstantFacts DEF ConstantAssumption, Take, DetectionOK, ThreadsOK, HistoryOK, StampHasGround, row, seen
<1>12. ASSUME NEW g \in Threads, Observe(g)
      PROVE  StampHasGround'
  <2>1. PICK t \in Trades : t = cur[g] /\ t \in batch[g]
    BY <1>12 DEF Observe, DetectionOK, ThreadsOK
  <2>2. /\ looks' = [looks EXCEPT ![t] = looks[t] + 1]
        /\ UNCHANGED <<cur, late, overrun, unstored, stored>>
    BY <1>12, <2>1 DEF Observe
  <2>3. /\ gated \ {t} = gated' \ {t}
        /\ wanted \ {t} = wanted' \ {t}
        /\ TooOld(t) => t \in gated'
        /\ pc'[g] = "stamp" => t \notin wanted'
        /\ pc'[g] = "insert" => ~TooOld(t)
    BY <1>12, <2>1 DEF Observe, Ending, Recovered, DetectionOK, ThreadsOK
  <2>4. ASSUME NEW h \in Threads, cur[h] \notin overrun
        PROVE  /\ pc'[h] = "insert" => looks'[cur[h]] > 0 /\ cur[h] \notin late[h]
               /\ pc'[h] = "stamp" =>
                    /\ looks'[cur[h]] > 0
                    /\ cur[h] \in late[h] => cur[h] \in gated'
                    /\ cur[h] \in wanted' /\ cur[h] \notin unstored => stored[KeyOf[cur[h]]] > 0
    <3>1. looks[t] \in Nat /\ looks'[t] = looks[t] + 1
      BY <2>2 DEF DetectionOK, HistoryOK
    <3>2. CASE h = g
      <4>1. t \in late[g] => TooOld(t)
        BY DEF LateIsOld
      <4>. QED
        BY <2>1, <2>3, <3>1, <3>2, <4>1
    <3>3. CASE h # g
      <4>1. pc'[h] = pc[h]
        BY <1>12, <3>3 DEF Observe, DetectionOK, ThreadsOK
      <4>2. CASE pc[h] \in {"insert", "stamp"}
        <5>1. cur[h] \in batch[h] /\ cur[h] \in Trades
          BY <4>2 DEF DetectionOK, ThreadsOK
        <5>2. cur[h] # t
          BY <2>1, <2>4, <3>3, <5>1 DEF Exclusive
        <5>3. looks'[cur[h]] = looks[cur[h]]
          BY <2>2, <5>1, <5>2 DEF DetectionOK, HistoryOK
        <5>. QED
          BY <2>3, <2>4, <4>1, <5>2, <5>3 DEF StampHasGround
      <4>. QED
        BY <4>1, <4>2
    <3>. QED
      BY <3>2, <3>3
  <2>. QED
    BY <2>2, <2>4 DEF StampHasGround
<1>13. ASSUME NEW g \in Threads, Insert(g)
      PROVE  StampHasGround'
  <2>1. PICK t \in Trades : t = cur[g]
    BY <1>13 DEF Insert, DetectionOK, ThreadsOK
  <2>2. KeyOf[t] \in Keys /\ stored \in [Keys -> Nat]
    BY ConstantFacts DEF ConstantAssumption, DetectionOK, RowsOK
  <2>3. /\ \A k \in Keys : stored[k] > 0 => stored'[k] > 0
        /\ stored'[KeyOf[t]] > 0 \/ t \in unstored'
        /\ unstored \subseteq unstored'
    BY <1>13, <2>1, <2>2 DEF Insert
  <2>4. UNCHANGED <<cur, late, overrun, looks, gated, wanted>>
    BY <1>13 DEF Insert
  <2>5. /\ \A h \in Threads : h # g => pc'[h] = pc[h]
        /\ pc'[g] # "insert" /\ pc[g] = "insert"
    BY <1>13 DEF Insert, Ending, Recovered, DetectionOK, ThreadsOK
  <2>6. t \in late[g] => t \in overrun
    BY <2>1, <2>5 DEF StampHasGround
  <2>7. \A h \in Threads : cur[h] \in Trades => KeyOf[cur[h]] \in Keys
    BY ConstantFacts DEF ConstantAssumption
  <2>. QED
    BY <2>1, <2>3, <2>4, <2>5, <2>6, <2>7 DEF StampHasGround, DetectionOK, ThreadsOK
<1>14. ASSUME NEW g \in Threads, Stamp(g)
      PROVE  StampHasGround'
  BY <1>14, ConstantFacts DEF ConstantAssumption, Stamp, DetectionOK, ThreadsOK, HistoryOK, StampHasGround, Release, seen
<1>15. ASSUME NEW g \in Threads, StampLost(g)
      PROVE  StampHasGround'
  BY <1>15, ConstantFacts DEF ConstantAssumption, StampLost, DetectionOK, ThreadsOK, HistoryOK, StampHasGround, row, Release
<1>16. CASE Clock
  BY <1>16, ConstantFacts DEF ConstantAssumption, Clock, DetectionOK, ThreadsOK, HistoryOK, StampHasGround, thread, seen
<1>17. CASE UNCHANGED detectionVars
  BY <1>17 DEF detectionVars, row, thread, seen, proc, DetectionOK, ThreadsOK, HistoryOK, StampHasGround
<1>. QED
  BY <1>1, <1>2, <1>3, <1>4, <1>5, <1>6, <1>7, <1>8, <1>9, <1>10, <1>11, <1>12, <1>13, <1>14, <1>15, <1>16, <1>17 DEF DetectionNext, Run, Work

LEMMA AnalyzedTellsTheAlertNext ==
    ASSUME DetectionOK, RestsEmpty, Exclusive, StampHasGround, AnalyzedTellsTheAlert, [DetectionNext]_detectionVars
    PROVE  AnalyzedTellsTheAlert'
<1>1. ASSUME NEW t \in Trades, NEW age \in 0 .. MaxLag + 1, Arrive(t, age)
      PROVE  AnalyzedTellsTheAlert'
  BY <1>1, ConstantFacts DEF ConstantAssumption, Arrive, DetectionOK, RowsOK, ThreadsOK, HistoryOK, AnalyzedTellsTheAlert, thread, seen
<1>2. ASSUME NEW p \in Procs, StartTick(p)
      PROVE  AnalyzedTellsTheAlert'
  BY <1>2, ConstantFacts DEF ConstantAssumption, StartTick, DetectionOK, RowsOK, ThreadsOK, HistoryOK, AnalyzedTellsTheAlert, Overrun
<1>3. ASSUME NEW p \in Procs, EndTick(p)
      PROVE  AnalyzedTellsTheAlert'
  BY <1>3, ConstantFacts DEF ConstantAssumption, EndTick, DetectionOK, RowsOK, ThreadsOK, HistoryOK, AnalyzedTellsTheAlert, row, thread, seen
<1>4. ASSUME NEW p \in Procs, Start(p)
      PROVE  AnalyzedTellsTheAlert'
  BY <1>4, ConstantFacts DEF ConstantAssumption, Start, DetectionOK, RowsOK, ThreadsOK, HistoryOK, AnalyzedTellsTheAlert, row, thread, seen
<1>5. ASSUME NEW p \in Procs, Stop(p)
      PROVE  AnalyzedTellsTheAlert'
  BY <1>5, ConstantFacts DEF ConstantAssumption, Stop, DetectionOK, RowsOK, ThreadsOK, HistoryOK, AnalyzedTellsTheAlert, row, thread, seen
<1>6. ASSUME NEW p \in Procs, Crash(p)
      PROVE  AnalyzedTellsTheAlert'
  BY <1>6, ConstantFacts DEF ConstantAssumption, Crash, DetectionOK, RowsOK, ThreadsOK, HistoryOK, AnalyzedTellsTheAlert, row
<1>7. ASSUME NEW p \in Procs, NEW S \in SUBSET Markets, Sweep(p, S)
      PROVE  AnalyzedTellsTheAlert'
  BY <1>7, ConstantFacts DEF ConstantAssumption, Sweep, DetectionOK, RowsOK, ThreadsOK, HistoryOK, AnalyzedTellsTheAlert, row, thread, seen
<1>8. ASSUME NEW g \in Threads, Claim(g)
      PROVE  AnalyzedTellsTheAlert'
  BY <1>8, ConstantFacts DEF ConstantAssumption, Claim, DetectionOK, RowsOK, ThreadsOK, HistoryOK, AnalyzedTellsTheAlert, Overrun, RestsEmpty
<1>9. ASSUME NEW g \in Threads, ClaimNothing(g)
      PROVE  AnalyzedTellsTheAlert'
  BY <1>9, ConstantFacts DEF ConstantAssumption, ClaimNothing, DetectionOK, RowsOK, ThreadsOK, HistoryOK, AnalyzedTellsTheAlert, row, seen
<1>10. ASSUME NEW g \in Threads, NextBatch(g)
      PROVE  AnalyzedTellsTheAlert'
  BY <1>10, ConstantFacts DEF ConstantAssumption, NextBatch, DetectionOK, RowsOK, ThreadsOK, HistoryOK, AnalyzedTellsTheAlert, row, seen
<1>11. ASSUME NEW g \in Threads, NEW t \in Trades, Take(g, t)
      PROVE  AnalyzedTellsTheAlert'
  BY <1>11, ConstantFacts DEF ConstantAssumption, Take, DetectionOK, RowsOK, ThreadsOK, HistoryOK, AnalyzedTellsTheAlert, row, seen
<1>12. ASSUME NEW g \in Threads, Observe(g)
      PROVE  AnalyzedTellsTheAlert'
  BY <1>12, ConstantFacts DEF ConstantAssumption, Observe, DetectionOK, RowsOK, ThreadsOK, HistoryOK, AnalyzedTellsTheAlert, row, Exclusive
<1>13. ASSUME NEW g \in Threads, Insert(g)
      PROVE  AnalyzedTellsTheAlert'
  BY <1>13, ConstantFacts DEF ConstantAssumption, Insert, DetectionOK, RowsOK, ThreadsOK, HistoryOK, AnalyzedTellsTheAlert, row, Exclusive
<1>14. ASSUME NEW g \in Threads, Stamp(g)
      PROVE  AnalyzedTellsTheAlert'
  BY <1>14, ConstantFacts DEF ConstantAssumption, Stamp, DetectionOK, RowsOK, ThreadsOK, HistoryOK, AnalyzedTellsTheAlert, Release, seen, Mark, Verdict, StampHasGround, Exclusive
<1>15. ASSUME NEW g \in Threads, StampLost(g)
      PROVE  AnalyzedTellsTheAlert'
  BY <1>15, ConstantFacts DEF ConstantAssumption, StampLost, DetectionOK, RowsOK, ThreadsOK, HistoryOK, AnalyzedTellsTheAlert, row, Release
<1>16. CASE Clock
  BY <1>16, ConstantFacts DEF ConstantAssumption, Clock, DetectionOK, RowsOK, ThreadsOK, HistoryOK, AnalyzedTellsTheAlert, thread, seen
<1>17. CASE UNCHANGED detectionVars
  BY <1>17 DEF detectionVars, row, thread, seen, proc, DetectionOK, RowsOK, ThreadsOK, HistoryOK, AnalyzedTellsTheAlert
<1>. QED
  BY <1>1, <1>2, <1>3, <1>4, <1>5, <1>6, <1>7, <1>8, <1>9, <1>10, <1>11, <1>12, <1>13, <1>14, <1>15, <1>16, <1>17 DEF DetectionNext, Run, Work

LEMMA TooOldWasGatedNext ==
    ASSUME DetectionOK, RestsEmpty, Exclusive, StampHasGround, TooOldWasGated, [DetectionNext]_detectionVars
    PROVE  TooOldWasGated'
<1>1. ASSUME NEW t \in Trades, NEW age \in 0 .. MaxLag + 1, Arrive(t, age)
      PROVE  TooOldWasGated'
  BY <1>1, ConstantFacts DEF ConstantAssumption, Arrive, DetectionOK, RowsOK, ThreadsOK, HistoryOK, TooOldWasGated, thread, seen
<1>2. ASSUME NEW p \in Procs, StartTick(p)
      PROVE  TooOldWasGated'
  BY <1>2, ConstantFacts DEF ConstantAssumption, StartTick, DetectionOK, RowsOK, ThreadsOK, HistoryOK, TooOldWasGated, Overrun
<1>3. ASSUME NEW p \in Procs, EndTick(p)
      PROVE  TooOldWasGated'
  BY <1>3, ConstantFacts DEF ConstantAssumption, EndTick, DetectionOK, RowsOK, ThreadsOK, HistoryOK, TooOldWasGated, row, thread, seen
<1>4. ASSUME NEW p \in Procs, Start(p)
      PROVE  TooOldWasGated'
  BY <1>4, ConstantFacts DEF ConstantAssumption, Start, DetectionOK, RowsOK, ThreadsOK, HistoryOK, TooOldWasGated, row, thread, seen
<1>5. ASSUME NEW p \in Procs, Stop(p)
      PROVE  TooOldWasGated'
  BY <1>5, ConstantFacts DEF ConstantAssumption, Stop, DetectionOK, RowsOK, ThreadsOK, HistoryOK, TooOldWasGated, row, thread, seen
<1>6. ASSUME NEW p \in Procs, Crash(p)
      PROVE  TooOldWasGated'
  BY <1>6, ConstantFacts DEF ConstantAssumption, Crash, DetectionOK, RowsOK, ThreadsOK, HistoryOK, TooOldWasGated, row
<1>7. ASSUME NEW p \in Procs, NEW S \in SUBSET Markets, Sweep(p, S)
      PROVE  TooOldWasGated'
  BY <1>7, ConstantFacts DEF ConstantAssumption, Sweep, DetectionOK, RowsOK, ThreadsOK, HistoryOK, TooOldWasGated, row, thread, seen
<1>8. ASSUME NEW g \in Threads, Claim(g)
      PROVE  TooOldWasGated'
  BY <1>8, ConstantFacts DEF ConstantAssumption, Claim, DetectionOK, RowsOK, ThreadsOK, HistoryOK, TooOldWasGated, Overrun, RestsEmpty
<1>9. ASSUME NEW g \in Threads, ClaimNothing(g)
      PROVE  TooOldWasGated'
  BY <1>9, ConstantFacts DEF ConstantAssumption, ClaimNothing, DetectionOK, RowsOK, ThreadsOK, HistoryOK, TooOldWasGated, row, seen
<1>10. ASSUME NEW g \in Threads, NextBatch(g)
      PROVE  TooOldWasGated'
  BY <1>10, ConstantFacts DEF ConstantAssumption, NextBatch, DetectionOK, RowsOK, ThreadsOK, HistoryOK, TooOldWasGated, row, seen
<1>11. ASSUME NEW g \in Threads, NEW t \in Trades, Take(g, t)
      PROVE  TooOldWasGated'
  BY <1>11, ConstantFacts DEF ConstantAssumption, Take, DetectionOK, RowsOK, ThreadsOK, HistoryOK, TooOldWasGated, row, seen
<1>12. ASSUME NEW g \in Threads, Observe(g)
      PROVE  TooOldWasGated'
  BY <1>12, ConstantFacts DEF ConstantAssumption, Observe, DetectionOK, RowsOK, ThreadsOK, HistoryOK, TooOldWasGated, row, Exclusive
<1>13. ASSUME NEW g \in Threads, Insert(g)
      PROVE  TooOldWasGated'
  BY <1>13, ConstantFacts DEF ConstantAssumption, Insert, DetectionOK, RowsOK, ThreadsOK, HistoryOK, TooOldWasGated, row, Exclusive
<1>14. ASSUME NEW g \in Threads, Stamp(g)
      PROVE  TooOldWasGated'
  BY <1>14, ConstantFacts DEF ConstantAssumption, Stamp, DetectionOK, RowsOK, ThreadsOK, HistoryOK, TooOldWasGated, Release, seen, Mark, Verdict, StampHasGround, Exclusive
<1>15. ASSUME NEW g \in Threads, StampLost(g)
      PROVE  TooOldWasGated'
  BY <1>15, ConstantFacts DEF ConstantAssumption, StampLost, DetectionOK, RowsOK, ThreadsOK, HistoryOK, TooOldWasGated, row, Release
<1>16. CASE Clock
  BY <1>16, ConstantFacts DEF ConstantAssumption, Clock, DetectionOK, RowsOK, ThreadsOK, HistoryOK, TooOldWasGated, thread, seen
<1>17. CASE UNCHANGED detectionVars
  BY <1>17 DEF detectionVars, row, thread, seen, proc, DetectionOK, RowsOK, ThreadsOK, HistoryOK, TooOldWasGated
<1>. QED
  BY <1>1, <1>2, <1>3, <1>4, <1>5, <1>6, <1>7, <1>8, <1>9, <1>10, <1>11, <1>12, <1>13, <1>14, <1>15, <1>16, <1>17 DEF DetectionNext, Run, Work

LEMMA IInvInit == DetectionInit => IInv
<1>1. DetectionInit => DetectionOK
  BY TypeInit
<1>. QED
  BY <1>1 DEF DetectionInit, IInv, RestsEmpty, Exclusive, LateIsOld, LooksCounted, StampHasGround,
           AnalyzedTellsTheAlert, TooOldWasGated

LEMMA IInvNext == IInv /\ [DetectionNext]_detectionVars => IInv'
BY TypeNext, RestsEmptyNext, ExclusiveNext, LateIsOldNext, LooksCountedNext, StampHasGroundNext,
   AnalyzedTellsTheAlertNext, TooOldWasGatedNext DEF IInv

\* The inductive invariant holds in every state.
THEOREM Invariance == DetectionSpec => []IInv
<1>. QED
  BY IInvInit, IInvNext, PTL DEF DetectionSpec

\* A row whose lease nobody took over is pending, leased and in one batch only.
THEOREM Exclusion == DetectionSpec => []Exclusive
<1>1. IInv => Exclusive
  BY DEF IInv
<1>. QED
  BY Invariance, <1>1, PTL

\* Observe runs twice on a trade only after a lost verdict or an expired lease.
THEOREM SecondLooksExplained == DetectionSpec => []SecondLookHasCause
<1>1. IInv => SecondLookHasCause
  BY DEF IInv, LooksCounted, SecondLookHasCause, DetectionOK, HistoryOK
<1>. QED
  BY Invariance, <1>1, PTL

\* `analyzed` rows were analysed, and their alert is stored unless its insert failed.
THEOREM NoAlertLostToACrash == DetectionSpec => []AnalyzedTellsTheAlert
<1>1. IInv => AnalyzedTellsTheAlert
  BY DEF IInv
<1>. QED
  BY Invariance, <1>1, PTL

\* `too_old` rows were refused by the lag gate of Observe.
THEOREM SkipsWereGated == DetectionSpec => []TooOldWasGated
<1>1. IInv => TooOldWasGated
  BY DEF IInv
<1>. QED
  BY Invariance, <1>1, PTL

\* A verdict never changes unless the lease of the row ran out under a goroutine.
THEOREM VerdictsStand == DetectionSpec => VerdictIsFinal
<1>. DEFINE Stands == \A t \in Trades : verdict[t] \in Final /\ t \notin overrun => verdict'[t] = verdict[t]
<1>1. IInv /\ [DetectionNext]_detectionVars => [Stands]_detectionVars
  <2>. SUFFICES ASSUME IInv, [DetectionNext]_detectionVars, NEW t \in Trades, verdict[t] \in Final, t \notin overrun
                PROVE  verdict'[t] = verdict[t]
    BY Zenon
  <2>1. ASSUME NEW g \in Threads, Stamp(g)
        PROVE  verdict'[t] = verdict[t]
    <3>1. cur[g] \in batch[g]
      BY <2>1 DEF Stamp, IInv, DetectionOK, ThreadsOK
    <3>2. t # cur[g]
      BY <3>1 DEF IInv, Exclusive, Final
    <3>. QED
      BY <2>1, <3>2 DEF Stamp, Mark, IInv, DetectionOK, RowsOK
  <2>2. ASSUME NEW u \in Trades, NEW age \in 0 .. MaxLag + 1, Arrive(u, age)
        PROVE  verdict'[t] = verdict[t]
    BY <2>2 DEF Arrive, Final, IInv, DetectionOK, RowsOK
  <2>3. ASSUME NEW p \in Procs, Run(p) \/ Stop(p) \/ Crash(p) \/ \E S \in SUBSET Markets : Sweep(p, S)
        PROVE  verdict'[t] = verdict[t]
    BY <2>3 DEF Run, StartTick, EndTick, Start, Stop, Crash, Sweep, row
  <2>4. ASSUME NEW g \in Threads, Work(g), ~Stamp(g)
        PROVE  verdict'[t] = verdict[t]
    BY <2>4 DEF Work, Claim, ClaimNothing, NextBatch, Take, Observe, Insert, StampLost, row
  <2>5. CASE Clock \/ UNCHANGED detectionVars
    BY <2>5 DEF Clock, detectionVars, row
  <2>. QED
    BY <2>1, <2>2, <2>3, <2>4, <2>5 DEF DetectionNext
<1>. QED
  BY Invariance, <1>1, PTL DEF DetectionSpec, VerdictIsFinal
=============================================================================
