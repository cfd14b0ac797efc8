------------------------ MODULE MarketLifecycleProofs ------------------------
(***************************************************************************)
(* What MarketLifecycle guarantees for any number of markets and           *)
(* processes, any limits and delays, and any number of faults.             *)
(***************************************************************************)
EXTENDS MarketLifecycle, TLAPS

ConstantAssumption == /\ None \notin Markets
                      /\ Sweepers \cup Reapers \cup Walkers \subseteq Procs
                      /\ Retention \in Nat /\ StaleAfter \in Nat /\ RetryAfter \in Nat
                      /\ Faults \in Nat /\ Slow \in Nat

LEMMA ConstantFacts == ConstantAssumption
BY MarketsAssumption, LoopsAssumption, LimitsAssumption DEF ConstantAssumption

-----------------------------------------------------------------------------
(* Type correctness *)

LEMMA TypeInit == Init => TypeOK
BY ConstantFacts DEF Init, TypeOK, RowsOK, LoopsOK, HistoryOK, Present, ConstantAssumption

LEMMA RowsNext ==
    ASSUME TypeOK, [Next]_vars
    PROVE  RowsOK'
<1>1. ASSUME NEW p \in Procs, Sweep(p)
      PROVE  RowsOK'
  BY <1>1, ConstantFacts DEF ConstantAssumption, Sweep, TypeOK, RowsOK, LoopsOK, Present, market
<1>2. ASSUME NEW p \in Procs, NEW m \in Markets, Upsert(p, m)
      PROVE  RowsOK'
  BY <1>2, ConstantFacts DEF ConstantAssumption, Upsert, TypeOK, RowsOK, LoopsOK, Present, Revived, Undeleted
<1>3. ASSUME NEW p \in Procs, MarkInactive(p)
      PROVE  RowsOK'
  BY <1>3, ConstantFacts DEF ConstantAssumption, MarkInactive, TypeOK, RowsOK, LoopsOK, Present, Missing
<1>4. ASSUME NEW p \in Procs, PersistFails(p)
      PROVE  RowsOK'
  BY <1>4, ConstantFacts DEF ConstantAssumption, PersistFails, TypeOK, RowsOK, LoopsOK, Present, market
<1>5. ASSUME NEW p \in Procs, ListRipe(p)
      PROVE  RowsOK'
  BY <1>5, ConstantFacts DEF ConstantAssumption, ListRipe, TypeOK, RowsOK, LoopsOK, Present, market
<1>6. ASSUME NEW p \in Procs, NEW m \in Markets, Ask(p, m)
      PROVE  RowsOK'
  BY <1>6, ConstantFacts DEF ConstantAssumption, Ask, TypeOK, RowsOK, LoopsOK, Present, market
<1>7. ASSUME NEW p \in Procs, Resume(p)
      PROVE  RowsOK'
  BY <1>7, ConstantFacts DEF ConstantAssumption, Resume, TypeOK, RowsOK, LoopsOK, Present, Answered, Revived, Undeleted
<1>8. ASSUME NEW p \in Procs, Purge(p)
      PROVE  RowsOK'
  BY <1>8, ConstantFacts DEF ConstantAssumption, Purge, TypeOK, RowsOK, LoopsOK, Present, Answered
<1>9. ASSUME NEW p \in Procs, SanityFails(p)
      PROVE  RowsOK'
  BY <1>9, ConstantFacts DEF ConstantAssumption, SanityFails, TypeOK, RowsOK, LoopsOK, Present, market
<1>10. ASSUME NEW p \in Procs, BackfillTick(p)
      PROVE  RowsOK'
  BY <1>10, ConstantFacts DEF ConstantAssumption, BackfillTick, TypeOK, RowsOK, LoopsOK, Present, market, Stuck
<1>11. ASSUME NEW p \in Procs, ListJobs(p)
      PROVE  RowsOK'
  BY <1>11, ConstantFacts DEF ConstantAssumption, ListJobs, TypeOK, RowsOK, LoopsOK, Present, market
<1>12. ASSUME NEW p \in Procs, NEW m \in Markets, Begin(p, m)
      PROVE  RowsOK'
  <2>1. UNCHANGED <<stored, active, gone, purged>>
    BY <1>12 DEF Begin, market
  <2>2. status' \in [Markets -> {"pending", "running", "completed", "partial", "failed"}]
    BY <1>12 DEF Begin, TypeOK, RowsOK
  <2>3. age' \in [Markets -> Nat]
    BY <1>12 DEF Begin, TypeOK, RowsOK
  <2>. QED
    BY <2>1, <2>2, <2>3 DEF TypeOK, RowsOK
<1>13. ASSUME NEW p \in Procs, NEW m \in Markets, Abandon(p, m)
      PROVE  RowsOK'
  BY <1>13, ConstantFacts DEF ConstantAssumption, Abandon, TypeOK, RowsOK, LoopsOK, Present, market
<1>14. ASSUME NEW p \in Procs, NEW m \in Markets, NEW end \in {"completed", "partial", "failed"}, Finish(p, m, end)
      PROVE  RowsOK'
  BY <1>14, ConstantFacts DEF ConstantAssumption, Finish, TypeOK, RowsOK, LoopsOK, Present, market
<1>15. ASSUME NEW p \in Procs, EndTick(p)
      PROVE  RowsOK'
  BY <1>15, ConstantFacts DEF ConstantAssumption, EndTick, TypeOK, RowsOK, LoopsOK, Present, market
<1>16. ASSUME NEW p \in Procs, Crash(p)
      PROVE  RowsOK'
  BY <1>16, ConstantFacts DEF ConstantAssumption, Crash, TypeOK, RowsOK, LoopsOK, Present, market
<1>17. ASSUME NEW p \in Procs, Restart(p)
      PROVE  RowsOK'
  BY <1>17, ConstantFacts DEF ConstantAssumption, Restart, TypeOK, RowsOK, LoopsOK, Present, market
<1>18. ASSUME NEW m \in Markets, NEW w \in {"absent", "shown", "tracked"}, Change(m, w)
      PROVE  RowsOK'
  BY <1>18, ConstantFacts DEF ConstantAssumption, Change, TypeOK, RowsOK, LoopsOK, Present, market
<1>19. CASE Tick
  BY <1>19, ConstantFacts DEF ConstantAssumption, Tick, TypeOK, RowsOK, LoopsOK, Present, Waiting, Timed
<1>20. CASE UNCHANGED vars
  BY <1>20 DEF vars, market, discover, sanity, backfill, history, bounds, TypeOK, RowsOK, LoopsOK, Present
<1>. QED
  BY <1>1, <1>2, <1>3, <1>4, <1>5, <1>6, <1>7, <1>8, <1>9, <1>10, <1>11, <1>12, <1>13, <1>14, <1>15, <1>16, <1>17, <1>18, <1>19, <1>20, ConstantFacts DEF Next, Discover, Sanity, Backfill, ConstantAssumption

LEMMA LoopsNext ==
    ASSUME TypeOK, [Next]_vars
    PROVE  LoopsOK'
<1>1. ASSUME NEW p \in Procs, Sweep(p)
      PROVE  LoopsOK'
  BY <1>1, ConstantFacts DEF ConstantAssumption, Sweep, TypeOK, LoopsOK, market, sanity, backfill
<1>2. ASSUME NEW p \in Procs, NEW m \in Markets, Upsert(p, m)
      PROVE  LoopsOK'
  BY <1>2, ConstantFacts DEF ConstantAssumption, Upsert, TypeOK, LoopsOK, sanity, backfill
<1>3. ASSUME NEW p \in Procs, MarkInactive(p)
      PROVE  LoopsOK'
  BY <1>3, ConstantFacts DEF ConstantAssumption, MarkInactive, TypeOK, LoopsOK, EndSweep, sanity, backfill
<1>4. ASSUME NEW p \in Procs, PersistFails(p)
      PROVE  LoopsOK'
  BY <1>4, ConstantFacts DEF ConstantAssumption, PersistFails, TypeOK, LoopsOK, EndSweep, market, sanity, backfill
<1>5. ASSUME NEW p \in Procs, ListRipe(p)
      PROVE  LoopsOK'
  BY <1>5, ConstantFacts DEF ConstantAssumption, ListRipe, TypeOK, LoopsOK, Some, Ripe, market, discover, backfill
<1>6. ASSUME NEW p \in Procs, NEW m \in Markets, Ask(p, m)
      PROVE  LoopsOK'
  BY <1>6, ConstantFacts DEF ConstantAssumption, Ask, TypeOK, LoopsOK, Upstream, market, discover, backfill
<1>7. ASSUME NEW p \in Procs, Resume(p)
      PROVE  LoopsOK'
  BY <1>7, ConstantFacts DEF ConstantAssumption, Resume, TypeOK, LoopsOK, Answered, discover, backfill
<1>8. ASSUME NEW p \in Procs, Purge(p)
      PROVE  LoopsOK'
  BY <1>8, ConstantFacts DEF ConstantAssumption, Purge, TypeOK, LoopsOK, Answered, discover, backfill
<1>9. ASSUME NEW p \in Procs, SanityFails(p)
      PROVE  LoopsOK'
  BY <1>9, ConstantFacts DEF ConstantAssumption, SanityFails, TypeOK, LoopsOK, Answered, market, discover, backfill
<1>10. ASSUME NEW p \in Procs, BackfillTick(p)
      PROVE  LoopsOK'
  BY <1>10, ConstantFacts DEF ConstantAssumption, BackfillTick, TypeOK, LoopsOK, market, discover, sanity
<1>11. ASSUME NEW p \in Procs, ListJobs(p)
      PROVE  LoopsOK'
  <2>1. PICK S \in SUBSET Due : \/ jobs' = [jobs EXCEPT ![p] = S]
                              \/ UNCHANGED jobs
    BY <1>11 DEF ListJobs, Some
  <2>2. S \subseteq stored
    BY DEF Due, TypeOK, RowsOK
  <2>. QED
    BY <1>11, <2>1, <2>2 DEF ListJobs, TypeOK, LoopsOK, market, discover, sanity
<1>12. ASSUME NEW p \in Procs, NEW m \in Markets, Begin(p, m)
      PROVE  LoopsOK'
  BY <1>12, ConstantFacts DEF ConstantAssumption, Begin, TypeOK, LoopsOK, market, discover, sanity
<1>13. ASSUME NEW p \in Procs, NEW m \in Markets, Abandon(p, m)
      PROVE  LoopsOK'
  BY <1>13, ConstantFacts DEF ConstantAssumption, Abandon, TypeOK, LoopsOK, market, discover, sanity
<1>14. ASSUME NEW p \in Procs, NEW m \in Markets, NEW end \in {"completed", "partial", "failed"}, Finish(p, m, end)
      PROVE  LoopsOK'
  BY <1>14, ConstantFacts DEF ConstantAssumption, Finish, TypeOK, LoopsOK, market, discover, sanity
<1>15. ASSUME NEW p \in Procs, EndTick(p)
      PROVE  LoopsOK'
  BY <1>15, ConstantFacts DEF ConstantAssumption, EndTick, TypeOK, LoopsOK, market, discover, sanity
<1>16. ASSUME NEW p \in Procs, Crash(p)
      PROVE  LoopsOK'
  BY <1>16, ConstantFacts DEF ConstantAssumption, Crash, TypeOK, LoopsOK, market, EndSweep
<1>17. ASSUME NEW p \in Procs, Restart(p)
      PROVE  LoopsOK'
  BY <1>17, ConstantFacts DEF ConstantAssumption, Restart, TypeOK, LoopsOK, market, discover, sanity, backfill
<1>18. ASSUME NEW m \in Markets, NEW w \in {"absent", "shown", "tracked"}, Change(m, w)
      PROVE  LoopsOK'
  BY <1>18, ConstantFacts DEF ConstantAssumption, Change, TypeOK, LoopsOK, market, discover, sanity, backfill
<1>19. CASE Tick
  BY <1>19, ConstantFacts DEF ConstantAssumption, Tick, TypeOK, LoopsOK, discover, sanity, backfill
<1>20. CASE UNCHANGED vars
  BY <1>20 DEF vars, market, discover, sanity, backfill, history, bounds, TypeOK, LoopsOK
<1>. QED
  BY <1>1, <1>2, <1>3, <1>4, <1>5, <1>6, <1>7, <1>8, <1>9, <1>10, <1>11, <1>12, <1>13, <1>14, <1>15, <1>16, <1>17, <1>18, <1>19, <1>20, ConstantFacts DEF Next, Discover, Sanity, Backfill, ConstantAssumption

LEMMA HistoryNext ==
    ASSUME TypeOK, [Next]_vars
    PROVE  HistoryOK'
<1>1. ASSUME NEW p \in Procs, Sweep(p)
      PROVE  HistoryOK'
  BY <1>1, ConstantFacts DEF ConstantAssumption, Sweep, TypeOK, HistoryOK, LoopsOK, bounds
<1>2. ASSUME NEW p \in Procs, NEW m \in Markets, Upsert(p, m)
      PROVE  HistoryOK'
  BY <1>2, ConstantFacts DEF ConstantAssumption, Upsert, TypeOK, HistoryOK, LoopsOK, history, bounds
<1>3. ASSUME NEW p \in Procs, MarkInactive(p)
      PROVE  HistoryOK'
  BY <1>3, ConstantFacts DEF ConstantAssumption, MarkInactive, TypeOK, HistoryOK, LoopsOK, history, bounds
<1>4. ASSUME NEW p \in Procs, PersistFails(p)
      PROVE  HistoryOK'
  BY <1>4, ConstantFacts DEF ConstantAssumption, PersistFails, TypeOK, HistoryOK, LoopsOK, Fault, history
<1>5. ASSUME NEW p \in Procs, ListRipe(p)
      PROVE  HistoryOK'
  BY <1>5, ConstantFacts DEF ConstantAssumption, ListRipe, TypeOK, HistoryOK, LoopsOK, history, bounds
<1>6. ASSUME NEW p \in Procs, NEW m \in Markets, Ask(p, m)
      PROVE  HistoryOK'
  BY <1>6, ConstantFacts DEF ConstantAssumption, Ask, TypeOK, HistoryOK, LoopsOK, history, bounds
<1>7. ASSUME NEW p \in Procs, Resume(p)
      PROVE  HistoryOK'
  BY <1>7, ConstantFacts DEF ConstantAssumption, Resume, TypeOK, HistoryOK, LoopsOK, Answered, Requeued, RowsOK
<1>8. ASSUME NEW p \in Procs, Purge(p)
      PROVE  HistoryOK'
  BY <1>8, ConstantFacts DEF ConstantAssumption, Purge, TypeOK, HistoryOK, LoopsOK, history, bounds
<1>9. ASSUME NEW p \in Procs, SanityFails(p)
      PROVE  HistoryOK'
  BY <1>9, ConstantFacts DEF ConstantAssumption, SanityFails, TypeOK, HistoryOK, LoopsOK, Answered, Fault, history
<1>10. ASSUME NEW p \in Procs, BackfillTick(p)
      PROVE  HistoryOK'
  BY <1>10, ConstantFacts DEF ConstantAssumption, BackfillTick, TypeOK, HistoryOK, LoopsOK, Requeued, Fault, Stuck, RowsOK
<1>11. ASSUME NEW p \in Procs, ListJobs(p)
      PROVE  HistoryOK'
  BY <1>11, ConstantFacts DEF ConstantAssumption, ListJobs, TypeOK, HistoryOK, LoopsOK, Fault, history
<1>12. ASSUME NEW p \in Procs, NEW m \in Markets, Begin(p, m)
      PROVE  HistoryOK'
  BY <1>12, ConstantFacts DEF ConstantAssumption, Begin, TypeOK, HistoryOK, LoopsOK, Fault, LoopsOK
<1>13. ASSUME NEW p \in Procs, NEW m \in Markets, Abandon(p, m)
      PROVE  HistoryOK'
  BY <1>13, ConstantFacts DEF ConstantAssumption, Abandon, TypeOK, HistoryOK, LoopsOK, Fault, history
<1>14. ASSUME NEW p \in Procs, NEW m \in Markets, NEW end \in {"completed", "partial", "failed"}, Finish(p, m, end)
      PROVE  HistoryOK'
  BY <1>14, ConstantFacts DEF ConstantAssumption, Finish, TypeOK, HistoryOK, LoopsOK, history, bounds
<1>15. ASSUME NEW p \in Procs, EndTick(p)
      PROVE  HistoryOK'
  BY <1>15, ConstantFacts DEF ConstantAssumption, EndTick, TypeOK, HistoryOK, LoopsOK, history, bounds
<1>16. ASSUME NEW p \in Procs, Crash(p)
      PROVE  HistoryOK'
  BY <1>16, ConstantFacts DEF ConstantAssumption, Crash, TypeOK, HistoryOK, LoopsOK, Fault
<1>17. ASSUME NEW p \in Procs, Restart(p)
      PROVE  HistoryOK'
  BY <1>17, ConstantFacts DEF ConstantAssumption, Restart, TypeOK, HistoryOK, LoopsOK, bounds
<1>18. ASSUME NEW m \in Markets, NEW w \in {"absent", "shown", "tracked"}, Change(m, w)
      PROVE  HistoryOK'
  BY <1>18, ConstantFacts DEF ConstantAssumption, Change, TypeOK, HistoryOK, LoopsOK, bounds
<1>19. CASE Tick
  BY <1>19, ConstantFacts DEF ConstantAssumption, Tick, TypeOK, HistoryOK, LoopsOK, history, bounds
<1>20. CASE UNCHANGED vars
  BY <1>20 DEF vars, market, discover, sanity, backfill, history, bounds, TypeOK, HistoryOK, LoopsOK
<1>. QED
  BY <1>1, <1>2, <1>3, <1>4, <1>5, <1>6, <1>7, <1>8, <1>9, <1>10, <1>11, <1>12, <1>13, <1>14, <1>15, <1>16, <1>17, <1>18, <1>19, <1>20, ConstantFacts DEF Next, Discover, Sanity, Backfill, ConstantAssumption

LEMMA TypeNext == TypeOK /\ [Next]_vars => TypeOK'
BY RowsNext, LoopsNext, HistoryNext DEF TypeOK

\* The columns, caches, stages and histories keep their types.
THEOREM TypeCorrect == Spec => []TypeOK
BY TypeInit, TypeNext, PTL DEF Spec

-----------------------------------------------------------------------------
(* The inductive invariant, conjunct by conjunct *)

LEMMA InvInit == Init => NoLimbo /\ OneWalk /\ CacheTells
BY DEF Init, NoLimbo, OneWalk, CacheTells

LEMMA NoLimboNext ==
    ASSUME TypeOK, NoLimbo, [Next]_vars
    PROVE  NoLimbo'
<1>1. ASSUME NEW p \in Procs, Sweep(p)
      PROVE  NoLimbo'
  BY <1>1, ConstantFacts DEF ConstantAssumption, Sweep, TypeOK, RowsOK, LoopsOK, NoLimbo, Present, market
<1>2. ASSUME NEW p \in Procs, NEW m \in Markets, Upsert(p, m)
      PROVE  NoLimbo'
  BY <1>2, ConstantFacts DEF ConstantAssumption, Upsert, TypeOK, RowsOK, LoopsOK, NoLimbo, Present, Revived, Undeleted
<1>3. ASSUME NEW p \in Procs, MarkInactive(p)
      PROVE  NoLimbo'
  BY <1>3, ConstantFacts DEF ConstantAssumption, MarkInactive, TypeOK, RowsOK, LoopsOK, NoLimbo, Present, Missing
<1>4. ASSUME NEW p \in Procs, PersistFails(p)
      PROVE  NoLimbo'
  BY <1>4, ConstantFacts DEF ConstantAssumption, PersistFails, TypeOK, RowsOK, LoopsOK, NoLimbo, Present, market
<1>5. ASSUME NEW p \in Procs, ListRipe(p)
      PROVE  NoLimbo'
  BY <1>5, ConstantFacts DEF ConstantAssumption, ListRipe, TypeOK, RowsOK, LoopsOK, NoLimbo, Present, market
<1>6. ASSUME NEW p \in Procs, NEW m \in Markets, Ask(p, m)
      PROVE  NoLimbo'
  BY <1>6, ConstantFacts DEF ConstantAssumption, Ask, TypeOK, RowsOK, LoopsOK, NoLimbo, Present, market
<1>7. ASSUME NEW p \in Procs, Resume(p)
      PROVE  NoLimbo'
  BY <1>7, ConstantFacts DEF ConstantAssumption, Resume, TypeOK, RowsOK, LoopsOK, NoLimbo, Present, Answered, Revived, Undeleted
<1>8. ASSUME NEW p \in Procs, Purge(p)
      PROVE  NoLimbo'
  BY <1>8, ConstantFacts DEF ConstantAssumption, Purge, TypeOK, RowsOK, LoopsOK, NoLimbo, Present, Answered
<1>9. ASSUME NEW p \in Procs, SanityFails(p)
      PROVE  NoLimbo'
  BY <1>9, ConstantFacts DEF ConstantAssumption, SanityFails, TypeOK, RowsOK, LoopsOK, NoLimbo, Present, market
<1>10. ASSUME NEW p \in Procs, BackfillTick(p)
      PROVE  NoLimbo'
  BY <1>10, ConstantFacts DEF ConstantAssumption, BackfillTick, TypeOK, RowsOK, LoopsOK, NoLimbo, Present, market
<1>11. ASSUME NEW p \in Procs, ListJobs(p)
      PROVE  NoLimbo'
  BY <1>11, ConstantFacts DEF ConstantAssumption, ListJobs, TypeOK, RowsOK, LoopsOK, NoLimbo, Present, market
<1>12. ASSUME NEW p \in Procs, NEW m \in Markets, Begin(p, m)
      PROVE  NoLimbo'
  BY <1>12, ConstantFacts DEF ConstantAssumption, Begin, TypeOK, RowsOK, LoopsOK, NoLimbo, Present, market
<1>13. ASSUME NEW p \in Procs, NEW m \in Markets, Abandon(p, m)
      PROVE  NoLimbo'
  BY <1>13, ConstantFacts DEF ConstantAssumption, Abandon, TypeOK, RowsOK, LoopsOK, NoLimbo, Present, market
<1>14. ASSUME NEW p \in Procs, NEW m \in Markets, NEW end \in {"completed", "partial", "failed"}, Finish(p, m, end)
      PROVE  NoLimbo'
  BY <1>14, ConstantFacts DEF ConstantAssumption, Finish, TypeOK, RowsOK, LoopsOK, NoLimbo, Present, market
<1>15. ASSUME NEW p \in Procs, EndTick(p)
      PROVE  NoLimbo'
  BY <1>15, ConstantFacts DEF ConstantAssumption, EndTick, TypeOK, RowsOK, LoopsOK, NoLimbo, Present, market
<1>16. ASSUME NEW p \in Procs, Crash(p)
      PROVE  NoLimbo'
  BY <1>16, ConstantFacts DEF ConstantAssumption, Crash, TypeOK, RowsOK, LoopsOK, NoLimbo, Present, market
<1>17. ASSUME NEW p \in Procs, Restart(p)
      PROVE  NoLimbo'
  BY <1>17, ConstantFacts DEF ConstantAssumption, Restart, TypeOK, RowsOK, LoopsOK, NoLimbo, Present, market
<1>18. ASSUME NEW m \in Markets, NEW w \in {"absent", "shown", "tracked"}, Change(m, w)
      PROVE  NoLimbo'
  BY <1>18, ConstantFacts DEF ConstantAssumption, Change, TypeOK, RowsOK, LoopsOK, NoLimbo, Present, market
<1>19. CASE Tick
  BY <1>19, ConstantFacts DEF ConstantAssumption, Tick, TypeOK, RowsOK, LoopsOK, NoLimbo, Present, Waiting
<1>20. CASE UNCHANGED vars
  BY <1>20 DEF vars, market, discover, sanity, backfill, history, bounds, TypeOK, RowsOK, LoopsOK, NoLimbo, Present, market
<1>. QED
  BY <1>1, <1>2, <1>3, <1>4, <1>5, <1>6, <1>7, <1>8, <1>9, <1>10, <1>11, <1>12, <1>13, <1>14, <1>15, <1>16, <1>17, <1>18, <1>19, <1>20, ConstantFacts DEF Next, Discover, Sanity, Backfill, ConstantAssumption

LEMMA OneWalkNext ==
    ASSUME TypeOK, OneWalk, [Next]_vars
    PROVE  OneWalk'
<1>1. ASSUME NEW p \in Procs, Sweep(p)
      PROVE  OneWalk'
  BY <1>1, ConstantFacts DEF ConstantAssumption, Sweep, TypeOK, RowsOK, LoopsOK, HistoryOK, OneWalk, backfill
<1>2. ASSUME NEW p \in Procs, NEW m \in Markets, Upsert(p, m)
      PROVE  OneWalk'
  BY <1>2, ConstantFacts DEF ConstantAssumption, Upsert, TypeOK, RowsOK, LoopsOK, HistoryOK, OneWalk, backfill, history
<1>3. ASSUME NEW p \in Procs, MarkInactive(p)
      PROVE  OneWalk'
  BY <1>3, ConstantFacts DEF ConstantAssumption, MarkInactive, TypeOK, RowsOK, LoopsOK, HistoryOK, OneWalk, backfill, history
<1>4. ASSUME NEW p \in Procs, PersistFails(p)
      PROVE  OneWalk'
  BY <1>4, ConstantFacts DEF ConstantAssumption, PersistFails, TypeOK, RowsOK, LoopsOK, HistoryOK, OneWalk, backfill, history
<1>5. ASSUME NEW p \in Procs, ListRipe(p)
      PROVE  OneWalk'
  BY <1>5, ConstantFacts DEF ConstantAssumption, ListRipe, TypeOK, RowsOK, LoopsOK, HistoryOK, OneWalk, backfill, history
<1>6. ASSUME NEW p \in Procs, NEW m \in Markets, Ask(p, m)
      PROVE  OneWalk'
  BY <1>6, ConstantFacts DEF ConstantAssumption, Ask, TypeOK, RowsOK, LoopsOK, HistoryOK, OneWalk, backfill, history
<1>7. ASSUME NEW p \in Procs, Resume(p)
      PROVE  OneWalk'
  BY <1>7, ConstantFacts DEF ConstantAssumption, Resume, TypeOK, RowsOK, LoopsOK, HistoryOK, OneWalk, Answered, Requeued, backfill
<1>8. ASSUME NEW p \in Procs, Purge(p)
      PROVE  OneWalk'
  BY <1>8, ConstantFacts DEF ConstantAssumption, Purge, TypeOK, RowsOK, LoopsOK, HistoryOK, OneWalk, backfill, history
<1>9. ASSUME NEW p \in Procs, SanityFails(p)
      PROVE  OneWalk'
  BY <1>9, ConstantFacts DEF ConstantAssumption, SanityFails, TypeOK, RowsOK, LoopsOK, HistoryOK, OneWalk, backfill, history
<1>10. ASSUME NEW p \in Procs, BackfillTick(p)
      PROVE  OneWalk'
  BY <1>10, ConstantFacts DEF ConstantAssumption, BackfillTick, TypeOK, RowsOK, LoopsOK, HistoryOK, OneWalk, Requeued, Stuck
<1>11. ASSUME NEW p \in Procs, ListJobs(p)
      PROVE  OneWalk'
  BY <1>11, ConstantFacts DEF ConstantAssumption, ListJobs, TypeOK, RowsOK, LoopsOK, HistoryOK, OneWalk, history
<1>12. ASSUME NEW p \in Procs, NEW m \in Markets, Begin(p, m)
      PROVE  OneWalk'
  BY <1>12, ConstantFacts DEF ConstantAssumption, Begin, TypeOK, RowsOK, LoopsOK, HistoryOK, OneWalk, Startable
<1>13. ASSUME NEW p \in Procs, NEW m \in Markets, Abandon(p, m)
      PROVE  OneWalk'
  BY <1>13, ConstantFacts DEF ConstantAssumption, Abandon, TypeOK, RowsOK, LoopsOK, HistoryOK, OneWalk, history
<1>14. ASSUME NEW p \in Procs, NEW m \in Markets, NEW end \in {"completed", "partial", "failed"}, Finish(p, m, end)
      PROVE  OneWalk'
  BY <1>14, ConstantFacts DEF ConstantAssumption, Finish, TypeOK, RowsOK, LoopsOK, HistoryOK, OneWalk, history
<1>15. ASSUME NEW p \in Procs, EndTick(p)
      PROVE  OneWalk'
  BY <1>15, ConstantFacts DEF ConstantAssumption, EndTick, TypeOK, RowsOK, LoopsOK, HistoryOK, OneWalk, history
<1>16. ASSUME NEW p \in Procs, Crash(p)
      PROVE  OneWalk'
  BY <1>16, ConstantFacts DEF ConstantAssumption, Crash, TypeOK, RowsOK, LoopsOK, HistoryOK, OneWalk
<1>17. ASSUME NEW p \in Procs, Restart(p)
      PROVE  OneWalk'
  BY <1>17, ConstantFacts DEF ConstantAssumption, Restart, TypeOK, RowsOK, LoopsOK, HistoryOK, OneWalk, backfill
<1>18. ASSUME NEW m \in Markets, NEW w \in {"absent", "shown", "tracked"}, Change(m, w)
      PROVE  OneWalk'
  BY <1>18, ConstantFacts DEF ConstantAssumption, Change, TypeOK, RowsOK, LoopsOK, HistoryOK, OneWalk, backfill
<1>19. CASE Tick
  BY <1>19, ConstantFacts DEF ConstantAssumption, Tick, TypeOK, RowsOK, LoopsOK, HistoryOK, OneWalk, backfill, history
<1>20. CASE UNCHANGED vars
  BY <1>20 DEF vars, market, discover, sanity, backfill, history, bounds, TypeOK, RowsOK, LoopsOK, HistoryOK, OneWalk
<1>. QED
  BY <1>1, <1>2, <1>3, <1>4, <1>5, <1>6, <1>7, <1>8, <1>9, <1>10, <1>11, <1>12, <1>13, <1>14, <1>15, <1>16, <1>17, <1>18, <1>19, <1>20, ConstantFacts DEF Next, Discover, Sanity, Backfill, ConstantAssumption

LEMMA CacheTellsNext ==
    ASSUME TypeOK, CacheTells, [Next]_vars
    PROVE  CacheTells'
<1>1. ASSUME NEW p \in Procs, Sweep(p)
      PROVE  CacheTells'
  BY <1>1, ConstantFacts DEF ConstantAssumption, Sweep, TypeOK, RowsOK, LoopsOK, HistoryOK, CacheTells, sanity
<1>2. ASSUME NEW p \in Procs, NEW m \in Markets, Upsert(p, m)
      PROVE  CacheTells'
  BY <1>2, ConstantFacts DEF ConstantAssumption, Upsert, TypeOK, RowsOK, LoopsOK, HistoryOK, CacheTells, sanity, history
<1>3. ASSUME NEW p \in Procs, MarkInactive(p)
      PROVE  CacheTells'
  BY <1>3, ConstantFacts DEF ConstantAssumption, MarkInactive, TypeOK, RowsOK, LoopsOK, HistoryOK, CacheTells, sanity, history
<1>4. ASSUME NEW p \in Procs, PersistFails(p)
      PROVE  CacheTells'
  BY <1>4, ConstantFacts DEF ConstantAssumption, PersistFails, TypeOK, RowsOK, LoopsOK, HistoryOK, CacheTells, sanity, history
<1>5. ASSUME NEW p \in Procs, ListRipe(p)
      PROVE  CacheTells'
  BY <1>5, ConstantFacts DEF ConstantAssumption, ListRipe, TypeOK, RowsOK, LoopsOK, HistoryOK, CacheTells, history
<1>6. ASSUME NEW p \in Procs, NEW m \in Markets, Ask(p, m)
      PROVE  CacheTells'
  BY <1>6, ConstantFacts DEF ConstantAssumption, Ask, TypeOK, RowsOK, LoopsOK, HistoryOK, CacheTells, Upstream, history
<1>7. ASSUME NEW p \in Procs, Resume(p)
      PROVE  CacheTells'
  BY <1>7, ConstantFacts DEF ConstantAssumption, Resume, TypeOK, RowsOK, LoopsOK, HistoryOK, CacheTells, Answered
<1>8. ASSUME NEW p \in Procs, Purge(p)
      PROVE  CacheTells'
  BY <1>8, ConstantFacts DEF ConstantAssumption, Purge, TypeOK, RowsOK, LoopsOK, HistoryOK, CacheTells, Answered, history
<1>9. ASSUME NEW p \in Procs, SanityFails(p)
      PROVE  CacheTells'
  BY <1>9, ConstantFacts DEF ConstantAssumption, SanityFails, TypeOK, RowsOK, LoopsOK, HistoryOK, CacheTells, Answered, history
<1>10. ASSUME NEW p \in Procs, BackfillTick(p)
      PROVE  CacheTells'
  BY <1>10, ConstantFacts DEF ConstantAssumption, BackfillTick, TypeOK, RowsOK, LoopsOK, HistoryOK, CacheTells, sanity
<1>11. ASSUME NEW p \in Procs, ListJobs(p)
      PROVE  CacheTells'
  BY <1>11, ConstantFacts DEF ConstantAssumption, ListJobs, TypeOK, RowsOK, LoopsOK, HistoryOK, CacheTells, sanity, history
<1>12. ASSUME NEW p \in Procs, NEW m \in Markets, Begin(p, m)
      PROVE  CacheTells'
  BY <1>12, ConstantFacts DEF ConstantAssumption, Begin, TypeOK, RowsOK, LoopsOK, HistoryOK, CacheTells, sanity
<1>13. ASSUME NEW p \in Procs, NEW m \in Markets, Abandon(p, m)
      PROVE  CacheTells'
  BY <1>13, ConstantFacts DEF ConstantAssumption, Abandon, TypeOK, RowsOK, LoopsOK, HistoryOK, CacheTells, sanity, history
<1>14. ASSUME NEW p \in Procs, NEW m \in Markets, NEW end \in {"completed", "partial", "failed"}, Finish(p, m, end)
      PROVE  CacheTells'
  BY <1>14, ConstantFacts DEF ConstantAssumption, Finish, TypeOK, RowsOK, LoopsOK, HistoryOK, CacheTells, sanity, history
<1>15. ASSUME NEW p \in Procs, EndTick(p)
      PROVE  CacheTells'
  BY <1>15, ConstantFacts DEF ConstantAssumption, EndTick, TypeOK, RowsOK, LoopsOK, HistoryOK, CacheTells, sanity, history
<1>16. ASSUME NEW p \in Procs, Crash(p)
      PROVE  CacheTells'
  BY <1>16, ConstantFacts DEF ConstantAssumption, Crash, TypeOK, RowsOK, LoopsOK, HistoryOK, CacheTells
<1>17. ASSUME NEW p \in Procs, Restart(p)
      PROVE  CacheTells'
  BY <1>17, ConstantFacts DEF ConstantAssumption, Restart, TypeOK, RowsOK, LoopsOK, HistoryOK, CacheTells, sanity
<1>18. ASSUME NEW m \in Markets, NEW w \in {"absent", "shown", "tracked"}, Change(m, w)
      PROVE  CacheTells'
  BY <1>18, ConstantFacts DEF ConstantAssumption, Change, TypeOK, RowsOK, LoopsOK, HistoryOK, CacheTells, sanity
<1>19. CASE Tick
  BY <1>19, ConstantFacts DEF ConstantAssumption, Tick, TypeOK, RowsOK, LoopsOK, HistoryOK, CacheTells, sanity, history
<1>20. CASE UNCHANGED vars
  BY <1>20 DEF vars, market, discover, sanity, backfill, history, bounds, TypeOK, RowsOK, LoopsOK, HistoryOK, CacheTells
<1>. QED
  BY <1>1, <1>2, <1>3, <1>4, <1>5, <1>6, <1>7, <1>8, <1>9, <1>10, <1>11, <1>12, <1>13, <1>14, <1>15, <1>16, <1>17, <1>18, <1>19, <1>20, ConstantFacts DEF Next, Discover, Sanity, Backfill, ConstantAssumption

LEMMA Inductive == IInv /\ [Next]_vars => IInv'
BY TypeNext, NoLimboNext, OneWalkNext, CacheTellsNext DEF IInv

\* Liveness of rows, walks and what the caches know, as one invariant.
THEOREM Invariance == Spec => []IInv
<1>1. Init => IInv
  BY TypeInit, InvInit DEF IInv
<1>. QED
  BY <1>1, Inductive, PTL DEF Spec

\* Every stored row is live and unmarked, soft-deleted, or purged.
THEOREM Coherence == Spec => []NoLimbo
<1>1. IInv => NoLimbo
  BY DEF IInv
<1>. QED
  BY <1>1, Invariance, PTL

\* One walk per market, but for a re-queue under a walk and a refused begin.
THEOREM Alone == Spec => []OneWalk
<1>1. IInv => OneWalk
  BY DEF IInv
<1>. QED
  BY <1>1, Invariance, PTL

-----------------------------------------------------------------------------
(* Action properties *)

LEMMA StatusStep ==
    ASSUME IInv, [Next]_vars
    PROVE  \A k \in Markets \ shared : status[k] \in {"completed", "failed"} =>
               status'[k] \in {status[k], "pending"}
<1>1. ASSUME NEW p \in Procs, Sweep(p)
      PROVE  \A k \in Markets \ shared : status[k] \in {"completed", "failed"} =>
               status'[k] \in {status[k], "pending"}
  BY <1>1, ConstantFacts DEF ConstantAssumption, Sweep, IInv, TypeOK, RowsOK, LoopsOK, OneWalk
<1>2. ASSUME NEW p \in Procs, NEW m \in Markets, Upsert(p, m)
      PROVE  \A k \in Markets \ shared : status[k] \in {"completed", "failed"} =>
               status'[k] \in {status[k], "pending"}
  BY <1>2, ConstantFacts DEF ConstantAssumption, Upsert, IInv, TypeOK, RowsOK, LoopsOK, OneWalk
<1>3. ASSUME NEW p \in Procs, MarkInactive(p)
      PROVE  \A k \in Markets \ shared : status[k] \in {"completed", "failed"} =>
               status'[k] \in {status[k], "pending"}
  BY <1>3, ConstantFacts DEF ConstantAssumption, MarkInactive, IInv, TypeOK, RowsOK, LoopsOK, OneWalk
<1>4. ASSUME NEW p \in Procs, PersistFails(p)
      PROVE  \A k \in Markets \ shared : status[k] \in {"completed", "failed"} =>
               status'[k] \in {status[k], "pending"}
  BY <1>4, ConstantFacts DEF ConstantAssumption, PersistFails, IInv, TypeOK, RowsOK, LoopsOK, OneWalk
<1>5. ASSUME NEW p \in Procs, ListRipe(p)
      PROVE  \A k \in Markets \ shared : status[k] \in {"completed", "failed"} =>
               status'[k] \in {status[k], "pending"}
  BY <1>5, ConstantFacts DEF ConstantAssumption, ListRipe, IInv, TypeOK, RowsOK, LoopsOK, OneWalk
<1>6. ASSUME NEW p \in Procs, NEW m \in Markets, Ask(p, m)
      PROVE  \A k \in Markets \ shared : status[k] \in {"completed", "failed"} =>
               status'[k] \in {status[k], "pending"}
  BY <1>6, ConstantFacts DEF ConstantAssumption, Ask, IInv, TypeOK, RowsOK, LoopsOK, OneWalk
<1>7. ASSUME NEW p \in Procs, Resume(p)
      PROVE  \A k \in Markets \ shared : status[k] \in {"completed", "failed"} =>
               status'[k] \in {status[k], "pending"}
  BY <1>7, ConstantFacts DEF ConstantAssumption, Resume, IInv, TypeOK, RowsOK, LoopsOK, OneWalk, Answered
<1>8. ASSUME NEW p \in Procs, Purge(p)
      PROVE  \A k \in Markets \ shared : status[k] \in {"completed", "failed"} =>
               status'[k] \in {status[k], "pending"}
  BY <1>8, ConstantFacts DEF ConstantAssumption, Purge, IInv, TypeOK, RowsOK, LoopsOK, OneWalk
<1>9. ASSUME NEW p \in Procs, SanityFails(p)
      PROVE  \A k \in Markets \ shared : status[k] \in {"completed", "failed"} =>
               status'[k] \in {status[k], "pending"}
  BY <1>9, ConstantFacts DEF ConstantAssumption, SanityFails, IInv, TypeOK, RowsOK, LoopsOK, OneWalk
<1>10. ASSUME NEW p \in Procs, BackfillTick(p)
      PROVE  \A k \in Markets \ shared : status[k] \in {"completed", "failed"} =>
               status'[k] \in {status[k], "pending"}
  BY <1>10, ConstantFacts DEF ConstantAssumption, BackfillTick, IInv, TypeOK, RowsOK, LoopsOK, OneWalk, Stuck
<1>11. ASSUME NEW p \in Procs, ListJobs(p)
      PROVE  \A k \in Markets \ shared : status[k] \in {"completed", "failed"} =>
               status'[k] \in {status[k], "pending"}
  BY <1>11, ConstantFacts DEF ConstantAssumption, ListJobs, IInv, TypeOK, RowsOK, LoopsOK, OneWalk
<1>12. ASSUME NEW p \in Procs, NEW m \in Markets, Begin(p, m)
      PROVE  \A k \in Markets \ shared : status[k] \in {"completed", "failed"} =>
               status'[k] \in {status[k], "pending"}
  BY <1>12, ConstantFacts DEF ConstantAssumption, Begin, IInv, TypeOK, RowsOK, LoopsOK, OneWalk, Startable
<1>13. ASSUME NEW p \in Procs, NEW m \in Markets, Abandon(p, m)
      PROVE  \A k \in Markets \ shared : status[k] \in {"completed", "failed"} =>
               status'[k] \in {status[k], "pending"}
  BY <1>13, ConstantFacts DEF ConstantAssumption, Abandon, IInv, TypeOK, RowsOK, LoopsOK, OneWalk
<1>14. ASSUME NEW p \in Procs, NEW m \in Markets, NEW end \in {"completed", "partial", "failed"}, Finish(p, m, end)
      PROVE  \A k \in Markets \ shared : status[k] \in {"completed", "failed"} =>
               status'[k] \in {status[k], "pending"}
  BY <1>14, ConstantFacts DEF ConstantAssumption, Finish, IInv, TypeOK, RowsOK, LoopsOK, OneWalk
<1>15. ASSUME NEW p \in Procs, EndTick(p)
      PROVE  \A k \in Markets \ shared : status[k] \in {"completed", "failed"} =>
               status'[k] \in {status[k], "pending"}
  BY <1>15, ConstantFacts DEF ConstantAssumption, EndTick, IInv, TypeOK, RowsOK, LoopsOK, OneWalk
<1>16. ASSUME NEW p \in Procs, Crash(p)
      PROVE  \A k \in Markets \ shared : status[k] \in {"completed", "failed"} =>
               status'[k] \in {status[k], "pending"}
  BY <1>16, ConstantFacts DEF ConstantAssumption, Crash, IInv, TypeOK, RowsOK, LoopsOK, OneWalk
<1>17. ASSUME NEW p \in Procs, Restart(p)
      PROVE  \A k \in Markets \ shared : status[k] \in {"completed", "failed"} =>
               status'[k] \in {status[k], "pending"}
  BY <1>17, ConstantFacts DEF ConstantAssumption, Restart, IInv, TypeOK, RowsOK, LoopsOK, OneWalk
<1>18. ASSUME NEW m \in Markets, NEW w \in {"absent", "shown", "tracked"}, Change(m, w)
      PROVE  \A k \in Markets \ shared : status[k] \in {"completed", "failed"} =>
               status'[k] \in {status[k], "pending"}
  BY <1>18, ConstantFacts DEF ConstantAssumption, Change, IInv, TypeOK, RowsOK, LoopsOK, OneWalk
<1>19. CASE Tick
  BY <1>19, ConstantFacts DEF ConstantAssumption, Tick, IInv, TypeOK, RowsOK, LoopsOK, OneWalk
<1>20. CASE UNCHANGED vars
  BY <1>20 DEF vars, market, discover, sanity, backfill, history, bounds, IInv, TypeOK, RowsOK, LoopsOK, OneWalk
<1>. QED
  BY <1>1, <1>2, <1>3, <1>4, <1>5, <1>6, <1>7, <1>8, <1>9, <1>10, <1>11, <1>12, <1>13, <1>14, <1>15, <1>16, <1>17, <1>18, <1>19, <1>20, ConstantFacts DEF Next, Discover, Sanity, Backfill, ConstantAssumption

\* Nobody rewrites the verdict of a backfill but sanity, outside shared rows.
THEOREM VerdictsStick == Spec => StatusSticks
<1>1. IInv /\ [Next]_vars =>
        [\A m \in Markets \ shared : status[m] \in {"completed", "failed"} =>
            status'[m] \in {status[m], "pending"}]_vars
  BY StatusStep
<1>. QED
  BY <1>1, Invariance, PTL DEF Spec, StatusSticks

LEMMA PurgeStep ==
    ASSUME IInv, [Next]_vars
    PROVE  \A q \in swept : StillGone(q)
<1>1. ASSUME NEW p \in Procs, Sweep(p)
      PROVE  \A q \in swept : StillGone(q)
  BY <1>1, ConstantFacts DEF ConstantAssumption, Sweep, IInv, TypeOK, RowsOK, LoopsOK, HistoryOK, CacheTells, StillGone, market
<1>2. ASSUME NEW p \in Procs, NEW m \in Markets, Upsert(p, m)
      PROVE  \A q \in swept : StillGone(q)
  BY <1>2, ConstantFacts DEF ConstantAssumption, Upsert, IInv, TypeOK, RowsOK, LoopsOK, HistoryOK, CacheTells, StillGone
<1>3. ASSUME NEW p \in Procs, MarkInactive(p)
      PROVE  \A q \in swept : StillGone(q)
  BY <1>3, ConstantFacts DEF ConstantAssumption, MarkInactive, IInv, TypeOK, RowsOK, LoopsOK, HistoryOK, CacheTells, StillGone
<1>4. ASSUME NEW p \in Procs, PersistFails(p)
      PROVE  \A q \in swept : StillGone(q)
  BY <1>4, ConstantFacts DEF ConstantAssumption, PersistFails, IInv, TypeOK, RowsOK, LoopsOK, HistoryOK, CacheTells, StillGone, market
<1>5. ASSUME NEW p \in Procs, ListRipe(p)
      PROVE  \A q \in swept : StillGone(q)
  BY <1>5, ConstantFacts DEF ConstantAssumption, ListRipe, IInv, TypeOK, RowsOK, LoopsOK, HistoryOK, CacheTells, StillGone, market
<1>6. ASSUME NEW p \in Procs, NEW m \in Markets, Ask(p, m)
      PROVE  \A q \in swept : StillGone(q)
  BY <1>6, ConstantFacts DEF ConstantAssumption, Ask, IInv, TypeOK, RowsOK, LoopsOK, HistoryOK, CacheTells, StillGone, market
<1>7. ASSUME NEW p \in Procs, Resume(p)
      PROVE  \A q \in swept : StillGone(q)
  BY <1>7, ConstantFacts DEF ConstantAssumption, Resume, IInv, TypeOK, RowsOK, LoopsOK, HistoryOK, CacheTells, StillGone, Answered
<1>8. ASSUME NEW p \in Procs, Purge(p)
      PROVE  \A q \in swept : StillGone(q)
  BY <1>8, ConstantFacts DEF ConstantAssumption, Purge, IInv, TypeOK, RowsOK, LoopsOK, HistoryOK, CacheTells, StillGone, Answered
<1>9. ASSUME NEW p \in Procs, SanityFails(p)
      PROVE  \A q \in swept : StillGone(q)
  BY <1>9, ConstantFacts DEF ConstantAssumption, SanityFails, IInv, TypeOK, RowsOK, LoopsOK, HistoryOK, CacheTells, StillGone, Answered, market
<1>10. ASSUME NEW p \in Procs, BackfillTick(p)
      PROVE  \A q \in swept : StillGone(q)
  BY <1>10, ConstantFacts DEF ConstantAssumption, BackfillTick, IInv, TypeOK, RowsOK, LoopsOK, HistoryOK, CacheTells, StillGone, market
<1>11. ASSUME NEW p \in Procs, ListJobs(p)
      PROVE  \A q \in swept : StillGone(q)
  BY <1>11, ConstantFacts DEF ConstantAssumption, ListJobs, IInv, TypeOK, RowsOK, LoopsOK, HistoryOK, CacheTells, StillGone, market
<1>12. ASSUME NEW p \in Procs, NEW m \in Markets, Begin(p, m)
      PROVE  \A q \in swept : StillGone(q)
  BY <1>12, ConstantFacts DEF ConstantAssumption, Begin, IInv, TypeOK, RowsOK, LoopsOK, HistoryOK, CacheTells, StillGone, market
<1>13. ASSUME NEW p \in Procs, NEW m \in Markets, Abandon(p, m)
      PROVE  \A q \in swept : StillGone(q)
  BY <1>13, ConstantFacts DEF ConstantAssumption, Abandon, IInv, TypeOK, RowsOK, LoopsOK, HistoryOK, CacheTells, StillGone, market
<1>14. ASSUME NEW p \in Procs, NEW m \in Markets, NEW end \in {"completed", "partial", "failed"}, Finish(p, m, end)
      PROVE  \A q \in swept : StillGone(q)
  BY <1>14, ConstantFacts DEF ConstantAssumption, Finish, IInv, TypeOK, RowsOK, LoopsOK, HistoryOK, CacheTells, StillGone, market
<1>15. ASSUME NEW p \in Procs, EndTick(p)
      PROVE  \A q \in swept : StillGone(q)
  BY <1>15, ConstantFacts DEF ConstantAssumption, EndTick, IInv, TypeOK, RowsOK, LoopsOK, HistoryOK, CacheTells, StillGone, market
<1>16. ASSUME NEW p \in Procs, Crash(p)
      PROVE  \A q \in swept : StillGone(q)
  BY <1>16, ConstantFacts DEF ConstantAssumption, Crash, IInv, TypeOK, RowsOK, LoopsOK, HistoryOK, CacheTells, StillGone, market
<1>17. ASSUME NEW p \in Procs, Restart(p)
      PROVE  \A q \in swept : StillGone(q)
  BY <1>17, ConstantFacts DEF ConstantAssumption, Restart, IInv, TypeOK, RowsOK, LoopsOK, HistoryOK, CacheTells, StillGone, market
<1>18. ASSUME NEW m \in Markets, NEW w \in {"absent", "shown", "tracked"}, Change(m, w)
      PROVE  \A q \in swept : StillGone(q)
  BY <1>18, ConstantFacts DEF ConstantAssumption, Change, IInv, TypeOK, RowsOK, LoopsOK, HistoryOK, CacheTells, StillGone, market
<1>19. CASE Tick
  BY <1>19, ConstantFacts DEF ConstantAssumption, Tick, IInv, TypeOK, RowsOK, LoopsOK, HistoryOK, CacheTells, StillGone
<1>20. CASE UNCHANGED vars
  BY <1>20 DEF vars, market, discover, sanity, backfill, history, bounds, IInv, TypeOK, RowsOK, LoopsOK, HistoryOK, CacheTells, StillGone, market
<1>. QED
  BY <1>1, <1>2, <1>3, <1>4, <1>5, <1>6, <1>7, <1>8, <1>9, <1>10, <1>11, <1>12, <1>13, <1>14, <1>15, <1>16, <1>17, <1>18, <1>19, <1>20, ConstantFacts DEF Next, Discover, Sanity, Backfill, ConstantAssumption

\* A purge of a listed market needs a listing that changed, or no sweep at all.
THEOREM PurgesAreJustified == Spec => PurgedWasGone
<1>1. IInv /\ [Next]_vars => [\A p \in swept : StillGone(p)]_vars
  BY PurgeStep
<1>. QED
  BY <1>1, Invariance, PTL DEF Spec, PurgedWasGone
=============================================================================
