-------------------------- MODULE TradeIngestProofs --------------------------
(***************************************************************************)
(* What TradeIngest guarantees for any listing, any number of processes,   *)
(* any page sizes and caps, and any number of faults.                      *)
(***************************************************************************)
EXTENDS TradeIngest, FiniteSetTheorems, TLAPS

ConstantAssumption ==
    /\ Trades \subseteq Nat /\ IsFiniteSet(Trades)
    /\ At \in [Trades -> Nat \ {0}]
    /\ \A t, u \in Trades : t <= u => At[t] <= At[u]
    /\ PageSize \in Nat /\ PageSize > 0 /\ WalkSize \in Nat /\ WalkSize > 0
    /\ MaxOffset \in Nat /\ Lookback \in Nat /\ MaxTime \in Nat
    /\ Walks \in Nat /\ Faults \in Nat

LEMMA ConstantFacts == ConstantAssumption
BY TradesAssumption, LimitsAssumption DEF ConstantAssumption

-----------------------------------------------------------------------------
(* The listing: ranks, and what a page leaves behind *)

LEMMA RankFacts ==
    ASSUME TableOK, NEW t \in published
    PROVE  Rank(t) \in Nat /\ Rank(t) < Cardinality(published)
<1> DEFINE above == {u \in published : u > t}
<1>1. IsFiniteSet(published) /\ t \in Nat
  BY ConstantFacts, FS_Subset DEF TableOK, ConstantAssumption
<1>2. /\ IsFiniteSet(published \ {t})
      /\ Cardinality(published \ {t}) = Cardinality(published) - 1
  BY <1>1, FS_RemoveElement
<1>3. above \subseteq published \ {t}
  BY <1>1
<1>4. IsFiniteSet(above) /\ Cardinality(above) <= Cardinality(published \ {t})
  BY <1>2, <1>3, FS_Subset
<1>5. Cardinality(above) \in Nat /\ Cardinality(published) \in Nat
  BY <1>1, <1>4, FS_CardinalityType
<1>. QED
  BY <1>2, <1>4, <1>5 DEF Rank

\* A lower rank is a newer trade.
LEMMA RankOrder ==
    ASSUME TableOK, NEW t \in published, NEW u \in published, Rank(u) < Rank(t)
    PROVE  At[t] <= At[u]
<1>1. t \in Nat /\ u \in Nat /\ t \in Trades /\ u \in Trades
  BY ConstantFacts DEF TableOK, ConstantAssumption
<1>2. CASE t <= u
  BY <1>1, <1>2, ConstantFacts DEF ConstantAssumption
<1>3. CASE u < t
  <2> DEFINE aboveT == {x \in published : x > t}
             aboveU == {x \in published : x > u}
  <2>1. aboveT \subseteq aboveU
    <3>1. \A x \in published : x \in Nat
      BY ConstantFacts DEF TableOK, ConstantAssumption
    <3>2. \A x \in published : x > t => x > u
      BY <1>1, <1>3, <3>1
    <3>. QED
      BY <3>2
  <2>2. IsFiniteSet(aboveU)
    BY ConstantFacts, FS_Subset DEF TableOK, ConstantAssumption
  <2>3. Cardinality(aboveT) <= Cardinality(aboveU)
    BY <2>1, <2>2, FS_Subset
  <2>4. Rank(t) <= Rank(u)
    BY <2>3 DEF Rank
  <2>. QED
    BY <2>4, RankFacts
<1>. QED
  BY <1>1, <1>2, <1>3

\* New trades only push the others down.
LEMMA RankGrows ==
    ASSUME TableOK, TableOK', published \subseteq published', NEW t \in published
    PROVE  Rank(t) <= Rank(t)'
<1> DEFINE old == {x \in published : x > t}
           new == {x \in published' : x > t}
<1>1. old \subseteq new
  OBVIOUS
<1>2. IsFiniteSet(new)
  BY ConstantFacts, FS_Subset DEF TableOK, ConstantAssumption
<1>3. Cardinality(old) <= Cardinality(new)
  BY <1>1, <1>2, FS_Subset
<1>. QED
  BY <1>3 DEF Rank

\* Nothing that is not before the offset is beyond a page that is not full.
LEMMA ShortPage ==
    ASSUME TableOK, NEW from \in Nat, NEW size \in Nat, Short(from, size),
           NEW t \in published, from <= Rank(t)
    PROVE  t \in Page(from, size)
<1>1. Rank(t) \in Nat /\ Rank(t) < Cardinality(published)
  BY RankFacts
<1>2. Cardinality(published) \in Nat
  BY ConstantFacts, FS_Subset, FS_CardinalityType DEF TableOK, ConstantAssumption
<1>. QED
  BY <1>1, <1>2 DEF Short, Page

\* Every row stays, and the batch and nothing else is added.
LEMMA UpsertFacts ==
    ASSUME NEW S, UpsertBatch(S)
    PROVE  /\ rows \subseteq rows' /\ rows' \subseteq rows \cup S
           /\ \A t : Stored(t) => Stored(t)'
           /\ \A t \in S : Stored(t)'
           /\ OneRowPerKey => OneRowPerKey'
<1>1. PICK W \in SUBSET {t \in S : ~Taken(t)} :
        /\ \A t, u \in W : DedupKey(t) = DedupKey(u) => t = u
        /\ rows' = rows \cup W
        /\ \A t \in S : Stored(t)'
  BY DEF UpsertBatch
<1>2. \A t : Stored(t) => Stored(t)'
  BY <1>1 DEF Stored, DedupKey
<1>3. ASSUME OneRowPerKey PROVE OneRowPerKey'
  <2>1. \A w \in W, r \in rows : DedupKey(r) # DedupKey(w)
    BY <1>1 DEF Taken, Stored
  <2>2. \A r, s \in rows \cup W : DedupKey(r) = DedupKey(s) => r = s
    BY <1>1, <1>3, <2>1 DEF OneRowPerKey
  <2>. QED
    BY <1>1, <2>2 DEF OneRowPerKey, DedupKey
<1>. QED
  BY <1>1, <1>2, <1>3

\* A step that leaves the rows alone leaves what is stored alone.
LEMMA SameRows ==
    ASSUME rows' = rows
    PROVE  \A t : Stored(t)' <=> Stored(t)
BY DEF Stored, DedupKey

-----------------------------------------------------------------------------
(* Type correctness *)

LEMMA TypeInit == Init => TypeOK
<1>. SUFFICES ASSUME Init PROVE TypeOK
  OBVIOUS
<1>1. TableOK
  <2>1. /\ now = 1 /\ published = {} /\ open = TRUE /\ known = FALSE
        /\ rows = {} /\ cursor = 0 /\ walks = 0 /\ faults = 0
    BY DEF Init
  <2>2. 0 \in 0 .. Walks /\ 0 \in 0 .. Faults
    BY ConstantFacts DEF ConstantAssumption
  <2>3. TRUE \in BOOLEAN /\ FALSE \in BOOLEAN
    OBVIOUS
  <2>4. 1 \in Nat /\ 0 \in Nat
    OBVIOUS
  <2>. QED
    BY <2>1, <2>2, <2>3, <2>4, Zenon DEF TableOK
<1>2. PullOK
  BY ConstantFacts DEF Init, PullOK, ConstantAssumption
<1>3. WalkOK
  BY ConstantFacts DEF Init, WalkOK, ConstantAssumption
<1>. QED
  BY <1>1, <1>2, <1>3 DEF TypeOK

LEMMA TableNext ==
    ASSUME TypeOK, [Next]_vars
    PROVE  TableOK'
<1>1. ASSUME NEW p \in Procs, StartPull(p)
      PROVE  TableOK'
  BY <1>1, ConstantFacts DEF ConstantAssumption, StartPull, TypeOK, TableOK, upstream, Fault
<1>2. ASSUME NEW p \in Procs, FetchPage(p)
      PROVE  TableOK'
  BY <1>2, ConstantFacts DEF ConstantAssumption, FetchPage, TypeOK, TableOK, upstream
<1>3. ASSUME NEW p \in Procs, Persist(p)
      PROVE  TableOK'
  <2>1. batch[p] \subseteq published
    BY DEF TypeOK, PullOK
  <2>2. rows' \subseteq rows \cup batch[p]
    BY <1>3, UpsertFacts DEF Persist
  <2>. QED
    BY <1>3, <2>1, <2>2 DEF Persist, TypeOK, TableOK, upstream
<1>4. ASSUME NEW p \in Procs, NotPersisted(p)
      PROVE  TableOK'
  BY <1>4, ConstantFacts DEF ConstantAssumption, NotPersisted, TypeOK, TableOK, upstream
<1>5. ASSUME NEW p \in Procs, PersistFails(p)
      PROVE  TableOK'
  <2>1. PICK S \in SUBSET batch[p] : UpsertBatch(S)
    BY <1>5 DEF PersistFails
  <2>2. S \subseteq published
    BY DEF TypeOK, PullOK
  <2>3. rows' \subseteq rows \cup S
    BY <2>1, UpsertFacts
  <2>. QED
    <3>1. rows' \subseteq published' /\ UNCHANGED upstream /\ UNCHANGED <<known, cursor, walks>>
      BY <1>5, <2>2, <2>3 DEF PersistFails, TypeOK, TableOK, upstream
    <3>2. faults' \in 0 .. Faults
      BY <1>5, ConstantFacts DEF PersistFails, Fault, TypeOK, TableOK, ConstantAssumption
    <3>. QED
      BY <3>1, <3>2 DEF TypeOK, TableOK, upstream
<1>6. ASSUME NEW p \in Procs, AdvanceCursor(p)
      PROVE  TableOK'
  BY <1>6, ConstantFacts DEF ConstantAssumption, AdvanceCursor, TypeOK, TableOK, upstream, PullOK
<1>7. ASSUME NEW p \in Procs, PullFails(p)
      PROVE  TableOK'
  BY <1>7, ConstantFacts DEF ConstantAssumption, PullFails, TypeOK, TableOK, upstream, Fault
<1>8. ASSUME NEW p \in Procs, BeginWalk(p)
      PROVE  TableOK'
  BY <1>8, ConstantFacts DEF ConstantAssumption, BeginWalk, TypeOK, TableOK, upstream
<1>9. ASSUME NEW p \in Procs, WalkPage(p)
      PROVE  TableOK'
  <2>1. rows' \subseteq rows \cup Page(at[p], WalkSize)
    BY <1>9, UpsertFacts DEF WalkPage
  <2>2. Page(at[p], WalkSize) \subseteq published
    BY DEF Page
  <2>. QED
    BY <1>9, <2>1, <2>2 DEF WalkPage, TypeOK, TableOK, upstream
<1>10. ASSUME NEW p \in Procs, WalkFails(p)
      PROVE  TableOK'
  <2>1. PICK S \in SUBSET Page(at[p], WalkSize) : UpsertBatch(S)
    BY <1>10 DEF WalkFails
  <2>2. S \subseteq published
    BY DEF Page
  <2>3. rows' \subseteq rows \cup S
    BY <2>1, UpsertFacts
  <2>. QED
    <3>1. rows' \subseteq published' /\ UNCHANGED upstream /\ UNCHANGED <<known, cursor, walks>>
      BY <1>10, <2>2, <2>3 DEF WalkFails, TypeOK, TableOK, upstream
    <3>2. faults' \in 0 .. Faults
      BY <1>10, ConstantFacts DEF WalkFails, Fault, TypeOK, TableOK, ConstantAssumption
    <3>. QED
      BY <3>1, <3>2 DEF TypeOK, TableOK, upstream
<1>11. ASSUME NEW p \in Procs, Crash(p)
      PROVE  TableOK'
  BY <1>11, ConstantFacts DEF ConstantAssumption, Crash, TypeOK, TableOK, upstream, Fault
<1>12. CASE Tick
  BY <1>12, ConstantFacts DEF ConstantAssumption, Tick, TypeOK, TableOK
<1>13. CASE Close
  BY <1>13, ConstantFacts DEF ConstantAssumption, Close, TypeOK, TableOK
<1>14. CASE Discover
  BY <1>14, ConstantFacts DEF ConstantAssumption, Discover, TypeOK, TableOK, upstream
<1>15. ASSUME NEW t \in Trades, Publish(t)
      PROVE  TableOK'
  BY <1>15, ConstantFacts DEF ConstantAssumption, Publish, TypeOK, TableOK
<1>16. CASE UNCHANGED vars
  BY <1>16 DEF vars, upstream, pull, walker, TypeOK, TableOK
<1>. QED
  BY <1>1, <1>2, <1>3, <1>4, <1>5, <1>6, <1>7, <1>8, <1>9, <1>10, <1>11, <1>12, <1>13, <1>14, <1>15, <1>16 DEF Next, Pull, Walk

LEMMA PullNext ==
    ASSUME TypeOK, [Next]_vars
    PROVE  PullOK'
<1>1. ASSUME NEW p \in Procs, StartPull(p)
      PROVE  PullOK'
  BY <1>1, ConstantFacts DEF ConstantAssumption, StartPull, TypeOK, TableOK, PullOK, upstream, Cursor, Resume
<1>2. ASSUME NEW p \in Procs, FetchPage(p)
      PROVE  PullOK'
  BY <1>2, ConstantFacts DEF ConstantAssumption, FetchPage, TypeOK, TableOK, PullOK, upstream, EndPull, Page, Capped
<1>3. ASSUME NEW p \in Procs, Persist(p)
      PROVE  PullOK'
  BY <1>3, ConstantFacts DEF ConstantAssumption, Persist, TypeOK, TableOK, PullOK, upstream
<1>4. ASSUME NEW p \in Procs, NotPersisted(p)
      PROVE  PullOK'
  BY <1>4, ConstantFacts DEF ConstantAssumption, NotPersisted, TypeOK, TableOK, PullOK, upstream, EndPull
<1>5. ASSUME NEW p \in Procs, PersistFails(p)
      PROVE  PullOK'
  BY <1>5, ConstantFacts DEF ConstantAssumption, PersistFails, TypeOK, TableOK, PullOK, upstream, EndPull
<1>6. ASSUME NEW p \in Procs, AdvanceCursor(p)
      PROVE  PullOK'
  BY <1>6, ConstantFacts DEF ConstantAssumption, AdvanceCursor, TypeOK, TableOK, PullOK, upstream, EndPull
<1>7. ASSUME NEW p \in Procs, PullFails(p)
      PROVE  PullOK'
  BY <1>7, ConstantFacts DEF ConstantAssumption, PullFails, TypeOK, TableOK, PullOK, upstream, EndPull
<1>8. ASSUME NEW p \in Procs, BeginWalk(p)
      PROVE  PullOK'
  BY <1>8, ConstantFacts DEF ConstantAssumption, BeginWalk, TypeOK, TableOK, PullOK, upstream, pull
<1>9. ASSUME NEW p \in Procs, WalkPage(p)
      PROVE  PullOK'
  BY <1>9, ConstantFacts DEF ConstantAssumption, WalkPage, TypeOK, TableOK, PullOK, upstream, pull
<1>10. ASSUME NEW p \in Procs, WalkFails(p)
      PROVE  PullOK'
  BY <1>10, ConstantFacts DEF ConstantAssumption, WalkFails, TypeOK, TableOK, PullOK, upstream, pull
<1>11. ASSUME NEW p \in Procs, Crash(p)
      PROVE  PullOK'
  BY <1>11, ConstantFacts DEF ConstantAssumption, Crash, TypeOK, TableOK, PullOK, upstream, EndPull
<1>12. CASE Tick
  BY <1>12, ConstantFacts DEF ConstantAssumption, Tick, TypeOK, TableOK, PullOK, pull
<1>13. CASE Close
  BY <1>13, ConstantFacts DEF ConstantAssumption, Close, TypeOK, TableOK, PullOK, pull
<1>14. CASE Discover
  BY <1>14, ConstantFacts DEF ConstantAssumption, Discover, TypeOK, TableOK, PullOK, upstream, pull
<1>15. ASSUME NEW t \in Trades, Publish(t)
      PROVE  PullOK'
  BY <1>15, ConstantFacts DEF ConstantAssumption, Publish, TypeOK, TableOK, PullOK, pull
<1>16. CASE UNCHANGED vars
  BY <1>16 DEF vars, upstream, pull, walker, TypeOK, TableOK, PullOK
<1>. QED
  BY <1>1, <1>2, <1>3, <1>4, <1>5, <1>6, <1>7, <1>8, <1>9, <1>10, <1>11, <1>12, <1>13, <1>14, <1>15, <1>16 DEF Next, Pull, Walk

LEMMA WalkNext ==
    ASSUME TypeOK, [Next]_vars
    PROVE  WalkOK'
<1>1. ASSUME NEW p \in Procs, StartPull(p)
      PROVE  WalkOK'
  BY <1>1, ConstantFacts DEF ConstantAssumption, StartPull, TypeOK, TableOK, WalkOK, upstream, walker
<1>2. ASSUME NEW p \in Procs, FetchPage(p)
      PROVE  WalkOK'
  BY <1>2, ConstantFacts DEF ConstantAssumption, FetchPage, TypeOK, TableOK, WalkOK, upstream, walker
<1>3. ASSUME NEW p \in Procs, Persist(p)
      PROVE  WalkOK'
  BY <1>3, ConstantFacts DEF ConstantAssumption, Persist, TypeOK, TableOK, WalkOK, upstream, walker
<1>4. ASSUME NEW p \in Procs, NotPersisted(p)
      PROVE  WalkOK'
  BY <1>4, ConstantFacts DEF ConstantAssumption, NotPersisted, TypeOK, TableOK, WalkOK, upstream, walker
<1>5. ASSUME NEW p \in Procs, PersistFails(p)
      PROVE  WalkOK'
  BY <1>5, ConstantFacts DEF ConstantAssumption, PersistFails, TypeOK, TableOK, WalkOK, upstream, walker
<1>6. ASSUME NEW p \in Procs, AdvanceCursor(p)
      PROVE  WalkOK'
  BY <1>6, ConstantFacts DEF ConstantAssumption, AdvanceCursor, TypeOK, TableOK, WalkOK, upstream, walker
<1>7. ASSUME NEW p \in Procs, PullFails(p)
      PROVE  WalkOK'
  BY <1>7, ConstantFacts DEF ConstantAssumption, PullFails, TypeOK, TableOK, WalkOK, upstream, walker
<1>8. ASSUME NEW p \in Procs, BeginWalk(p)
      PROVE  WalkOK'
  BY <1>8, ConstantFacts DEF ConstantAssumption, BeginWalk, TypeOK, TableOK, WalkOK, upstream
<1>9. ASSUME NEW p \in Procs, WalkPage(p)
      PROVE  WalkOK'
  <2>1. at[p] + WalkSize \in Nat
    BY ConstantFacts DEF TypeOK, WalkOK, ConstantAssumption
  <2>2. \/ EndWalk(p)
        \/ at' = [at EXCEPT ![p] = at[p] + WalkSize] /\ UNCHANGED <<walk, owes>> /\ at[p] + WalkSize <= MaxOffset
    BY <1>9, <2>1, ConstantFacts DEF WalkPage, Capped, ConstantAssumption
  <2>3. owed' \subseteq published /\ published' = published /\ skipped' = skipped
    BY <1>9 DEF WalkPage, Reached, upstream, TypeOK, WalkOK
  <2>. QED
    BY <2>1, <2>2, <2>3, ConstantFacts DEF EndWalk, TypeOK, WalkOK, ConstantAssumption
<1>10. ASSUME NEW p \in Procs, WalkFails(p)
      PROVE  WalkOK'
  BY <1>10, ConstantFacts DEF ConstantAssumption, WalkFails, TypeOK, TableOK, WalkOK, upstream, EndWalk
<1>11. ASSUME NEW p \in Procs, Crash(p)
      PROVE  WalkOK'
  BY <1>11, ConstantFacts DEF ConstantAssumption, Crash, TypeOK, TableOK, WalkOK, upstream, EndWalk
<1>12. CASE Tick
  BY <1>12, ConstantFacts DEF ConstantAssumption, Tick, TypeOK, TableOK, WalkOK, walker
<1>13. CASE Close
  BY <1>13, ConstantFacts DEF ConstantAssumption, Close, TypeOK, TableOK, WalkOK, walker
<1>14. CASE Discover
  BY <1>14, ConstantFacts DEF ConstantAssumption, Discover, TypeOK, TableOK, WalkOK, upstream, walker
<1>15. ASSUME NEW t \in Trades, Publish(t)
      PROVE  WalkOK'
  BY <1>15, ConstantFacts DEF ConstantAssumption, Publish, TypeOK, TableOK, WalkOK, walker
<1>16. CASE UNCHANGED vars
  BY <1>16 DEF vars, upstream, pull, walker, TypeOK, TableOK, WalkOK
<1>. QED
  BY <1>1, <1>2, <1>3, <1>4, <1>5, <1>6, <1>7, <1>8, <1>9, <1>10, <1>11, <1>12, <1>13, <1>14, <1>15, <1>16 DEF Next, Pull, Walk

LEMMA TypeNext == TypeOK /\ [Next]_vars => TypeOK'
BY TableNext, PullNext, WalkNext DEF TypeOK

\* The state stays well-typed, and only listed trades are read or stored.
THEOREM TypeCorrect == Spec => []TypeOK
BY TypeInit, TypeNext, PTL DEF Spec

-----------------------------------------------------------------------------
(* The inductive invariant, conjunct by conjunct *)

LEMMA InvInit == Init => OneRowPerKey /\ Vouched /\ Landed /\ CursorCovers /\ Owing /\ WalkKeeps
BY DEF Init, OneRowPerKey, Vouched, Landed, CursorCovers, Owing, WalkKeeps

LEMMA OneRowPerKeyNext ==
    ASSUME OneRowPerKey, [Next]_vars
    PROVE  OneRowPerKey'
<1>1. CASE UNCHANGED rows
  BY <1>1 DEF OneRowPerKey, DedupKey
<1>2. ASSUME NEW S, UpsertBatch(S) PROVE OneRowPerKey'
  BY <1>2, UpsertFacts
<1>3. UNCHANGED rows \/ \E S : UpsertBatch(S)
  BY DEF Next, vars, Pull, Walk, Tick, Close, Discover, Publish, StartPull, FetchPage, Persist,
         NotPersisted, PersistFails, AdvanceCursor, PullFails, BeginWalk, WalkPage, WalkFails, Crash
<1>. QED
  BY <1>1, <1>2, <1>3

\* What is stored stays stored.
LEMMA StoredStays ==
    ASSUME [Next]_vars
    PROVE  \A t : Stored(t) => Stored(t)'
<1>1. UNCHANGED rows \/ \E S : UpsertBatch(S)
  BY DEF Next, vars, Pull, Walk, Tick, Close, Discover, Publish, StartPull, FetchPage, Persist,
         NotPersisted, PersistFails, AdvanceCursor, PullFails, BeginWalk, WalkPage, WalkFails, Crash
<1>. QED
  BY <1>1, UpsertFacts, SameRows

LEMMA VouchedNext ==
    ASSUME TypeOK, Vouched, [Next]_vars
    PROVE  Vouched'
<1>1. ASSUME NEW p \in Procs, StartPull(p)
      PROVE  Vouched'
  <2>0. Cursor = cursor /\ Resume = cursor + 1
    BY DEF Cursor, Resume
  <2>1. \A t \in published : Rank(t) \in Nat /\ At[t] \in Nat
    BY RankFacts, ConstantFacts DEF TypeOK, TableOK, ConstantAssumption
  <2>2. SUFFICES ASSUME NEW q \in Procs, NEW t \in vouch'[q]
                 PROVE  Vouches(q, t)'
    BY DEF Vouched
  <2>3. CASE q # p
    BY <1>1, <2>3 DEF StartPull, Vouched, Vouches, upstream, Rank, TypeOK, PullOK
  <2>4. CASE q = p
    <3>1. offset'[p] = 0 /\ stage'[p] = "fetch" /\ cursor' = cursor /\ published' = published
      BY <1>1 DEF StartPull, TypeOK, PullOK, upstream
    <3>2. t \in published /\ (At[t] <= cursor \/ At[t] >= since'[p])
      <4>1. \/ since'[p] = cursor + 1 /\ vouch'[p] = published
            \/ since'[p] = now - Lookback /\ vouch'[p] = {x \in published : At[x] >= now - Lookback}
        BY <1>1, <2>0 DEF StartPull, TypeOK, PullOK
      <4>2. t \in published
        BY <2>4, <4>1
      <4>. QED
        BY <2>1, <2>4, <4>1, <4>2 DEF TypeOK, TableOK
    <3>. QED
      BY <2>1, <2>4, <3>1, <3>2 DEF Vouches, Rank
  <2>. QED
    BY <2>3, <2>4
<1>2. ASSUME NEW p \in Procs, FetchPage(p)
      PROVE  Vouched'
  <2> DEFINE page == Page(offset[p], PageSize)
             new  == {t \in page : At[t] >= since[p]}
             nxt  == offset[p] + PageSize
             last == new # page \/ Short(offset[p], PageSize)
             read == batch[p] \cup new
  <2>1. SUFFICES ASSUME NEW q \in Procs, NEW t \in vouch'[q]
                 PROVE  Vouches(q, t)'
    BY DEF Vouched
  <2>2. published' = published /\ cursor' = cursor /\ stage[p] = "fetch"
    BY <1>2 DEF FetchPage, upstream
  <2>3. CASE q # p
    BY <1>2, <2>2, <2>3 DEF FetchPage, EndPull, Vouched, Vouches, Rank, TypeOK, PullOK
  <2>4. CASE q = p /\ EndPull(p)
    BY <2>4 DEF EndPull, TypeOK, PullOK
  <2>5. CASE /\ q = p /\ batch'[p] = read /\ offset'[p] = nxt /\ since' = since
             /\ stage'[p] = IF last \/ Capped(nxt) THEN "persist" ELSE "fetch"
             /\ vouch'[p] = IF last \/ ~Capped(nxt) THEN vouch[p]
                             ELSE {x \in vouch[p] : Rank(x) < nxt}
    <3>1. t \in vouch[p] /\ t \in published
      BY <2>5 DEF TypeOK, PullOK
    <3>2. Rank(t) \in Nat /\ At[t] \in Nat /\ nxt \in Nat /\ offset[p] \in Nat /\ since[p] \in Int
      BY <3>1, RankFacts, ConstantFacts DEF TypeOK, TableOK, PullOK, ConstantAssumption
    <3>3. CASE At[t] <= cursor \/ t \in batch[p]
      BY <2>2, <2>5, <3>3 DEF Vouches
    <3>4. CASE offset[p] <= Rank(t) /\ At[t] >= since[p]
      <4>1. CASE Rank(t) < nxt
        BY <2>5, <3>1, <3>2, <3>4, <4>1 DEF Page, Vouches
      <4>2. CASE nxt <= Rank(t)
        <5>1. ~Short(offset[p], PageSize)
          <6>1. t \notin Page(offset[p], PageSize)
            BY <3>2, <4>2 DEF Page
          <6>. QED
            BY <3>1, <3>2, <3>4, <6>1, ShortPage, ConstantFacts DEF TypeOK, ConstantAssumption
        <5>2. new = page
          <6>1. SUFFICES ASSUME NEW u \in page PROVE At[u] >= since[p]
            OBVIOUS
          <6>2. u \in published /\ Rank(u) \in Nat /\ Rank(u) < nxt /\ At[u] \in Nat
            BY RankFacts, ConstantFacts DEF Page, TypeOK, TableOK, ConstantAssumption
          <6>3. Rank(u) < Rank(t)
            BY <3>2, <4>2, <6>2
          <6>4. At[t] <= At[u]
            BY <3>1, <6>2, <6>3, RankOrder DEF TypeOK
          <6>. QED
            BY <3>2, <3>4, <6>2, <6>4
        <5>3. ~last
          BY <5>1, <5>2
        <5>4. ~Capped(nxt)
          BY <2>5, <3>2, <4>2, <5>3
        <5>5. stage'[p] = "fetch"
          BY <2>5, <3>2, <5>3, <5>4, ConstantFacts DEF ConstantAssumption
        <5>6. Rank(t)' = Rank(t)
          BY <2>2 DEF Rank
        <5>. QED
          BY <2>5, <3>2, <3>4, <4>2, <5>5, <5>6 DEF Vouches
      <4>. QED
        BY <3>2, <4>1, <4>2
    <3>. QED
      BY <3>1, <3>3, <3>4 DEF Vouched, Vouches
  <2>. QED
    BY <1>2, <2>3, <2>4, <2>5, ConstantFacts DEF FetchPage, TypeOK, PullOK, ConstantAssumption
<1>3. ASSUME NEW p \in Procs, Persist(p)
      PROVE  Vouched'
  BY <1>3, ConstantFacts DEF ConstantAssumption, Persist, TypeOK, TableOK, PullOK, Vouched, Vouches, upstream, Rank
<1>4. ASSUME NEW p \in Procs, NotPersisted(p)
      PROVE  Vouched'
  BY <1>4, ConstantFacts DEF ConstantAssumption, NotPersisted, TypeOK, TableOK, PullOK, Vouched, Vouches, upstream, EndPull, Rank
<1>5. ASSUME NEW p \in Procs, PersistFails(p)
      PROVE  Vouched'
  BY <1>5, ConstantFacts DEF ConstantAssumption, PersistFails, TypeOK, TableOK, PullOK, Vouched, Vouches, upstream, EndPull, Rank
<1>6. ASSUME NEW p \in Procs, AdvanceCursor(p)
      PROVE  Vouched'
  <2>1. cursor' \in Nat /\ cursor <= cursor'
    BY <1>6, ConstantFacts DEF AdvanceCursor, RowsFirst, TypeOK, TableOK, PullOK, ConstantAssumption
  <2>2. \A t \in published : At[t] \in Nat
    BY ConstantFacts DEF TypeOK, TableOK, ConstantAssumption
  <2>3. ASSUME NEW q \in Procs, NEW t \in vouch'[q] PROVE Vouches(q, t)'
    <3>1. q # p /\ t \in vouch[q] /\ t \in published
      BY <1>6, <2>3 DEF AdvanceCursor, RowsFirst, EndPull, TypeOK, PullOK
    <3>2. /\ batch'[q] = batch[q] /\ stage'[q] = stage[q]
          /\ offset'[q] = offset[q] /\ since'[q] = since[q]
      BY <1>6, <3>1 DEF AdvanceCursor, RowsFirst, EndPull, TypeOK, PullOK
    <3>3. Rank(t)' = Rank(t)
      BY <1>6 DEF AdvanceCursor, RowsFirst, upstream, Rank
    <3>4. At[t] <= cursor => At[t] <= cursor'
      BY <2>1, <2>2, <3>1 DEF TypeOK, TableOK
    <3>. QED
      BY <3>1, <3>2, <3>3, <3>4 DEF Vouched, Vouches
  <2>. QED
    BY <2>3 DEF Vouched
<1>7. ASSUME NEW p \in Procs, PullFails(p)
      PROVE  Vouched'
  BY <1>7, ConstantFacts DEF ConstantAssumption, PullFails, TypeOK, TableOK, PullOK, Vouched, Vouches, upstream, EndPull, Rank
<1>8. ASSUME NEW p \in Procs, BeginWalk(p)
      PROVE  Vouched'
  BY <1>8, ConstantFacts DEF ConstantAssumption, BeginWalk, TypeOK, TableOK, PullOK, Vouched, Vouches, upstream, pull, Rank
<1>9. ASSUME NEW p \in Procs, WalkPage(p)
      PROVE  Vouched'
  BY <1>9, ConstantFacts DEF ConstantAssumption, WalkPage, TypeOK, TableOK, PullOK, Vouched, Vouches, upstream, pull, Rank
<1>10. ASSUME NEW p \in Procs, WalkFails(p)
      PROVE  Vouched'
  BY <1>10, ConstantFacts DEF ConstantAssumption, WalkFails, TypeOK, TableOK, PullOK, Vouched, Vouches, upstream, pull, Rank
<1>11. ASSUME NEW p \in Procs, Crash(p)
      PROVE  Vouched'
  BY <1>11, ConstantFacts DEF ConstantAssumption, Crash, TypeOK, TableOK, PullOK, Vouched, Vouches, upstream, EndPull, Rank
<1>12. CASE Tick
  BY <1>12, ConstantFacts DEF ConstantAssumption, Tick, TypeOK, TableOK, PullOK, Vouched, Vouches, pull, Rank
<1>13. CASE Close
  BY <1>13, ConstantFacts DEF ConstantAssumption, Close, TypeOK, TableOK, PullOK, Vouched, Vouches, pull, Rank
<1>14. CASE Discover
  BY <1>14, ConstantFacts DEF ConstantAssumption, Discover, TypeOK, TableOK, PullOK, Vouched, Vouches, upstream, pull, Rank
<1>15. ASSUME NEW t \in Trades, Publish(t)
      PROVE  Vouched'
  <2>1. published \subseteq published' /\ TableOK'
    BY <1>15, TableNext DEF Publish, Next
  <2>2. SUFFICES ASSUME NEW q \in Procs, NEW x \in vouch[q]
                 PROVE  Vouches(q, x)'
    BY <1>15 DEF Publish, pull, Vouched
  <2>3. x \in published /\ Rank(x) <= Rank(x)' /\ Rank(x) \in Nat /\ Rank(x)' \in Nat /\ offset[q] \in Nat
    <3>1. x \in published /\ x \in published' /\ offset[q] \in Nat
      BY <2>1 DEF TypeOK, PullOK
    <3>2. Rank(x) <= Rank(x)' /\ Rank(x) \in Nat
      BY <2>1, <3>1, RankGrows, RankFacts DEF TypeOK
    <3>3. Rank(x)' \in Nat
      <4> DEFINE above == {u \in published' : u > x}
      <4>1. IsFiniteSet(above)
        BY <2>1, FS_Subset, ConstantFacts DEF TableOK, ConstantAssumption
      <4>2. Cardinality(above) \in Nat
        BY <4>1, FS_CardinalityType
      <4>. QED
        BY <4>2 DEF Rank
    <3>. QED
      BY <3>1, <3>2, <3>3
  <2>4. Vouches(q, x)
    BY DEF Vouched
  <2>5. UNCHANGED <<cursor, batch, stage, offset, since>>
    BY <1>15 DEF Publish, pull
  <2>6. CASE At[x] <= cursor \/ x \in batch[q]
    BY <2>5, <2>6 DEF Vouches
  <2>7. CASE stage[q] = "fetch" /\ offset[q] <= Rank(x) /\ At[x] >= since[q]
    <3>1. offset[q] <= Rank(x)'
      BY <2>3, <2>7
    <3>. QED
      BY <2>5, <2>7, <3>1 DEF Vouches
  <2>. QED
    BY <2>4, <2>6, <2>7 DEF Vouches
<1>16. CASE UNCHANGED vars
  BY <1>16 DEF vars, upstream, pull, walker, TypeOK, TableOK, PullOK, Vouched, Vouches, Rank
<1>. QED
  BY <1>1, <1>2, <1>3, <1>4, <1>5, <1>6, <1>7, <1>8, <1>9, <1>10, <1>11, <1>12, <1>13, <1>14, <1>15, <1>16 DEF Next, Pull, Walk

LEMMA LandedNext ==
    ASSUME TypeOK, Landed, [Next]_vars
    PROVE  Landed'
<1>1. ASSUME NEW p \in Procs, StartPull(p)
      PROVE  Landed'
  BY <1>1, ConstantFacts DEF ConstantAssumption, StartPull, TypeOK, PullOK, Landed, Stored, DedupKey
<1>2. ASSUME NEW p \in Procs, FetchPage(p)
      PROVE  Landed'
  <2>1. stage'[p] # "cursor"
    BY <1>2 DEF FetchPage, EndPull, TypeOK, PullOK
  <2>2. \A q \in Procs : q # p => stage'[q] = stage[q] /\ batch'[q] = batch[q]
    BY <1>2 DEF FetchPage, EndPull, TypeOK, PullOK
  <2>3. \A t : Stored(t)' <=> Stored(t)
    BY <1>2, SameRows DEF FetchPage
  <2>. QED
    BY <2>1, <2>2, <2>3 DEF Landed
<1>3. ASSUME NEW p \in Procs, Persist(p)
      PROVE  Landed'
  <2>1. \A t \in batch[p] : Stored(t)'
    BY <1>3, UpsertFacts DEF Persist
  <2>2. \A t : Stored(t) => Stored(t)'
    BY <1>3, UpsertFacts DEF Persist
  <2>. QED
    BY <1>3, <2>1, <2>2 DEF Persist, Landed, TypeOK, PullOK
<1>4. ASSUME NEW p \in Procs, NotPersisted(p)
      PROVE  Landed'
  BY <1>4, ConstantFacts DEF ConstantAssumption, NotPersisted, TypeOK, PullOK, Landed, Stored, DedupKey, EndPull
<1>5. ASSUME NEW p \in Procs, PersistFails(p)
      PROVE  Landed'
  <2>1. \A t : Stored(t) => Stored(t)'
    BY <1>5, UpsertFacts DEF PersistFails
  <2>. QED
    BY <1>5, <2>1 DEF PersistFails, EndPull, Landed, TypeOK, PullOK
<1>6. ASSUME NEW p \in Procs, AdvanceCursor(p)
      PROVE  Landed'
  BY <1>6, ConstantFacts DEF ConstantAssumption, AdvanceCursor, TypeOK, PullOK, Landed, Stored, DedupKey, EndPull
<1>7. ASSUME NEW p \in Procs, PullFails(p)
      PROVE  Landed'
  BY <1>7, ConstantFacts DEF ConstantAssumption, PullFails, TypeOK, PullOK, Landed, Stored, DedupKey, EndPull
<1>8. ASSUME NEW p \in Procs, BeginWalk(p)
      PROVE  Landed'
  BY <1>8, ConstantFacts DEF ConstantAssumption, BeginWalk, TypeOK, PullOK, Landed, pull, Stored, DedupKey
<1>9. ASSUME NEW p \in Procs, WalkPage(p)
      PROVE  Landed'
  BY <1>9, StoredStays DEF Next, Walk, WalkPage, pull, Landed
<1>10. ASSUME NEW p \in Procs, WalkFails(p)
      PROVE  Landed'
  BY <1>10, StoredStays DEF Next, Walk, WalkFails, pull, Landed
<1>11. ASSUME NEW p \in Procs, Crash(p)
      PROVE  Landed'
  BY <1>11, ConstantFacts DEF ConstantAssumption, Crash, TypeOK, PullOK, Landed, Stored, DedupKey, EndPull
<1>12. CASE Tick
  BY <1>12, ConstantFacts DEF ConstantAssumption, Tick, TypeOK, PullOK, Landed, pull, Stored, DedupKey
<1>13. CASE Close
  BY <1>13, ConstantFacts DEF ConstantAssumption, Close, TypeOK, PullOK, Landed, pull, Stored, DedupKey
<1>14. CASE Discover
  BY <1>14, ConstantFacts DEF ConstantAssumption, Discover, TypeOK, PullOK, Landed, pull, Stored, DedupKey
<1>15. ASSUME NEW t \in Trades, Publish(t)
      PROVE  Landed'
  BY <1>15, ConstantFacts DEF ConstantAssumption, Publish, TypeOK, PullOK, Landed, pull, Stored, DedupKey
<1>16. CASE UNCHANGED vars
  BY <1>16 DEF vars, upstream, pull, walker, TypeOK, PullOK, Landed, Stored, DedupKey
<1>. QED
  BY <1>1, <1>2, <1>3, <1>4, <1>5, <1>6, <1>7, <1>8, <1>9, <1>10, <1>11, <1>12, <1>13, <1>14, <1>15, <1>16 DEF Next, Pull, Walk

LEMMA CursorCoversNext ==
    ASSUME TypeOK, Vouched, Landed, CursorCovers, [Next]_vars
    PROVE  CursorCovers'
<1>0. \A t : Stored(t) => Stored(t)'
  BY StoredStays
<1>1. CASE UNCHANGED <<published, cursor, skipped>>
  BY <1>0, <1>1 DEF CursorCovers
<1>2. ASSUME NEW t \in Trades, Publish(t)
      PROVE  CursorCovers'
  BY <1>0, <1>2 DEF Publish, CursorCovers
<1>3. ASSUME NEW p \in Procs, AdvanceCursor(p)
      PROVE  CursorCovers'
  <2>1. SUFFICES ASSUME NEW t \in published, t \notin skipped', At[t] <= cursor'
                 PROVE  Stored(t)
    BY <1>0, <1>3 DEF AdvanceCursor, RowsFirst, CursorCovers, upstream
  <2>2. At[t] \in Nat /\ cursor \in Nat
    BY ConstantFacts DEF TypeOK, TableOK, ConstantAssumption
  <2>3. CASE At[t] <= cursor
    BY <1>3, <2>1, <2>3 DEF AdvanceCursor, RowsFirst, CursorCovers
  <2>4. CASE cursor < At[t]
    <3>1. Passed(p, t)
      BY <1>3, <2>1, <2>2, <2>4 DEF AdvanceCursor, RowsFirst, Passed
    <3>2. t \in vouch[p]
      BY <1>3, <2>1, <2>4, <3>1 DEF AdvanceCursor
    <3>3. t \in batch[p]
      BY <1>3, <2>2, <2>4, <3>2 DEF AdvanceCursor, RowsFirst, Vouched, Vouches
    <3>. QED
      BY <1>3, <3>3 DEF AdvanceCursor, RowsFirst, Landed
  <2>. QED
    BY <2>2, <2>3, <2>4
<1>4. \/ UNCHANGED <<published, cursor, skipped>>
      \/ \E t \in Trades : Publish(t)
      \/ \E p \in Procs : AdvanceCursor(p)
  BY DEF Next, vars, upstream, Pull, Walk, Tick, Close, Discover, StartPull, FetchPage, Persist,
         NotPersisted, PersistFails, PullFails, BeginWalk, WalkPage, WalkFails, Crash
<1>. QED
  BY <1>1, <1>2, <1>3, <1>4

\* Nothing owed is left behind by a page.
LEMMA PageOwes ==
    ASSUME TypeOK, Owing, NEW p \in Procs, WalkPage(p), NEW t \in owes[p]
    PROVE  /\ Exhausted(at[p]) => Stored(t)'
           /\ Stored(t)' \/ at[p] + WalkSize <= Rank(t)
<1>1. t \in published /\ at[p] \in Nat /\ Rank(t) \in Nat /\ walk[p] = "page"
  BY RankFacts DEF TypeOK, WalkOK, WalkPage
<1>2. UpsertBatch(Page(at[p], WalkSize))
  BY DEF WalkPage
<1>3. CASE Stored(t)
  BY <1>2, <1>3, UpsertFacts
<1>4. CASE at[p] <= Rank(t)
  <2>1. CASE t \in Page(at[p], WalkSize)
    BY <1>2, <2>1, UpsertFacts
  <2>2. CASE t \notin Page(at[p], WalkSize)
    <3>1. ~Exhausted(at[p])
      BY <1>1, <1>4, <2>2, ShortPage, ConstantFacts DEF Exhausted, TypeOK, ConstantAssumption
    <3>2. at[p] + WalkSize <= Rank(t)
      BY <1>1, <1>4, <2>2, ConstantFacts DEF Page, ConstantAssumption
    <3>. QED
      BY <3>1, <3>2
  <2>. QED
    BY <2>1, <2>2
<1>. QED
  BY <1>1, <1>3, <1>4 DEF Owing

LEMMA OwingNext ==
    ASSUME TypeOK, Owing, [Next]_vars
    PROVE  Owing'
<1>1. ASSUME NEW p \in Procs, StartPull(p)
      PROVE  Owing'
  BY <1>1, StoredStays DEF Next, Pull, StartPull, upstream, walker, Rank, Owing
<1>2. ASSUME NEW p \in Procs, FetchPage(p)
      PROVE  Owing'
  BY <1>2, StoredStays DEF Next, Pull, FetchPage, upstream, walker, Rank, Owing
<1>3. ASSUME NEW p \in Procs, Persist(p)
      PROVE  Owing'
  BY <1>3, StoredStays DEF Next, Pull, Persist, upstream, walker, Rank, Owing
<1>4. ASSUME NEW p \in Procs, NotPersisted(p)
      PROVE  Owing'
  BY <1>4, StoredStays DEF Next, Pull, NotPersisted, upstream, walker, Rank, Owing
<1>5. ASSUME NEW p \in Procs, PersistFails(p)
      PROVE  Owing'
  BY <1>5, StoredStays DEF Next, Pull, PersistFails, upstream, walker, Rank, Owing
<1>6. ASSUME NEW p \in Procs, AdvanceCursor(p)
      PROVE  Owing'
  BY <1>6, StoredStays DEF Next, Pull, AdvanceCursor, upstream, walker, Rank, Owing
<1>7. ASSUME NEW p \in Procs, PullFails(p)
      PROVE  Owing'
  BY <1>7, StoredStays DEF Next, Pull, PullFails, upstream, walker, Rank, Owing
<1>8. ASSUME NEW p \in Procs, BeginWalk(p)
      PROVE  Owing'
  <2>1. \A t \in published : Rank(t) \in Nat
    BY RankFacts DEF TypeOK
  <2>2. \A t : Stored(t) => Stored(t)'
    BY <1>8, SameRows DEF BeginWalk
  <2>. QED
    BY <1>8, <2>1, <2>2 DEF BeginWalk, upstream, Rank, Owing, TypeOK, WalkOK
<1>9. ASSUME NEW p \in Procs, WalkPage(p)
      PROVE  Owing'
  <2>1. \A t : Stored(t) => Stored(t)'
    BY <1>9, UpsertFacts DEF WalkPage
  <2>2. \A t \in owes[p] : Stored(t)' \/ at[p] + WalkSize <= Rank(t)
    BY <1>9, PageOwes
  <2>3. published' = published /\ \A t : Rank(t)' = Rank(t)
    BY <1>9 DEF WalkPage, upstream, Rank
  <2>. QED
    BY <1>9, <2>1, <2>2, <2>3 DEF WalkPage, EndWalk, Owing, TypeOK, WalkOK
<1>10. ASSUME NEW p \in Procs, WalkFails(p)
      PROVE  Owing'
  <2>1. \A t : Stored(t) => Stored(t)'
    BY <1>10, UpsertFacts DEF WalkFails
  <2>. QED
    BY <1>10, <2>1 DEF WalkFails, EndWalk, upstream, Rank, Owing, TypeOK, WalkOK
<1>11. ASSUME NEW p \in Procs, Crash(p)
      PROVE  Owing'
  <2>1. \A t : Stored(t) => Stored(t)'
    BY <1>11, SameRows DEF Crash
  <2>. QED
    BY <1>11, <2>1 DEF Crash, EndWalk, upstream, Rank, Owing, TypeOK, WalkOK
<1>12. CASE Tick
  BY <1>12, StoredStays DEF Next, Tick, walker, Rank, Owing
<1>13. CASE Close
  BY <1>13, StoredStays DEF Next, Close, walker, Rank, Owing
<1>14. CASE Discover
  BY <1>14, StoredStays DEF Next, Pull, Discover, upstream, walker, Rank, Owing
<1>15. ASSUME NEW t \in Trades, Publish(t)
      PROVE  Owing'
  <2>1. published \subseteq published' /\ TableOK'
    BY <1>15, TableNext DEF Publish, Next
  <2>2. \A x : Stored(x) => Stored(x)'
    BY <1>15, SameRows DEF Publish
  <2>3. \A q \in Procs : \A x \in owes[q] : at[q] <= Rank(x) => at[q] <= Rank(x)'
    <3>1. SUFFICES ASSUME NEW q \in Procs, NEW x \in owes[q], at[q] <= Rank(x)
                   PROVE  at[q] <= Rank(x)'
      OBVIOUS
    <3>2. x \in published /\ at[q] \in Nat
      BY DEF TypeOK, WalkOK
    <3>3. Rank(x) <= Rank(x)' /\ Rank(x) \in Nat
      BY <2>1, <3>2, RankGrows, RankFacts DEF TypeOK
    <3>4. Rank(x)' \in Nat
      <4> DEFINE above == {u \in published' : u > x}
      <4>1. IsFiniteSet(above)
        BY <2>1, FS_Subset, ConstantFacts DEF TableOK, ConstantAssumption
      <4>2. Cardinality(above) \in Nat
        BY <4>1, FS_CardinalityType
      <4>. QED
        BY <4>2 DEF Rank
    <3>. QED
      BY <3>1, <3>2, <3>3, <3>4
  <2>. QED
    BY <1>15, <2>2, <2>3 DEF Publish, walker, Owing
<1>16. CASE UNCHANGED vars
  BY <1>16 DEF vars, upstream, pull, walker, Owing, Rank, Stored, DedupKey
<1>. QED
  BY <1>1, <1>2, <1>3, <1>4, <1>5, <1>6, <1>7, <1>8, <1>9, <1>10, <1>11, <1>12, <1>13, <1>14, <1>15, <1>16 DEF Next, Pull, Walk

LEMMA WalkKeepsNext ==
    ASSUME TypeOK, Owing, WalkKeeps, [Next]_vars
    PROVE  WalkKeeps'
<1>0. \A t : Stored(t) => Stored(t)'
  BY StoredStays
<1>1. CASE UNCHANGED owed
  BY <1>0, <1>1 DEF WalkKeeps
<1>2. ASSUME NEW p \in Procs, WalkPage(p)
      PROVE  WalkKeeps'
  <2>1. /\ Exhausted(at[p]) => \A t \in owes[p] : Stored(t)'
        /\ \A t \in owes[p] : Stored(t)' \/ at[p] + WalkSize <= Rank(t)
    BY <1>2, PageOwes
  <2>2. \A t \in owes[p] : Rank(t) < at[p] + WalkSize => Stored(t)'
    <3>1. \A t \in owes[p] : Rank(t) \in Nat
      BY RankFacts DEF TypeOK, WalkOK
    <3>2. at[p] + WalkSize \in Nat
      BY ConstantFacts DEF TypeOK, WalkOK, ConstantAssumption
    <3>. QED
      BY <2>1, <3>1, <3>2
  <2>. QED
    BY <1>0, <1>2, <2>1, <2>2 DEF WalkPage, WalkKeeps, Reached
<1>3. UNCHANGED owed \/ \E p \in Procs : WalkPage(p)
  BY DEF Next, vars, walker, Pull, Walk, Tick, Close, Discover, Publish, StartPull, FetchPage, Persist,
         NotPersisted, PersistFails, AdvanceCursor, PullFails, BeginWalk, WalkFails, Crash
<1>. QED
  BY <1>1, <1>2, <1>3

LEMMA Inductive == IInv /\ [Next]_vars => IInv'
BY TypeNext, OneRowPerKeyNext, VouchedNext, LandedNext, CursorCoversNext, OwingNext, WalkKeepsNext DEF IInv

\* What pulls and walks have read so far accounts for what they claim.
THEOREM Invariance == Spec => []IInv
<1>1. Init => IInv
  BY TypeInit, InvInit DEF IInv
<1>. QED
  BY <1>1, Inductive, PTL DEF Spec

\* However pages overlap and pulls repeat, a key has one row.
THEOREM NoDuplicates == Spec => []OneRowPerKey
<1>1. IInv => OneRowPerKey
  BY DEF IInv
<1>. QED
  BY <1>1, Invariance, PTL

\* A trade the cursor has passed is stored or was skipped in one of the ways
\* the model names.
THEOREM NothingBehindTheCursor == Spec => []CursorCovers
<1>1. IInv => CursorCovers
  BY DEF IInv
<1>. QED
  BY <1>1, Invariance, PTL

\* Growth of the listing opens no gap in a walk by offset.
THEOREM WalksAreComplete == Spec => []WalkKeeps
<1>1. IInv => WalkKeeps
  BY DEF IInv
<1>. QED
  BY <1>1, Invariance, PTL
=============================================================================
