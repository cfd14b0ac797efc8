--------------------------- MODULE DetectionQueue ---------------------------
(***************************************************************************)
(* The detection queue: rows of polymarket_trades, the detection workers   *)
(* that lease them, and the alert rows detect.Loop inserts on the way.     *)
(* A tick frees leases older than ClaimTTL, starts the goroutines, and     *)
(* waits for them; each goroutine claims batch after batch until a claim   *)
(* comes back empty.  A claim may also take a row whose lease has expired, *)
(* and the statement that stamps a verdict asks for nothing but the id.    *)
(*                                                                         *)
(* Time is relative: lease[t] is the age of the claim, old[t] of the trade *)
(* itself; both stop one past the only threshold that is ever compared.    *)
(***************************************************************************)
EXTENDS Integers, FiniteSets

CONSTANTS
    Trades,          \* row ids, in the order of traded_at
    Markets, MarketOf,
    Keys, KeyOf,     \* dedup_key of the single-trade alert a trade gives rise to
    Poison,          \* trades on which Observe may panic
    Procs, Threads, ProcOf,
    ClaimLimit, ClaimTTL,
    MaxLag,          \* Config.StaleThreshold and detect's LiveAlertMaxLag, one setting
    Faults,          \* model bound: crashes, stops, failed or unanswered statements
    Slow,            \* model bound: leases taken from a goroutine still at work
    None

ASSUME TradesAssumption == Trades \subseteq Nat /\ IsFiniteSet(Trades) /\ None \notin Trades
ASSUME MapsAssumption   == /\ MarketOf \in [Trades -> Markets]
                           /\ KeyOf \in [Trades -> Keys]
                           /\ ProcOf \in [Threads -> Procs]
                           /\ Poison \subseteq Trades
ASSUME LimitsAssumption == /\ ClaimLimit \in Nat \ {0}
                           /\ ClaimTTL \in Nat
                           /\ MaxLag \in Nat
                           /\ Faults \in Nat
                           /\ Slow \in Nat

Unclaimed == -1   \* detection_claimed_at IS NULL

VARIABLES
    verdict, lease, old,             \* the row: detection_status, age of the claim, now - traded_at
    stored,                          \* alert rows per dedup_key
    mode, cache,                     \* a process and its market cache
    known, listed,                   \* markets some sweep has persisted, and those of the last sweep
    pc, batch, late, cur,            \* a goroutine; late: what was too old when the batch arrived
    looks, gated, wanted,            \* history: Observe runs, and what the last one decided
    lostStamps, unstored, overrun,   \* history: marks and alerts that failed, leases taken over
    faultsLeft, slow

row     == <<verdict, lease, old>>
thread  == <<pc, batch, late, cur>>
seen    == <<looks, gated, wanted, lostStamps, unstored, overrun>>
proc    == <<mode, cache, known, listed>>
detectionVars == <<row, stored, proc, thread, seen, faultsLeft, slow>>

DetectionInit ==
    /\ verdict = [t \in Trades |-> "none"]
    /\ lease = [t \in Trades |-> Unclaimed]
    /\ old = [t \in Trades |-> 0]
    /\ stored = [k \in Keys |-> 0]
    /\ mode = [p \in Procs |-> "idle"]
    /\ cache = [p \in Procs |-> {}]
    /\ known = {} /\ listed = {}
    /\ pc = [g \in Threads |-> "done"]
    /\ batch = [g \in Threads |-> {}]
    /\ late = [g \in Threads |-> {}]
    /\ cur = [g \in Threads |-> None]
    /\ looks = [t \in Trades |-> 0]
    /\ gated = {} /\ wanted = {} /\ lostStamps = {} /\ unstored = {} /\ overrun = {}
    /\ faultsLeft = Faults
    /\ slow = Slow

Mine(p)     == {g \in Threads : ProcOf[g] = p}
Stopping(g) == mode[ProcOf[g]] = "stopping"
Held(t)     == \E g \in Threads : t \in batch[g]
TooOld(t)   == old[t] > MaxLag

\* A step that only faults can take uses up one of the bounded faults.
Mishap == faultsLeft > 0 /\ faultsLeft' = faultsLeft - 1

\* A call cut short: by the cancelled context of a stopping process, or by a fault.
Cut(g) == IF Stopping(g) THEN UNCHANGED faultsLeft ELSE Mishap

\* Taking the leases of rows S: the ones that have run out under a goroutine
\* still at work are overrun.
Overrun(S) ==
    LET O == {t \in S : Held(t) /\ lease[t] > ClaimTTL} IN
    /\ overrun' = overrun \cup O
    /\ IF O # {} THEN slow > 0 /\ slow' = slow - 1 ELSE UNCHANGED slow

-----------------------------------------------------------------------------
(* The table *)

\* A trade of a persisted market is stored by collect or backfill, at any age.
Arrive(t, age) ==
    /\ verdict[t] = "none"
    /\ MarketOf[t] \in known
    /\ verdict' = [verdict EXCEPT ![t] = "pending"]
    /\ old' = [old EXCEPT ![t] = age]
    /\ UNCHANGED <<lease, stored, proc, thread, seen, faultsLeft, slow>>

\* Mutant: no expiry in the claim and none in the reset.
NeverExpired(t) == FALSE

\* A lease that has run out: WHERE detection_claimed_at < NOW() - ttl.
Expired(t) == verdict[t] = "pending" /\ lease[t] > ClaimTTL

\* WHERE detected_at IS NULL AND (claimed IS NULL OR claimed < NOW() - ttl).
Claimable(t) == \/ verdict[t] = "pending" /\ lease[t] = Unclaimed
                \/ Expired(t)

\* ORDER BY traded_at DESC LIMIT n, over the rows no concurrent claim has locked.
Newest(n, S) ==
    {T \in SUBSET S :
        /\ \A x \in T, y \in S \ T : x > y
        /\ \/ T = S /\ Cardinality(S) <= n
           \/ Cardinality(S) > n /\ Cardinality(T) = n}

\* Mutant: the lease is returned and the row not stamped.
LeaseOnly(t, v) ==
    /\ lease' = [lease EXCEPT ![t] = Unclaimed]
    /\ UNCHANGED <<verdict, old>>

\* MarkTradeDetectionResult: WHERE id = trade_id, whatever the row says.
Mark(t, v) ==
    /\ verdict' = [verdict EXCEPT ![t] = v]
    /\ lease' = [lease EXCEPT ![t] = Unclaimed]
    /\ UNCHANGED old

-----------------------------------------------------------------------------
(* A process *)

\* discover: the sweep replaces the cache, then persists the markets, which may fail.
Sweep(p, S) ==
    /\ mode[p] \in {"idle", "draining"}
    /\ cache' = [cache EXCEPT ![p] = S]
    /\ listed' = S
    /\ known' \in {known, known \cup S}
    /\ UNCHANGED <<row, stored, mode, thread, seen, faultsLeft, slow>>

\* tick: ResetStaleDetectionClaims, whose failure is only logged, then drainLoops.
StartTick(p) ==
    /\ mode[p] = "idle"
    /\ mode' = [mode EXCEPT ![p] = "draining"]
    /\ pc' = [g \in Threads |-> IF ProcOf[g] = p THEN "claim" ELSE pc[g]]
    /\ \/ LET S == {t \in Trades : Expired(t)} IN
          /\ lease' = [t \in Trades |-> IF t \in S THEN Unclaimed ELSE lease[t]]
          /\ Overrun(S)
          /\ UNCHANGED faultsLeft
       \/ Mishap /\ UNCHANGED <<lease, overrun, slow>>
    /\ UNCHANGED <<verdict, old, stored, cache, known, listed, batch, late, cur,
                   looks, gated, wanted, lostStamps, unstored>>

\* wg.Wait returns; a process told to stop ends here and its memory with it.
EndTick(p) ==
    /\ mode[p] \in {"draining", "stopping"}
    /\ \A g \in Mine(p) : pc[g] = "done"
    /\ mode' = [mode EXCEPT ![p] = IF @ = "draining" THEN "idle" ELSE "down"]
    /\ cache' = [cache EXCEPT ![p] = IF mode[p] = "draining" THEN @ ELSE {}]
    /\ UNCHANGED <<row, stored, known, listed, thread, seen, faultsLeft, slow>>

\* SIGTERM cancels ctx.
Stop(p) ==
    /\ mode[p] \in {"idle", "draining"}
    /\ Mishap
    /\ mode' = [mode EXCEPT ![p] = "stopping"]
    /\ UNCHANGED <<row, stored, cache, known, listed, thread, seen, slow>>

\* The trade Observe has looked at and whose verdict is not stamped.
SeenOnly(g) == IF pc[g] \in {"insert", "stamp", "failed"} THEN {cur[g]} ELSE {}

Crash(p) ==
    /\ mode[p] # "down"
    /\ Mishap
    /\ mode' = [mode EXCEPT ![p] = "down"]
    /\ cache' = [cache EXCEPT ![p] = {}]
    /\ pc' = [g \in Threads |-> IF ProcOf[g] = p THEN "done" ELSE pc[g]]
    /\ batch' = [g \in Threads |-> IF ProcOf[g] = p THEN {} ELSE batch[g]]
    /\ late' = [g \in Threads |-> IF ProcOf[g] = p THEN {} ELSE late[g]]
    /\ cur' = [g \in Threads |-> IF ProcOf[g] = p THEN None ELSE cur[g]]
    /\ lostStamps' = lostStamps \cup UNION {SeenOnly(g) : g \in Mine(p)}
    /\ UNCHANGED <<row, stored, known, listed, looks, gated, wanted, unstored, overrun, slow>>

\* The supervisor restarts it, with an empty market cache.
Start(p) ==
    /\ mode[p] = "down"
    /\ mode' = [mode EXCEPT ![p] = "idle"]
    /\ UNCHANGED <<row, stored, cache, known, listed, thread, seen, faultsLeft, slow>>

-----------------------------------------------------------------------------
(* A goroutine *)

\* `now` is read once per batch, when it arrives.
TooLate(S) == {t \in S : TooOld(t)}

\* ClaimUndetectedTrades, one statement; no row ends the drain.  With an error
\* the goroutine gives up, and the statement may still have committed.
Claim(g) ==
    /\ pc[g] = "claim"
    /\ ~Stopping(g)
    /\ \E S \in Newest(ClaimLimit, {t \in Trades : Claimable(t)}) :
          /\ lease' = [t \in Trades |-> IF t \in S THEN 0 ELSE lease[t]]
          /\ Overrun(S)
          /\ \/ /\ batch' = [batch EXCEPT ![g] = S]
                /\ late' = [late EXCEPT ![g] = TooLate(S)]
                /\ pc' = [pc EXCEPT ![g] = IF S = {} THEN "done" ELSE "loop"]
                /\ UNCHANGED faultsLeft
             \/ /\ Mishap
                /\ pc' = [pc EXCEPT ![g] = "done"]
                /\ UNCHANGED <<batch, late>>
    /\ UNCHANGED <<verdict, old, stored, proc, cur, looks, gated, wanted, lostStamps, unstored>>

\* A claim that fails without committing, or is never made because ctx is done.
ClaimNothing(g) ==
    /\ pc[g] = "claim"
    /\ Cut(g)
    /\ pc' = [pc EXCEPT ![g] = "done"]
    /\ UNCHANGED <<row, stored, proc, batch, late, cur, seen, slow>>

\* processOne returns and the loop claims again.
NextBatch(g) ==
    /\ pc[g] = "loop" /\ batch[g] = {}
    /\ pc' = [pc EXCEPT ![g] = "claim"]
    /\ UNCHANGED <<row, stored, proc, batch, late, cur, seen, faultsLeft, slow>>

\* handle: a market missing from the cache is final, whatever the reason.
Take(g, t) ==
    /\ pc[g] = "loop"
    /\ t \in batch[g]
    /\ cur' = [cur EXCEPT ![g] = t]
    /\ pc' = [pc EXCEPT ![g] = IF MarketOf[t] \in cache[ProcOf[g]] THEN "observe" ELSE "unknown"]
    /\ UNCHANGED <<row, stored, proc, batch, late, seen, faultsLeft, slow>>

\* Mutant: the panic is recovered and forgotten.
Forgotten == "stamp"

\* safeObserve turns a panic into an error.
Recovered == "failed"

\* How Observe may end: on a Poison trade it may panic.
Ending(g) == {"stamp"} \cup {Recovered : t \in Poison \cap {cur[g]}}

\* Observe up to the decision: the lag gate by its own clock, then the gates and
\* scores, whose answer depends on baselines and is left open.
Observe(g) ==
    /\ pc[g] = "observe" /\ ~Stopping(g)
    /\ looks' = [looks EXCEPT ![cur[g]] = @ + 1]
    /\ \/ /\ TooOld(cur[g])
          /\ gated' = gated \cup {cur[g]} /\ wanted' = wanted \ {cur[g]}
          /\ pc' = [pc EXCEPT ![g] = "stamp"]
       \/ /\ ~TooOld(cur[g])
          /\ gated' = gated \ {cur[g]} /\ wanted' = wanted \ {cur[g]}
          /\ \E end \in Ending(g) : pc' = [pc EXCEPT ![g] = end]
       \/ /\ ~TooOld(cur[g])
          /\ gated' = gated \ {cur[g]} /\ wanted' = wanted \cup {cur[g]}
          /\ \/ pc' = [pc EXCEPT ![g] = "insert"]
             \/ cur[g] \in Poison /\ pc' = [pc EXCEPT ![g] = Recovered]
    /\ UNCHANGED <<row, stored, proc, batch, late, cur, lostStamps, unstored, overrun, faultsLeft, slow>>

\* persistAlert: ON CONFLICT (dedup_key) DO NOTHING.  An error is logged, Observe
\* returns nothing, and the trade is stamped all the same.
Insert(g) ==
    /\ pc[g] = "insert" /\ ~Stopping(g)
    /\ \/ /\ stored' = [stored EXCEPT ![KeyOf[cur[g]]] = IF @ = 0 THEN 1 ELSE @]
          /\ UNCHANGED <<unstored, faultsLeft>>
       \/ /\ Mishap
          /\ unstored' = unstored \cup {cur[g]}
          /\ UNCHANGED stored
    /\ \E end \in Ending(g) : pc' = [pc EXCEPT ![g] = end]
    /\ UNCHANGED <<row, proc, batch, late, cur, looks, gated, wanted, lostStamps, overrun, slow>>

\* The goroutine is done with its current row.
Release(g) ==
    /\ pc' = [pc EXCEPT ![g] = "loop"]
    /\ batch' = [batch EXCEPT ![g] = @ \ {cur[g]}]
    /\ late' = [late EXCEPT ![g] = @ \ {cur[g]}]
    /\ cur' = [cur EXCEPT ![g] = None]

\* The verdict: `failed` after a panic, `too_old` by the time the batch arrived.
Verdict(g) ==
    CASE pc[g] = "unknown" -> "unknown"
      [] pc[g] = "failed"  -> "failed"
      [] pc[g] = "stamp"   -> IF cur[g] \in late[g] THEN "too_old" ELSE "analyzed"

Stamp(g) ==
    /\ pc[g] \in {"unknown", "failed", "stamp"} /\ ~Stopping(g)
    /\ Mark(cur[g], Verdict(g))
    /\ Release(g)
    /\ UNCHANGED <<stored, proc, seen, faultsLeft, slow>>

\* The statement fails and is only logged; with ctx cancelled every call Observe
\* makes fails too, and the row keeps its lease.
StampLost(g) ==
    /\ \/ pc[g] \in {"unknown", "failed", "stamp"}
       \/ pc[g] \in {"observe", "insert"} /\ Stopping(g)
    /\ Cut(g)
    /\ lostStamps' = lostStamps \cup SeenOnly(g)
    /\ Release(g)
    /\ UNCHANGED <<row, stored, proc, looks, gated, wanted, unstored, overrun, slow>>

-----------------------------------------------------------------------------
Leased(t) == lease[t] # Unclaimed /\ lease[t] <= ClaimTTL
Aging(t)  == verdict[t] = "pending" /\ old[t] <= MaxLag

Clock ==
    /\ \E t \in Trades : Leased(t) \/ Aging(t)
    /\ lease' = [t \in Trades |-> IF Leased(t) THEN lease[t] + 1 ELSE lease[t]]
    /\ old' = [t \in Trades |-> IF Aging(t) THEN old[t] + 1 ELSE old[t]]
    /\ UNCHANGED <<verdict, stored, proc, thread, seen, faultsLeft, slow>>

Work(g) == \/ Claim(g) \/ ClaimNothing(g) \/ NextBatch(g)
           \/ \E t \in Trades : Take(g, t)
           \/ Observe(g) \/ Insert(g) \/ Stamp(g) \/ StampLost(g)

Run(p) == StartTick(p) \/ EndTick(p) \/ Start(p)

DetectionNext ==
    \/ \E t \in Trades, age \in 0 .. MaxLag + 1 : Arrive(t, age)
    \/ \E p \in Procs : Run(p) \/ Stop(p) \/ Crash(p)
    \/ \E p \in Procs, S \in SUBSET Markets : Sweep(p, S)
    \/ \E g \in Threads : Work(g)
    \/ Clock

DetectionSpec == DetectionInit /\ [][DetectionNext]_detectionVars

\* The ticker fires, goroutines run, a dead process is restarted, time passes.
\* Sweeps need no fairness: a row is decided with or without its market.
FairDetection ==
    /\ DetectionSpec
    /\ \A p \in Procs : WF_detectionVars(Run(p))
    /\ \A g \in Threads : WF_detectionVars(Work(g))
    /\ WF_detectionVars(Clock)

-----------------------------------------------------------------------------
(* Properties *)

Final == {"analyzed", "too_old", "unknown", "failed"}

RowsOK ==
    /\ verdict \in [Trades -> {"none", "pending"} \cup Final]
    /\ lease \in [Trades -> Nat \cup {Unclaimed}]
    /\ old \in [Trades -> Nat]
    /\ stored \in [Keys -> Nat]
    /\ \A t \in Trades : lease[t] # Unclaimed => verdict[t] = "pending"

ProcsOK ==
    /\ mode \in [Procs -> {"idle", "draining", "stopping", "down"}]
    /\ cache \in [Procs -> SUBSET Markets]
    /\ known \subseteq Markets /\ listed \subseteq Markets

ThreadsOK ==
    /\ pc \in [Threads -> {"done", "claim", "loop", "unknown", "observe", "insert", "stamp", "failed"}]
    /\ batch \in [Threads -> SUBSET Trades]
    /\ late \in [Threads -> SUBSET Trades]
    /\ cur \in [Threads -> Trades \cup {None}]
    /\ \A g \in Threads : pc[g] \notin {"done", "claim", "loop"} => cur[g] \in batch[g]

HistoryOK ==
    /\ looks \in [Trades -> Nat]
    /\ gated \subseteq Trades /\ wanted \subseteq Trades /\ lostStamps \subseteq Trades
    /\ unstored \subseteq Trades /\ overrun \subseteq Trades
    /\ faultsLeft \in Nat /\ slow \in Nat

\* Types, and two facts of the columns: only a pending row has a lease ("a row can
\* never enter a completed but still leased state"), and a goroutine past the
\* choice of a row works on a row of its batch.
DetectionOK == RowsOK /\ ProcsOK /\ ThreadsOK /\ HistoryOK

\* A row whose lease nobody took over is pending and leased as long as a goroutine
\* has it, and no other goroutine has it: FOR UPDATE SKIP LOCKED and the lease
\* together keep batches disjoint.
Exclusive ==
    \A t \in Trades \ overrun : \A g \in Threads : t \in batch[g] =>
        /\ verdict[t] = "pending" /\ lease[t] # Unclaimed
        /\ \A h \in Threads : t \in batch[h] => h = g

\* A trade goes through Observe a second time for one of two reasons only: the
\* verdict of the first time was lost, or its lease ran out under the goroutine.
SecondLookHasCause ==
    \A t \in Trades : looks[t] > 1 => t \in lostStamps \cup overrun

\* `analyzed` means analysed: Observe ran, and if it decided to alert, the alert
\* row is there, unless its insert failed.  No crash between the two loses it.
AnalyzedTellsTheAlert ==
    \A t \in Trades \ overrun : verdict[t] = "analyzed" =>
        /\ looks[t] > 0
        /\ t \in wanted /\ t \notin unstored => stored[KeyOf[t]] > 0

\* `skipped: too_old` is never stamped on a trade Observe took for fresh, although
\* the worker compares an earlier reading of the clock than the gate does.
TooOldWasGated ==
    \A t \in Trades \ overrun : verdict[t] = "too_old" => t \in gated

\* The last word on a trade is not changed by a goroutine that comes too late,
\* unless its lease had run out: the stamp itself does not look.
VerdictIsFinal ==
    [][\A t \in Trades : verdict[t] \in Final /\ t \notin overrun => verdict'[t] = verdict[t]]_detectionVars

\* Every stored trade gets a verdict, once faults stop: no crash, failed claim or
\* failed stamp leaves a row leased for good.
EveryTradeDecided == \A t \in Trades : (verdict[t] # "none") ~> (verdict[t] \in Final)

(* The inductive invariant behind the safety properties (DetectionQueueProofs) *)

\* Between ticks no goroutine of a process has a row.
RestsEmpty ==
    \A g \in Threads :
        /\ mode[ProcOf[g]] \in {"idle", "down"} => pc[g] = "done"
        /\ pc[g] \in {"done", "claim"} => batch[g] = {}

\* A batch holds stored rows; what was too old when it arrived still is.
LateIsOld ==
    \A g \in Threads :
        /\ \A t \in batch[g] : verdict[t] # "none"
        /\ late[g] \subseteq {t \in batch[g] : TooOld(t)}

\* A trade Observe has seen and that still has no verdict is in the hands of the
\* goroutine that ran Observe, or its stamp was lost.
LooksCounted ==
    \A t \in Trades \ (lostStamps \cup overrun) :
        /\ looks[t] <= 1
        /\ looks[t] = 1 => \/ verdict[t] \in Final
                           \/ \E g \in Threads : t \in SeenOnly(g)

\* What a goroutine about to stamp has behind it.
StampHasGround ==
    \A g \in Threads : cur[g] \notin overrun =>
        /\ pc[g] = "insert" => looks[cur[g]] > 0 /\ cur[g] \notin late[g]
        /\ pc[g] = "stamp" =>
              /\ looks[cur[g]] > 0
              /\ cur[g] \in late[g] => cur[g] \in gated
              /\ cur[g] \in wanted /\ cur[g] \notin unstored => stored[KeyOf[cur[g]]] > 0

IInv == /\ DetectionOK
        /\ RestsEmpty
        /\ Exclusive
        /\ LateIsOld
        /\ LooksCounted
        /\ StampHasGround
        /\ AnalyzedTellsTheAlert
        /\ TooOldWasGated
=============================================================================
