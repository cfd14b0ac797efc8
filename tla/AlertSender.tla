---------------------------- MODULE AlertSender ----------------------------
(***************************************************************************)
(* The delivery queue: rows of polymarket_alerts, and the sender processes *)
(* (alertsender.Worker) that claim them, post them to Telegram and record  *)
(* the answer.  A process runs one drain at a time: it returns stale       *)
(* `sending` rows to `pending`, starts its goroutines, and waits for all   *)
(* of them; each goroutine claims one batch and sends it row by row.       *)
(* Processes share nothing but the table.  Any process may crash or be     *)
(* stopped between any two steps, and any answer may be lost.              *)
(*                                                                         *)
(* Time is kept relative: age[a] is how long a has been `sending`,         *)
(* retry[a] how long until next_retry_at; Tick moves both.                 *)
(***************************************************************************)
EXTENDS Integers, FiniteSets

CONSTANTS
    Alerts,          \* row ids, in the order of created_at
    Unreadable,      \* the alerts whose payload does not unmarshal
    Procs, Threads,  \* sender processes and their goroutines
    ProcOf,          \* the process a goroutine belongs to
    ClaimLimit,      \* Config.ClaimLimit
    StaleAfter,      \* Config.StaleSendingAfter
    RetryEnabled, MaxAttempts, InitialBackoff, MaxBackoff, Jitter,
    Faults,          \* model bound: crashes, stops and lost answers of a behaviour
    Slow,            \* model bound: resets that hit a row a goroutine still works on
    None             \* "no alert"

ASSUME AlertsAssumption  == Alerts \subseteq Nat /\ IsFiniteSet(Alerts) /\ None \notin Alerts
ASSUME ProcOfAssumption  == ProcOf \in [Threads -> Procs]
ASSUME LimitsAssumption  == /\ ClaimLimit \in Nat \ {0}
                            /\ MaxAttempts \in Nat \ {0}
                            /\ StaleAfter \in Nat
                            /\ Faults \in Nat
                            /\ Slow \in Nat
ASSUME BackoffAssumption == /\ RetryEnabled \in BOOLEAN
                            /\ InitialBackoff \in Nat
                            /\ MaxBackoff \in Nat
                            /\ Jitter \in Nat
ASSUME UnreadableAssumption == Unreadable \subseteq Alerts

NoRetry == -1   \* next_retry_at IS NULL

VARIABLES
    status, attempts, retry, age,   \* the row: status, send_attempts, next_retry_at, NOW()-updated_at
    mode,                           \* of a process
    pc, batch, snap, cur,           \* of a goroutine: what it claimed, as it was when claimed
    delivered, muted,               \* what Telegram accepted, and what the router or guard swallowed
    unconfirmed, overrun, tries,    \* history: see the actions that set them
    faults, slow                    \* what is left of the two bounds

row     == <<status, attempts, retry, age>>
thread  == <<pc, batch, snap, cur>>
history == <<delivered, muted, unconfirmed, overrun, tries>>
vars    == <<row, mode, thread, history, faults, slow>>

Init ==
    /\ status = [a \in Alerts |-> "none"]
    /\ attempts = [a \in Alerts |-> 0]
    /\ retry = [a \in Alerts |-> NoRetry]
    /\ age = [a \in Alerts |-> 0]
    /\ mode = [p \in Procs |-> "idle"]
    /\ pc = [t \in Threads |-> "done"]
    /\ batch = [t \in Threads |-> {}]
    /\ snap = [t \in Threads |-> [a \in Alerts |-> 0]]
    /\ cur = [t \in Threads |-> None]
    /\ delivered = [a \in Alerts |-> 0]
    /\ muted = {}
    /\ unconfirmed = {}
    /\ overrun = {}
    /\ tries = [a \in Alerts |-> 0]
    /\ faults = Faults
    /\ slow = Slow

Mine(p)  == {t \in Threads : ProcOf[t] = p}
Stopping(t) == mode[ProcOf[t]] = "stopping"
Held(a)  == \E t \in Threads : a \in batch[t]

\* A step that only faults can take uses up one of the bounded faults.
Fault == faults > 0 /\ faults' = faults - 1

\* A call cut short: by the cancelled context of a stopping process, or by a fault.
Cut(t) == IF Stopping(t) THEN UNCHANGED faults ELSE Fault

-----------------------------------------------------------------------------
(* The rows *)

\* TryCreatePendingAlert, called by detect; created_at grows with the id.
Create(a) ==
    /\ status[a] = "none"
    /\ \A b \in Alerts : b < a => status[b] # "none"
    /\ status' = [status EXCEPT ![a] = "pending"]
    /\ UNCHANGED <<attempts, retry, age, mode, thread, history, faults, slow>>

\* Mutant: no recovery of rows a dead sender left behind.
NeverStale(a) == FALSE

\* The rows ResetStaleSendingAlerts returns to pending.
Stale(a)  == status[a] = "sending" /\ age[a] > StaleAfter

\* Mutant: the claim itself takes over stale rows, as the detection queue's does.
ClaimableOrStale(a) == \/ status[a] = "pending"
                       \/ status[a] = "failed" /\ retry[a] = 0
                       \/ Stale(a)

\* The rows ClaimPendingAlertsForSend may pick.
Claimable(a) == \/ status[a] = "pending"
                \/ status[a] = "failed" /\ retry[a] = 0

\* ORDER BY created_at LIMIT n, over the rows no concurrent claim has locked.
Oldest(n, S) ==
    {T \in SUBSET S :
        /\ \A x \in T, y \in S \ T : x < y
        /\ \/ T = S /\ Cardinality(S) <= n
           \/ Cardinality(S) > n /\ Cardinality(T) = n}

\* Mutant: the Mark statements without their guard.
AnyStatus(a) == status[a] # "none"

\* WHERE status = 'sending', the only guard of the two Mark statements.
StillSending(a) == status[a] = "sending"

-----------------------------------------------------------------------------
(* A process *)

\* drain: ResetStaleSending, which may fail and is then only logged, and the
\* goroutines start.  A row reset while a goroutine still works on it is overrun.
Drain(p) ==
    /\ mode[p] = "idle"
    /\ mode' = [mode EXCEPT ![p] = "draining"]
    /\ pc' = [t \in Threads |-> IF ProcOf[t] = p THEN "claim" ELSE pc[t]]
    /\ \/ LET S == {a \in Alerts : Stale(a)} IN
          /\ status' = [a \in Alerts |-> IF a \in S THEN "pending" ELSE status[a]]
          /\ age' = [a \in Alerts |-> IF a \in S THEN 0 ELSE age[a]]
          /\ overrun' = overrun \cup {a \in S : Held(a)}
          /\ IF \E a \in S : Held(a) THEN slow > 0 /\ slow' = slow - 1 ELSE UNCHANGED slow
          /\ UNCHANGED faults
       \/ Fault /\ UNCHANGED <<status, age, overrun, slow>>
    /\ UNCHANGED <<attempts, retry, batch, snap, cur, delivered, muted, unconfirmed, tries>>

\* wg.Wait returns, and Run waits for its ticker or for ctx.Done.
EndDrain(p) ==
    /\ mode[p] \in {"draining", "stopping"}
    /\ \A t \in Mine(p) : pc[t] = "done"
    /\ mode' = [mode EXCEPT ![p] = IF @ = "draining" THEN "idle" ELSE "down"]
    /\ UNCHANGED <<row, thread, history, faults, slow>>

\* SIGTERM cancels ctx: goroutines notice at their next step.
Stop(p) ==
    /\ mode[p] \in {"idle", "draining"}
    /\ Fault
    /\ mode' = [mode EXCEPT ![p] = "stopping"]
    /\ UNCHANGED <<row, thread, history, slow>>

\* The alert Telegram has accepted but whose row does not say so yet.
Owed(t) == IF pc[t] \in {"accepted", "confirm"} THEN {cur[t]} ELSE {}

\* The process dies and everything it held in memory is gone.
Crash(p) ==
    /\ mode[p] # "down"
    /\ Fault
    /\ mode' = [mode EXCEPT ![p] = "down"]
    /\ pc' = [t \in Threads |-> IF ProcOf[t] = p THEN "done" ELSE pc[t]]
    /\ batch' = [t \in Threads |-> IF ProcOf[t] = p THEN {} ELSE batch[t]]
    /\ snap' = [t \in Threads |-> IF ProcOf[t] = p THEN [a \in Alerts |-> 0] ELSE snap[t]]
    /\ cur' = [t \in Threads |-> IF ProcOf[t] = p THEN None ELSE cur[t]]
    /\ unconfirmed' = unconfirmed \cup UNION {Owed(t) : t \in Mine(p)}
    /\ UNCHANGED <<row, delivered, muted, overrun, tries, slow>>

\* The supervisor restarts it (restart: unless-stopped).
Start(p) ==
    /\ mode[p] = "down"
    /\ mode' = [mode EXCEPT ![p] = "idle"]
    /\ UNCHANGED <<row, thread, history, faults, slow>>

-----------------------------------------------------------------------------
(* A goroutine *)

\* ClaimPending: the rows become `sending` in one statement.  With an error the
\* goroutine gives up its drain; the statement may still have committed.
Claim(t) ==
    /\ pc[t] = "claim"
    /\ ~Stopping(t)
    /\ \E S \in Oldest(ClaimLimit, {a \in Alerts : Claimable(a)}) :
          /\ status' = [a \in Alerts |-> IF a \in S THEN "sending" ELSE status[a]]
          /\ age' = [a \in Alerts |-> IF a \in S THEN 0 ELSE age[a]]
          /\ \/ /\ batch' = [batch EXCEPT ![t] = S]
                /\ snap' = [snap EXCEPT ![t] = [a \in Alerts |-> IF a \in S THEN attempts[a] ELSE 0]]
                /\ pc' = [pc EXCEPT ![t] = "loop"]
                /\ UNCHANGED faults
             \/ /\ Fault
                /\ pc' = [pc EXCEPT ![t] = "done"]
                /\ UNCHANGED <<batch, snap>>
    /\ UNCHANGED <<attempts, retry, mode, cur, history, slow>>

\* drainOne returns: no row left, ctx cancelled, or the claim failed.  The rows
\* it has not reached stay `sending`.
Leave(t) ==
    /\ \/ pc[t] = "loop" /\ (batch[t] = {} \/ Stopping(t))
       \/ pc[t] = "claim" /\ Stopping(t)
    /\ pc' = [pc EXCEPT ![t] = "done"]
    /\ batch' = [batch EXCEPT ![t] = {}]
    /\ snap' = [snap EXCEPT ![t] = [a \in Alerts |-> 0]]
    /\ UNCHANGED <<row, mode, cur, history, faults, slow>>

\* A claim that fails without committing.
ClaimFails(t) ==
    /\ pc[t] = "claim"
    /\ Fault
    /\ pc' = [pc EXCEPT ![t] = "done"]
    /\ UNCHANGED <<row, mode, batch, snap, cur, history, slow>>

\* send, up to the request to Telegram: a payload that does not unmarshal is a
\* permanent failure; stamping, the analyst note and the attribution row do
\* not touch the queue and never stop the send.  RETURNING has no order.
Begin(t, a) ==
    /\ pc[t] = "loop" /\ ~Stopping(t)
    /\ a \in batch[t]
    /\ cur' = [cur EXCEPT ![t] = a]
    /\ \/ /\ a \in Unreadable
          /\ pc' = [pc EXCEPT ![t] = "give_up"]
          /\ UNCHANGED tries
       \/ /\ a \notin Unreadable
          /\ pc' = [pc EXCEPT ![t] = "sending"]
          /\ tries' = [tries EXCEPT ![a] = @ + 1]
    /\ UNCHANGED <<row, mode, batch, snap, delivered, muted, unconfirmed, overrun, faults, slow>>

\* Telegram accepts the message: a reader of the chat sees it from here on.
Accept(t) ==
    /\ pc[t] = "sending"
    /\ pc' = [pc EXCEPT ![t] = "accepted"]
    /\ delivered' = [delivered EXCEPT ![cur[t]] = @ + 1]
    /\ UNCHANGED <<row, mode, batch, snap, cur, muted, unconfirmed, overrun, tries, faults, slow>>

\* A 2xx answer, read or not.
Acknowledge(t) ==
    /\ pc[t] = "accepted"
    /\ pc' = [pc EXCEPT ![t] = "confirm"]
    /\ UNCHANGED <<row, mode, batch, snap, cur, history, faults, slow>>

\* Router.Send or Guard.SendHTML drops the message and reports success.
Suppress(t) ==
    /\ pc[t] = "sending"
    /\ pc' = [pc EXCEPT ![t] = "swallowed"]
    /\ muted' = muted \cup {cur[t]}
    /\ UNCHANGED <<row, mode, batch, snap, cur, delivered, unconfirmed, overrun, tries, faults, slow>>

\* An error answer, permanent (isPermanentError) or transient.  Telegram may
\* have accepted the message all the same (the connection breaks).
Refuse(t) ==
    /\ \/ /\ pc[t] = "sending"
          /\ \E end \in {"failed", "give_up"} : pc' = [pc EXCEPT ![t] = end]
          /\ UNCHANGED <<unconfirmed, faults>>
       \/ /\ pc[t] = "accepted" /\ Fault
          /\ pc' = [pc EXCEPT ![t] = "failed"]
          /\ unconfirmed' = unconfirmed \cup {cur[t]}
    /\ UNCHANGED <<row, mode, batch, snap, cur, delivered, muted, overrun, tries, slow>>

\* The goroutine is done with its current row.
Release(t) ==
    /\ pc' = [pc EXCEPT ![t] = "loop"]
    /\ batch' = [batch EXCEPT ![t] = @ \ {cur[t]}]
    /\ snap' = [snap EXCEPT ![t][cur[t]] = 0]
    /\ cur' = [cur EXCEPT ![t] = None]

\* Mutant: a deadline taken for an answer.
AbandonAsSent(t) ==
    /\ pc[t] \in {"sending", "accepted"}
    /\ Cut(t)
    /\ pc' = [pc EXCEPT ![t] = "confirm"]
    /\ UNCHANGED <<row, mode, batch, snap, cur, history, slow>>

\* The request ends with context.Canceled or, after the client's timeout, with
\* DeadlineExceeded: send returns and leaves the row as it is.
Abandon(t) ==
    /\ pc[t] \in {"sending", "accepted"}
    /\ Cut(t)
    /\ Release(t)
    /\ unconfirmed' = unconfirmed \cup Owed(t)
    /\ UNCHANGED <<row, mode, delivered, muted, overrun, tries, slow>>

\* MarkSent.
MarkSent(t) ==
    /\ pc[t] \in {"confirm", "swallowed"} /\ ~Stopping(t)
    /\ LET a == cur[t] IN
          IF StillSending(a)
          THEN /\ status' = [status EXCEPT ![a] = "sent"]
               /\ retry' = [retry EXCEPT ![a] = NoRetry]
               /\ age' = [age EXCEPT ![a] = 0]
          ELSE UNCHANGED <<status, retry, age>>
    /\ Release(t)
    /\ UNCHANGED <<attempts, mode, history, faults, slow>>

\* backoff: doubling from InitialBackoff, capped, then jittered.
Doubled[n \in Nat \ {0}] ==
    IF n = 1 THEN InitialBackoff
    ELSE LET d == 2 * Doubled[n - 1] IN IF d > MaxBackoff THEN MaxBackoff ELSE d
Delays(n) == {d \in 0 .. (Doubled[n] + Jitter) : d >= Doubled[n] - Jitter}

\* Mutant: the cap compared with the wrong count.
OneTooMany(n) == ~RetryEnabled \/ n > MaxAttempts

\* No retry after attempt n.
Exhausted(n) == ~RetryEnabled \/ n >= MaxAttempts

\* scheduleRetry: the possible next_retry_at of a failed attempt, computed from
\* send_attempts as it was when the row was claimed.
NextRetry(t, permanent) ==
    LET n == snap[t][cur[t]] + 1 IN
    IF permanent \/ Exhausted(n) THEN {NoRetry} ELSE Delays(n)

\* MarkFailed, with the retry scheduled from the claimed copy of the row.
MarkFailed(t) ==
    /\ pc[t] \in {"failed", "give_up"} /\ ~Stopping(t)
    /\ LET a == cur[t] IN
          IF StillSending(a)
          THEN /\ status' = [status EXCEPT ![a] = "failed"]
               /\ attempts' = [attempts EXCEPT ![a] = @ + 1]
               /\ \E r \in NextRetry(t, pc[t] = "give_up") : retry' = [retry EXCEPT ![a] = r]
               /\ age' = [age EXCEPT ![a] = 0]
          ELSE UNCHANGED <<status, attempts, retry, age>>
    /\ Release(t)
    /\ UNCHANGED <<mode, history, faults, slow>>

\* MarkSent or MarkFailed errs and is only logged; with ctx cancelled it always does.
MarkLost(t) ==
    /\ pc[t] \in {"confirm", "swallowed", "failed", "give_up"}
    /\ Cut(t)
    /\ Release(t)
    /\ unconfirmed' = unconfirmed \cup Owed(t)
    /\ UNCHANGED <<row, mode, delivered, muted, overrun, tries, slow>>

-----------------------------------------------------------------------------
\* age[a] stops once the row is stale: nothing tells older rows apart.
Ageing(a) == status[a] = "sending" /\ age[a] <= StaleAfter

Tick ==
    /\ \E a \in Alerts : retry[a] > 0 \/ Ageing(a)
    /\ age' = [a \in Alerts |-> IF Ageing(a) THEN age[a] + 1 ELSE age[a]]
    /\ retry' = [a \in Alerts |-> IF retry[a] > 0 THEN retry[a] - 1 ELSE retry[a]]
    /\ UNCHANGED <<status, attempts, mode, thread, history, faults, slow>>

Work(t) == \/ Claim(t) \/ Leave(t) \/ ClaimFails(t)
           \/ \E a \in Alerts : Begin(t, a)
           \/ Accept(t) \/ Acknowledge(t) \/ Suppress(t) \/ Refuse(t) \/ Abandon(t)
           \/ MarkSent(t) \/ MarkFailed(t) \/ MarkLost(t)

Run(p) == Drain(p) \/ EndDrain(p) \/ Start(p)

Next == \/ \E a \in Alerts : Create(a)
        \/ \E p \in Procs : Run(p) \/ Stop(p) \/ Crash(p)
        \/ \E t \in Threads : Work(t)
        \/ Tick

Spec == Init /\ [][Next]_vars

\* Goroutines run, the ticker fires, a dead process is restarted, time passes.
\* Nothing makes a fault happen, and faults are finitely many.
FairSpec == /\ Spec
            /\ \A p \in Procs : WF_vars(Run(p))
            /\ \A t \in Threads : WF_vars(Work(t))
            /\ WF_vars(Tick)

-----------------------------------------------------------------------------
(* Properties *)

States == {"done", "claim", "loop", "sending", "accepted", "confirm",
           "swallowed", "failed", "give_up"}

RowsOK ==
    /\ status \in [Alerts -> {"none", "pending", "sending", "sent", "failed"}]
    /\ attempts \in [Alerts -> Nat]
    /\ retry \in [Alerts -> Nat \cup {NoRetry}]
    /\ age \in [Alerts -> Nat]

ThreadsOK ==
    /\ pc \in [Threads -> States]
    /\ batch \in [Threads -> SUBSET Alerts]
    /\ snap \in [Threads -> [Alerts -> Nat]]
    /\ cur \in [Threads -> Alerts \cup {None}]
    /\ \A t \in Threads : pc[t] \notin {"done", "claim", "loop"} => cur[t] \in batch[t]

HistoryOK ==
    /\ delivered \in [Alerts -> Nat]
    /\ tries \in [Alerts -> Nat]
    /\ muted \subseteq Alerts /\ unconfirmed \subseteq Alerts /\ overrun \subseteq Alerts
    /\ faults \in Nat /\ slow \in Nat

\* The columns, modes and program counters, and: a goroutine past the choice of
\* a row works on a row of its batch.
TypeOK == /\ RowsOK
          /\ mode \in [Procs -> {"idle", "draining", "stopping", "down"}]
          /\ ThreadsOK
          /\ HistoryOK

\* A row that no reset took from a working goroutine has at most one goroutine
\* working on it, and is `sending` as long as it has (FOR UPDATE SKIP LOCKED plus
\* the status flip: "concurrent senders see disjoint batches").
Exclusive ==
    \A a \in Alerts \ overrun : \A t \in Threads : a \in batch[t] =>
        /\ status[a] = "sending"
        /\ \A u \in Threads : a \in batch[u] => u = t

\* Every second copy of an alert in the chat has one of two causes: Telegram's
\* acceptance was lost before it was recorded, or the row was reset under a
\* goroutine that outlived StaleSendingAfter.
DuplicateHasCause ==
    \A a \in Alerts : delivered[a] > 1 => a \in unconfirmed \cup overrun

\* What a closed row says is so: `sent` was accepted by Telegram or dropped by
\* the router, and `failed` for good was never seen, but for the same two causes.
Closed(a) == status[a] = "sent" \/ (status[a] = "failed" /\ retry[a] = NoRetry)

ClosedRowsAreTrue ==
    \A a \in Alerts : Closed(a) =>
        IF status[a] = "sent" THEN delivered[a] > 0 \/ a \in muted
        ELSE delivered[a] > 0 => a \in unconfirmed \cup overrun

\* send_attempts never passes MaxAttempts and a retry is scheduled only below it,
\* although the retry is computed from the copy read at claim time.
RetryBudget ==
    \A a \in Alerts \ overrun :
        /\ attempts[a] <= MaxAttempts
        /\ status[a] = "failed" /\ retry[a] # NoRetry => attempts[a] < MaxAttempts

\* However long a batch takes, a drain never resets a row that a goroutine of its
\* own process works on: only a second process can.
OwnDrainNeverOverruns ==
    [][\A p \in Procs : mode[p] = "idle" /\ mode'[p] = "draining" =>
          \A a \in overrun' \ overrun, t \in Mine(p) : a \notin batch[t]]_vars

\* The table is a work queue: rows go out only from the queue, come back only
\* from a sender, and a closed row is never touched again.
Stage(a) == CASE status[a] = "none" -> "absent"
              [] status[a] = "sending" -> "out"
              [] Closed(a) -> "closed"
              [] OTHER -> "ready"
Queue == INSTANCE WorkQueue WITH Items <- Alerts, stage <- [a \in Alerts |-> Stage(a)]
ImplementsQueue == Queue!Spec

\* Every alert is closed sooner or later, once faults stop: no crash, lost answer
\* or failed statement leaves a row behind for good.
EveryAlertCloses == \A a \in Alerts : (status[a] # "none") ~> Closed(a)

(* The inductive invariant behind the safety properties (AlertSenderProofs) *)

\* Between drains no goroutine of a process holds a row.
RestsEmpty ==
    \A t \in Threads :
        /\ mode[ProcOf[t]] \in {"idle", "down"} => pc[t] = "done"
        /\ pc[t] \in {"done", "claim"} => batch[t] = {}

\* The claimed copy of send_attempts is the row's.
FreshSnapshots ==
    \A a \in Alerts \ overrun : \A t \in Threads :
        a \in batch[t] => snap[t][a] = attempts[a]

\* A row that may still be sent has an attempt left.
AttemptsLeft ==
    \A a \in Alerts \ overrun :
        /\ attempts[a] <= MaxAttempts
        /\ ~Closed(a) => attempts[a] < MaxAttempts

\* A copy whose acceptance was not lost is recorded, or about to be.
Recorded ==
    \A a \in Alerts \ (unconfirmed \cup overrun) :
        /\ delivered[a] <= 1
        /\ delivered[a] = 1 =>
              \/ status[a] = "sent"
              \/ \E t \in Threads : cur[t] = a /\ pc[t] \in {"accepted", "confirm"}

\* A confirmation has something to confirm.
Evidence ==
    /\ \A t \in Threads : pc[t] \in {"accepted", "confirm"} => delivered[cur[t]] > 0
    /\ \A t \in Threads : pc[t] = "swallowed" => cur[t] \in muted
    /\ \A a \in Alerts : status[a] = "sent" => delivered[a] > 0 \/ a \in muted

IInv == /\ TypeOK
        /\ RestsEmpty
        /\ Exclusive
        /\ FreshSnapshots
        /\ AttemptsLeft
        /\ Recorded
        /\ Evidence
=============================================================================
