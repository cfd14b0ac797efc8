---------------------------- MODULE PriceDrift ----------------------------
(***************************************************************************)
(* drift.Worker, beside the workers of AlertFollowUp: how far the price    *)
(* moved after a sent alert.  A row is listed while its drift_status is    *)
(* `pending`; the worker looks for one later trade per window that has     *)
(* elapsed, each look on its own clock reading, and writes all windows and *)
(* the status in one statement.  Windows are numbered; age[a] counts those *)
(* that have elapsed since the trade, last[a] is the highest that has a    *)
(* trade at or after its end.                                              *)
(* The drift columns of a row are read and written by this worker only,    *)
(* and it reads no other column that changes: `side` picks, per behaviour, *)
(* whether the workers of AlertFollowUp run or this one does.              *)
(***************************************************************************)
EXTENDS AlertFollowUp

CONSTANTS
    Usable,       \* alerts whose payload carries an outcome token
    N,            \* number of windows; the last one is LongestWindow
    DriftLimit    \* Config.ClaimLimit of the drift worker

ASSUME UsableAssumption == Usable \subseteq Alerts
ASSUME DriftAssumption  == N \in Nat \ {0} /\ DriftLimit \in Nat \ {0}

Windows == 1 .. N
Rest == [at |-> -1, win |-> 0, found |-> {}]   \* no row at work

VARIABLES
    side,                    \* "followup" or "drift"
    age, last,               \* the trade's age and what traded since, in windows
    drift, clv,              \* the row: drift_status, the clv columns that are not NULL
    tick, list, work         \* of a process: its tick, what is left of the list, the row at work

table   == <<age, last, drift, clv>>
process == <<tick, list, work>>
prices  == <<table, process>>
follow  == <<market, row, chat, checks, posts, history>>
all     == <<vars, side, prices>>

DriftInit ==
    /\ age = [a \in Alerts |-> 0]
    /\ last = [a \in Alerts |-> 0]
    /\ drift = [a \in Alerts |-> "pending"]
    /\ clv = [a \in Alerts |-> {}]
    /\ tick = [p \in Procs |-> "rest"]
    /\ list = [p \in Procs |-> {}]
    /\ work = [p \in Procs |-> Rest]

-----------------------------------------------------------------------------
Elapse(a) ==
    /\ age[a] < N
    /\ age' = [age EXCEPT ![a] = @ + 1]
    /\ UNCHANGED <<last, drift, clv, process, faults>>

\* A trade on the same outcome: while the row is at work it may come too late for
\* the windows already looked at.
Trades(a) ==
    /\ last[a] < age[a]
    /\ last' = [last EXCEPT ![a] = age[a]]
    /\ UNCHANGED <<age, drift, clv, process, faults>>

\* The rows ListSentAlertsForDrift returns, before its LIMIT.
Listable(a) == drift[a] = "pending" /\ age[a] > 0

\* ORDER BY sent_at, id.
Oldest == {x \in Alerts \X Alerts : x[1] < x[2]}

\* tick: the list of this round.
List(p) ==
    /\ tick[p] = "rest"
    /\ \E S \in First(DriftLimit, {a \in Alerts : Listable(a)}, Oldest) :
          /\ S # {}
          /\ list' = [list EXCEPT ![p] = S]
    /\ tick' = [tick EXCEPT ![p] = "busy"]
    /\ UNCHANGED <<table, work, faults>>

\* processOne: without a token the row is closed at once.
Take(p, a) ==
    /\ tick[p] = "busy" /\ work[p] = Rest
    /\ a \in list[p]
    /\ \/ /\ a \in Usable
          /\ work' = [work EXCEPT ![p] = [at |-> a, win |-> 1, found |-> {}]]
          /\ UNCHANGED <<drift, clv, list, faults>>
       \/ /\ a \notin Usable
          /\ \/ /\ drift' = [drift EXCEPT ![a] = "unavailable"]
                /\ clv' = [clv EXCEPT ![a] = {}]
                /\ UNCHANGED faults
             \/ Fault /\ UNCHANGED <<drift, clv>>
          /\ list' = [list EXCEPT ![p] = @ \ {a}]
          /\ UNCHANGED work
    /\ UNCHANGED <<age, last, tick>>

\* Mutant: the window of the price is not the one that has elapsed.
TradedBefore(a, w) == age[a] >= w

\* TradePriceAtOrAfter finds a trade.
Traded(a, w) == last[a] >= w

\* One window: skipped before its time, left NULL without a trade or on an error.
Look(p) ==
    /\ work[p] # Rest /\ work[p].win <= N
    /\ LET a == work[p].at
           w == work[p].win IN
          \/ /\ work' = [work EXCEPT ![p].win = w + 1,
                                     ![p].found = IF age[a] >= w /\ Traded(a, w) THEN @ \cup {w} ELSE @]
             /\ UNCHANGED faults
          \/ /\ age[a] >= w /\ Fault
             /\ work' = [work EXCEPT ![p].win = w + 1]
    /\ UNCHANGED <<table, tick, list>>

\* decideStatus, on a clock reading of its own.
Decide(a, found) == IF found # {} THEN "available"
                    ELSE IF age[a] >= N THEN "unavailable" ELSE "pending"

\* MarkDrift: all columns at once, whatever they hold; an error is dropped.
Stamp(p) ==
    /\ work[p] # Rest /\ work[p].win > N
    /\ LET a == work[p].at IN
          /\ \/ /\ drift' = [drift EXCEPT ![a] = Decide(a, work[p].found)]
                /\ clv' = [clv EXCEPT ![a] = work[p].found]
                /\ UNCHANGED faults
             \/ Fault /\ UNCHANGED <<drift, clv>>
          /\ list' = [list EXCEPT ![p] = @ \ {a}]
    /\ work' = [work EXCEPT ![p] = Rest]
    /\ UNCHANGED <<age, last, tick>>

CloseTick(p) ==
    /\ tick[p] = "busy" /\ list[p] = {}
    /\ tick' = [tick EXCEPT ![p] = "rest"]
    /\ UNCHANGED <<table, list, work, faults>>

\* The process dies and starts again.
Dies(p) ==
    /\ tick[p] = "busy"
    /\ Fault
    /\ tick' = [tick EXCEPT ![p] = "rest"]
    /\ list' = [list EXCEPT ![p] = {}]
    /\ work' = [work EXCEPT ![p] = Rest]
    /\ UNCHANGED table

Run(p) == List(p) \/ (\E a \in Alerts : Take(p, a)) \/ Look(p) \/ Stamp(p) \/ CloseTick(p)

DriftNext == \/ \E a \in Alerts : Elapse(a) \/ Trades(a)
             \/ \E p \in Procs : Run(p) \/ Dies(p)

AllInit == Init /\ DriftInit /\ side \in {"followup", "drift"}

Follows(A) == side = "followup" /\ A /\ UNCHANGED <<side, prices>>
Drifts(A)  == side = "drift" /\ A /\ UNCHANGED <<side, follow>>

AllNext == Follows(Next) \/ Drifts(DriftNext)

AllSpec == AllInit /\ [][AllNext]_all

\* The two tickers fire, their calls return and time passes; nothing makes a market
\* end, a trade or a fault happen, and the postmortems may be starved.  As `side`
\* never changes, fairness of the disjunction is fairness of the one that runs.
FairAll == /\ AllSpec
           /\ \A p \in Procs : WF_all(Follows(Outcomes(p)) \/ Drifts(Run(p)))
           /\ \A a \in Alerts : WF_all(Drifts(Elapse(a)))

-----------------------------------------------------------------------------
(* Properties *)

\* The columns and the loop variables, and: a row at work is one of the list.
DriftTypeOK ==
    /\ side \in {"followup", "drift"}
    /\ age \in [Alerts -> 0 .. N] /\ last \in [Alerts -> 0 .. N]
    /\ drift \in [Alerts -> {"pending", "available", "unavailable"}]
    /\ clv \in [Alerts -> SUBSET Windows]
    /\ tick \in [Procs -> {"rest", "busy"}]
    /\ list \in [Procs -> SUBSET Alerts]
    /\ work \in [Procs -> [at : Alerts, win : 1 .. N + 1, found : SUBSET Windows] \cup {Rest}]
    /\ \A p \in Procs : work[p] # Rest => work[p].at \in list[p] /\ tick[p] = "busy"

\* Every number in a row rests on a trade at or after its window, also when the
\* clock and the trades move between two looks; the status agrees with the numbers.
NumbersAreBacked ==
    \A a \in Alerts : /\ clv[a] \subseteq 1 .. last[a]
                      /\ drift[a] = "available" <=> clv[a] # {}

\* Again and again nothing is owed to any alert.  Its verdict: every alert whose
\* market is over has one, also while another alert's lookup fails for ever ("a
\* single alert that keeps failing the upstream lookup doesn't starve fresher
\* candidates").  Its drift: neither an error, nor a crash, nor older rows that fill
\* the list while they wait for a trade keep a row pending.
NothingOwed ==
    []<>(/\ side = "followup" => \A a \in Alerts \ Broken :
                due[MarketOf[a]] /\ Gamma(a) # "open" => outcome[a] # "pending"
         /\ side = "drift" => \A a \in Alerts : drift[a] # "pending")
=============================================================================
