-------------------------- MODULE RealtimeTriggers --------------------------
(***************************************************************************)
(* The consumer of the realtime stream: realtime.Worker.handle stores each *)
(* event, turns it into rows of the realtime work queue by comparing it    *)
(* with the live row of its market, and only then overwrites that row.     *)
(* One goroutine handles the events one by one; every statement may fail,  *)
(* and the process may end between any two of them.                        *)
(***************************************************************************)
EXTENDS Integers, Sequences, FiniteSets

CONSTANTS
    Conditions, NoMarket,  \* the markets' condition ids, and the empty one
    Events,             \* what may come: kind, market, mid and price, 0 for absent
    Trigger,            \* PriceMoveTrigger, per cent
    Bucket,             \* the length of a dedupe bucket
    Cooldown,           \* by reason: RepricingTriggerCooldown, PredictionRefreshCooldown
    MaxTime, MaxEvents, MaxFaults  \* model bounds

Quotes == {"book", "price_change", "best_bid_ask"}
Spaced == {"price_move", "book_change"}
Never == -1

ASSUME EventsAssumption ==
    /\ NoMarket \notin Conditions
    /\ Events \subseteq [kind : Quotes \cup {"last_trade_price", "market_resolved", "tick_size_change"},
                         market : Conditions \cup {NoMarket}, mid : Nat, price : Nat]
ASSUME TimesAssumption ==
    /\ Trigger \in Nat \ {0} /\ Bucket \in Nat \ {0}
    /\ Cooldown \in [Spaced -> Nat \ {0}] /\ Cooldown["price_move"] <= Cooldown["book_change"]
    /\ MaxTime \in Nat /\ MaxEvents \in Nat /\ MaxFaults \in Nat

VARIABLES
    now,
    audit,              \* polymarket_ws_events: how many rows it has
    liveMid,            \* polymarket_live_market_state: the mid of a market, 0 when it has none
    work,              \* polymarket_realtime_work_queue, which nothing drains
    stamp,              \* lastRepriceTrig and lastPredictTrig
    job,                \* the event in hand
    events, faults, life,   \* events received, failures so far, restarts so far
    jumped, lost        \* history, by market: the last jump handled, the last one a failure hid

memory  == <<stamp, job>>
history == <<jumped, lost>>
triggerVars    == <<now, audit, liveMid, work, memory, events, faults, life, history>>

Idle == [step |-> "idle"]

\* A row for a move of m is asked for and not yet inserted.
InHand(m) == job.step = "tell" /\ job.ev.market = m /\ job.due # <<>> /\ Head(job.due) = "price_move"

TriggersInit ==
    /\ now = 0 /\ audit = 0
    /\ liveMid = [m \in Conditions |-> 0]
    /\ work = {}
    /\ stamp = [r \in Spaced |-> [m \in Conditions |-> Never]]
    /\ job = Idle
    /\ events = 0 /\ faults = 0 /\ life = 0
    /\ jumped = [m \in Conditions |-> Never] /\ lost = [m \in Conditions |-> Never]

Fault == faults < MaxFaults /\ faults' = faults + 1

Tick ==
    /\ now < MaxTime
    /\ now' = now + 1
    /\ UNCHANGED <<audit, liveMid, work, memory, events, faults, life, history>>

-----------------------------------------------------------------------------
(* handle *)

Absolute(x) == IF x < 0 THEN -x ELSE x

\* priceMoveExceedsThreshold: an event without a mid is judged by its price.
Moves(e, known) ==
    LET current == IF e.mid # 0 THEN e.mid ELSE e.price IN
    /\ e.kind \in Quotes /\ current > 0 /\ known > 0
    /\ 100 * Absolute(current - known) >= Trigger * known

\* The decoder's event leaves the channel; whether it is a jump is history.
Receive(e) ==
    /\ job = Idle /\ events < MaxEvents
    /\ events' = events + 1
    /\ job' = [step |-> "persist", ev |-> e, at |-> now, due |-> <<>>,
               jump |-> e.market # NoMarket /\ Moves(e, IF e.market \in Conditions THEN liveMid[e.market] ELSE 0)]
    /\ UNCHANGED <<now, audit, liveMid, work, stamp, faults, life, history>>

\* persistEvent: the audit row, or a failure that is only logged.  An event
\* without a market ends here.
Persist ==
    /\ job.step = "persist"
    /\ \/ audit' = audit + 1 /\ UNCHANGED faults
       \/ Fault /\ UNCHANGED audit
    /\ job' = IF job.ev.market = NoMarket THEN Idle ELSE [job EXCEPT !.step = "read"]
    /\ UNCHANGED <<now, liveMid, work, stamp, events, life, history>>

\* Mutant: the live row was overwritten before the triggers read it.
Overwritten(m) == IF job.ev.mid # 0 THEN job.ev.mid ELSE liveMid[m]

Prior(m) == liveMid[m]

\* cooldownActive
Cooling(r, m, t) == stamp[r][m] # Never /\ t - stamp[r][m] < Cooldown[r]

\* maybeEnqueueTriggers: the rows this event asks for, in order.
Due(e, known) ==
    CASE e.kind = "last_trade_price" -> <<"trade_seen">>
      [] e.kind = "market_resolved"  -> <<"market_status">>
      [] Moves(e, known) /\ ~Cooling("price_move", e.market, now) ->
            IF Cooling("book_change", e.market, now) THEN <<"price_move">> ELSE <<"price_move", "book_change">>
      [] OTHER -> <<>>

\* The clock is read once; a live row that cannot be read counts as none.
ReadLive ==
    /\ job.step = "read"
    /\ LET m == job.ev.market IN
       \/ /\ job' = [job EXCEPT !.step = "tell", !.at = now, !.due = Due(job.ev, Prior(m))]
          /\ jumped' = IF job.jump THEN [jumped EXCEPT ![m] = now] ELSE jumped
          /\ UNCHANGED <<faults, lost>>
       \/ /\ job.ev.kind \in Quotes /\ Fault
          /\ job' = [job EXCEPT !.step = "tell", !.at = now]
          /\ jumped' = IF job.jump THEN [jumped EXCEPT ![m] = now] ELSE jumped
          /\ lost' = IF job.jump THEN [lost EXCEPT ![m] = now] ELSE lost
    /\ UNCHANGED <<now, audit, liveMid, work, stamp, events, life>>

\* ON CONFLICT (dedupe_key) DO NOTHING: one row per market, reason and bucket.
Added(row) ==
    IF \E q \in work : q.market = row.market /\ q.reason = row.reason /\ q.at \div Bucket = row.at \div Bucket
    THEN work ELSE work \cup {row}

\* Mutant: the cooldown is not stamped.
Unstamped(r, m, t) == stamp

Stamped(r, m, t) == IF r \in Spaced THEN [stamp EXCEPT ![r][m] = t] ELSE stamp

\* enqueue, which may fail, and stampCooldown, which follows either way.
Enqueue ==
    /\ job.step = "tell" /\ job.due # <<>>
    /\ LET m == job.ev.market
           r == Head(job.due) IN
       /\ \/ /\ work' = Added([market |-> m, reason |-> r, at |-> job.at, life |-> life])
             /\ UNCHANGED <<faults, lost>>
          \/ /\ Fault
             /\ lost' = IF r = "price_move" THEN [lost EXCEPT ![m] = job.at] ELSE lost
             /\ UNCHANGED work
       /\ stamp' = Stamped(r, m, job.at)
    /\ job' = [job EXCEPT !.due = Tail(@)]
    /\ UNCHANGED <<now, audit, liveMid, events, life, jumped>>

\* updateLiveState: COALESCE keeps the mid when the event has none.
Upsert ==
    /\ job.step = "tell" /\ job.due = <<>>
    /\ \/ /\ liveMid' = IF job.ev.mid # 0 THEN [liveMid EXCEPT ![job.ev.market] = job.ev.mid] ELSE liveMid
          /\ UNCHANGED faults
       \/ /\ Fault
          /\ UNCHANGED liveMid
    /\ job' = Idle
    /\ UNCHANGED <<now, audit, work, stamp, events, life, history>>

\* The process ends and starts again: the cooldowns were in memory.
Restart ==
    /\ Fault
    /\ life' = life + 1
    /\ stamp' = [r \in Spaced |-> [m \in Conditions |-> Never]]
    /\ lost' = [m \in Conditions |-> IF InHand(m) THEN job.at ELSE lost[m]]
    /\ job' = Idle
    /\ UNCHANGED <<now, audit, liveMid, work, events, jumped>>

HandleEvent == Persist \/ ReadLive \/ Enqueue \/ Upsert

TriggersNext == Tick \/ (\E e \in Events : Receive(e)) \/ HandleEvent \/ Restart

TriggersSpec == TriggersInit /\ [][TriggersNext]_triggerVars

-----------------------------------------------------------------------------
(* Properties *)

Row == [market : Conditions, reason : Spaced \cup {"trade_seen", "market_status"}, at : Nat, life : Nat]

TriggersOK ==
    /\ {now, audit, events, faults, life} \subseteq Nat
    /\ liveMid \in [Conditions -> Nat]
    /\ work \subseteq Row
    /\ stamp \in [Spaced -> [Conditions -> Nat \cup {Never}]]
    /\ job = Idle \/ job \in [step : {"persist", "read", "tell"}, ev : Events, at : Nat,
                              due : Seq(Spaced \cup {"trade_seen", "market_status"}), jump : BOOLEAN]
    /\ jumped \in [Conditions -> Nat \cup {Never}] /\ lost \in [Conditions -> Nat \cup {Never}]

\* A move of a market past the threshold is in the queue: with a row of its own,
\* or with one no older than the cooldown and a bucket, across restarts that
\* forget the cooldowns and the key that then refuses the row.  What a failed read,
\* a failed insert or a crash hides is hidden for one cooldown, not longer.
JumpIsQueued ==
    \A m \in Conditions : jumped[m] # Never /\ ~InHand(m) =>
        \/ \E q \in work : /\ q.market = m /\ q.reason = "price_move"
                            /\ jumped[m] - q.at < Cooldown["price_move"] + Bucket
        \/ lost[m] # Never /\ jumped[m] - lost[m] < Cooldown["price_move"]

\* Rows of one life of the process and of one reason keep their cooldown apart,
\* on both sides of a bucket's edge.
MovesAreSpaced ==
    \A q, r \in work :
        q.market = r.market /\ q.reason = r.reason /\ q.reason \in Spaced /\ q.life = r.life /\ q.at < r.at =>
            r.at - q.at >= Cooldown[q.reason]
=============================================================================
