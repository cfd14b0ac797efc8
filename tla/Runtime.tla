------------------------------- MODULE Runtime -------------------------------
(***************************************************************************)
(* One run of the process: App.Run hands its loops to shutdown.Graceful,   *)
(* which cancels them on a signal, waits, collects their errors and        *)
(* returns; only then is the Postgres pool closed.  One of the loops is    *)
(* the realtime worker, the only one with goroutines that outlast a tick:  *)
(* the client that dials and reads, the writer that pings, the consumer    *)
(* of the event channel, and the refresher of the subscription.            *)
(*                                                                         *)
(* The socket is up while the peer sends and takes frames, silent while it *)
(* only takes them, dead once a write to it fails.                         *)
(***************************************************************************)
EXTENDS Naturals

CONSTANTS
    Loops,        \* every Exec but the realtime worker
    EventBuffer   \* capacity of the channel between the reader and the consumer

ASSUME RuntimeAssumption == EventBuffer \in Nat

VARIABLES
    ctx, main, elapsed, pool,       \* Graceful and App.Run
    loop, errs, joined,             \* the loops, errsCh, the errors collected from it
    worker, client, writer, socket, \* realtime.Worker.Run, ws.Client.Run
    consumer, queue, out,           \* Worker.consume and its channel
    refresher                       \* Worker.subscriptionRefreshLoop, which nobody waits for

shutdown == <<ctx, main, elapsed, pool, joined>>
stream   == <<worker, client, writer, socket, consumer, queue, out, refresher>>
process  == <<shutdown, loop, errs>>
vars     == <<process, stream>>

Init ==
    /\ ctx = "live" /\ main = "run" /\ elapsed = FALSE /\ pool = "open"
    /\ loop = [e \in Loops |-> "run"]
    /\ errs = {} /\ joined = {}
    /\ worker = "select" /\ client = "idle" /\ writer = "off" /\ socket = "none"
    /\ consumer = "off" /\ queue = 0 /\ out = "none" /\ refresher = "off"

Cancelled == ctx = "cancelled"

AllDone == worker = "done" /\ \A e \in Loops : loop[e] # "run"

-----------------------------------------------------------------------------
(* shutdown.Graceful and App.Run *)

\* SIGINT or SIGTERM; the goroutine that waits for it leaves after the first.
Signal == /\ ~Cancelled /\ main = "run"
          /\ ctx' = "cancelled"
          /\ UNCHANGED <<main, elapsed, pool, joined, loop, errs, stream>>

Wait == /\ \/ main = "run" /\ AllDone /\ main' = "collect"
           \/ main = "run" /\ Cancelled /\ main' = "fade"
           \/ main = "fade" /\ AllDone /\ main' = "collect"
        /\ UNCHANGED <<ctx, elapsed, pool, joined, loop, errs, stream>>

FadeOut == /\ main = "fade"
           /\ elapsed' = TRUE /\ main' = "collect"
           /\ UNCHANGED <<ctx, pool, joined, loop, errs, stream>>

Collect(e) == /\ main = "collect" /\ e \in errs
              /\ errs' = errs \ {e} /\ joined' = joined \cup {e}
              /\ UNCHANGED <<ctx, main, elapsed, pool, loop, stream>>

\* errsCh is closed once every Exec has returned, fade-out or not.
ClosedByFadeOut == AllDone \/ elapsed
Closed == AllDone

Empty == errs = {}

Return == /\ main = "collect" /\ Closed /\ Empty
          /\ main' = "returned"
          /\ UNCHANGED <<ctx, elapsed, pool, joined, loop, errs, stream>>

\* Close waits for connections that are still out.
ClosePool == /\ main = "returned" /\ pool = "open" /\ refresher # "query"
             /\ pool' = "closed"
             /\ UNCHANGED <<ctx, main, elapsed, joined, loop, errs, stream>>

\* A ticker loop is between statements, or its statement notices ctx.
StopLoop(e) == /\ loop[e] = "run" /\ Cancelled
               /\ loop' = [loop EXCEPT ![e] = "done"]
               /\ UNCHANGED <<shutdown, errs, stream>>

\* It may fail at any time, the metrics server for one; nobody is told yet.
FailLoop(e) == /\ loop[e] = "run"
               /\ loop' = [loop EXCEPT ![e] = "failed"]
               /\ errs' = errs \cup {e}
               /\ UNCHANGED <<shutdown, stream>>

-----------------------------------------------------------------------------
(* realtime.Worker *)

\* The selector answers; with an empty set or an error Run waits and retries.
Select == /\ worker = "select" /\ ~Cancelled
          /\ worker' = "client" /\ client' = "dial"
          /\ consumer' = "on" /\ out' = "open" /\ refresher' = "on"
          /\ UNCHANGED <<process, writer, socket, queue>>

GiveUp == /\ worker = "select" /\ Cancelled
          /\ worker' = "done"
          /\ UNCHANGED <<process, client, writer, socket, consumer, queue, out, refresher>>

ClientDone == client = "end"

CloseOut == /\ worker = "client" /\ ClientDone
            /\ worker' = "wait" /\ out' = "closed"
            /\ UNCHANGED <<process, client, writer, socket, consumer, queue, refresher>>

WorkerDone == /\ worker = "wait" /\ consumer = "off"
              /\ worker' = "done"
              /\ UNCHANGED <<process, client, writer, socket, consumer, queue, out, refresher>>

\* With ctx cancelled and an event ready, select may still take the event.
Handle == /\ consumer = "on" /\ queue > 0
          /\ queue' = queue - 1
          /\ UNCHANGED <<process, worker, client, writer, socket, consumer, out, refresher>>

ConsumerEnds == /\ consumer = "on"
                /\ Cancelled \/ (out = "closed" /\ queue = 0)
                /\ consumer' = "off"
                /\ UNCHANGED <<process, worker, client, writer, socket, queue, out, refresher>>

\* It runs the selector on a tick and leaves with ctx; a query in flight ends.
Refresh == /\ \/ refresher = "on" /\ ~Cancelled /\ refresher' = "query"
              \/ refresher = "query" /\ refresher' = "on"
              \/ refresher = "on" /\ Cancelled /\ refresher' = "off"
           /\ UNCHANGED <<process, worker, client, writer, socket, consumer, queue, out>>

-----------------------------------------------------------------------------
(* ws.Client *)

Dial == /\ client = "dial" /\ ~Cancelled
        /\ \/ client' = "read" /\ socket' = "up" /\ writer' = "on"
           \/ client' = "backoff" /\ UNCHANGED <<socket, writer>>
        /\ UNCHANGED <<process, worker, consumer, queue, out, refresher>>

\* Run looks at ctx before a dial and while it backs off.
Quit == /\ client \in {"dial", "backoff"} /\ Cancelled
        /\ client' = "end"
        /\ UNCHANGED <<process, worker, writer, socket, consumer, queue, out, refresher>>

Free == queue < EventBuffer

\* The read loop asks for ctx only when a read has failed.  A full channel
\* drops the event.
Read == /\ client = "read" /\ socket = "up"
        /\ queue' = IF Free THEN queue + 1 ELSE queue
        /\ UNCHANGED <<process, worker, client, writer, socket, consumer, out, refresher>>

\* ReadTimeout, or an error of the connection.
ReadFails == /\ client = "read" /\ socket \in {"silent", "dead"}
             /\ client' = "unwind"
             /\ UNCHANGED <<process, worker, writer, socket, consumer, queue, out, refresher>>

WriterGone == writer = "off"

Unwind == /\ client = "unwind" /\ WriterGone
          /\ client' = IF Cancelled THEN "end" ELSE "backoff"
          /\ socket' = "none"
          /\ UNCHANGED <<process, worker, writer, consumer, queue, out, refresher>>

Retry == /\ client = "backoff" /\ ~Cancelled
         /\ client' = "dial"
         /\ UNCHANGED <<process, worker, writer, socket, consumer, queue, out, refresher>>

OnlyCancelled == Cancelled
OnlyDead == socket = "dead"
Stops == Cancelled \/ socket = "dead"

\* A ping that succeeds changes nothing.
WriterEnds == /\ writer = "on" /\ Stops
              /\ writer' = "off"
              /\ UNCHANGED <<process, worker, client, socket, consumer, queue, out, refresher>>

Peer(s) == /\ socket \in {"up", "silent"} /\ s # socket
           /\ socket' = s
           /\ UNCHANGED <<process, worker, client, writer, consumer, queue, out, refresher>>

-----------------------------------------------------------------------------

Graceful == Wait \/ Return \/ ClosePool \/ \E e \in Loops : Collect(e)
Realtime == Select \/ GiveUp \/ CloseOut \/ WorkerDone
Client   == Dial \/ Quit \/ ReadFails \/ Unwind \/ Retry

Next ==
    \/ Signal \/ FadeOut \/ Graceful
    \/ \E e \in Loops : StopLoop(e) \/ FailLoop(e)
    \/ Realtime \/ Handle \/ ConsumerEnds \/ Refresh
    \/ Client \/ Read \/ WriterEnds
    \/ \E s \in {"up", "silent", "dead"} : Peer(s)

Spec == Init /\ [][Next]_vars

\* Every goroutine that can go on does, and so do timers.  Nothing makes the
\* peer send, fall silent or close, and a signal need not come.
FairSpec ==
    /\ Spec
    /\ WF_vars(Graceful) /\ WF_vars(FadeOut) /\ WF_vars(Realtime)
    /\ WF_vars(Handle) /\ WF_vars(ConsumerEnds) /\ WF_vars(Refresh)
    /\ WF_vars(Client) /\ WF_vars(WriterEnds)
    /\ \A e \in Loops : WF_vars(StopLoop(e))

-----------------------------------------------------------------------------
(* Properties *)

TypeOK ==
    /\ ctx \in {"live", "cancelled"} /\ main \in {"run", "fade", "collect", "returned"}
    /\ elapsed \in BOOLEAN /\ pool \in {"open", "closed"}
    /\ loop \in [Loops -> {"run", "done", "failed"}]
    /\ errs \subseteq Loops /\ joined \subseteq Loops
    /\ worker \in {"select", "client", "wait", "done"}
    /\ client \in {"idle", "dial", "read", "unwind", "backoff", "end"}
    /\ writer \in {"off", "on"} /\ socket \in {"none", "up", "silent", "dead"}
    /\ consumer \in {"off", "on"} /\ out \in {"none", "open", "closed"}
    /\ queue \in 0 .. EventBuffer /\ refresher \in {"off", "on", "query"}

\* App.Run closes the pool only when no loop is left that could use it, also
\* when the fade-out has elapsed, and no query of the refresher is in flight.
PoolOutlivesLoops == pool = "closed" => AllDone /\ consumer = "off" /\ refresher # "query"

\* Nobody sends on the event channel once the worker has closed it.
NoSendAfterClose == out = "closed" => client = "end" /\ writer = "off"

\* Whatever is shared is closed after its last user, the pool and the channel alike.
ShutdownInOrder == PoolOutlivesLoops /\ NoSendAfterClose

\* One connection at a time, and none is left open behind the client.
OneConnection == /\ writer = "on" => client \in {"read", "unwind"} /\ socket # "none"
                 /\ socket = "none" <=> client \notin {"read", "unwind"}

\* What Graceful returns names every component that failed.
ErrorsReported == main = "returned" => joined = {e \in Loops : loop[e] = "failed"}

\* After a signal the process ends, unless the stream goes on for ever.
StopsUnlessStreaming == <>Cancelled /\ <>[](socket # "up") => <>(pool = "closed")

\* A connection whose peer is gone is replaced, unless a signal comes first.
DeadPeerReplaced == (client = "read" /\ socket = "dead") ~> (client \in {"dial", "end"})
=============================================================================
