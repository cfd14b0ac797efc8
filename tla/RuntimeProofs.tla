---------------------------- MODULE RuntimeProofs ----------------------------
(***************************************************************************)
(* What the process guarantees from its start to its end: Runtime for any  *)
(* set of loops, any channel capacity, and any behaviour of the peer, the  *)
(* signal and the fade-out timer; StartUp for any configurations;          *)
(* RealtimeTriggers for any stream of quotes; StrategyInputs for any       *)
(* markets, trades, thresholds and limits.                                 *)
(***************************************************************************)
EXTENDS StartUp, RealtimeTriggers, StrategyInputs, FiniteSetTheorems, WellFoundedInduction, TLAPS

\* No goroutine of the stream outlives the step of Worker.Run that waits for it.
Nested ==
    /\ worker = "select" => client = "idle" /\ consumer = "off" /\ out = "none" /\ refresher = "off"
    /\ worker = "client" => client # "idle" /\ out = "open"
    /\ worker = "wait" => client = "end" /\ out = "closed"
    /\ worker = "done" => /\ consumer = "off"
                          /\ (client = "idle" /\ out = "none") \/ (client = "end" /\ out = "closed")

\* The client stops for good, and the worker with it, only after the signal.
AfterSignal == (client = "end" \/ worker = "done" \/ main = "fade") => Cancelled

\* An error is in the channel or already collected, and nothing else is.
Accounted == \A e \in Loops : loop[e] = "failed" <=> e \in errs \cup joined

\* Graceful returns when all is done and every error is collected.
Drained == main = "returned" => AllDone /\ errs = {}

\* The pool is closed last, with no query in flight and none to come.
ClosedLast == pool = "closed" => main = "returned" /\ refresher # "query"

Inv == TypeOK /\ Nested /\ AfterSignal /\ OneConnection /\ Accounted /\ Drained /\ ClosedLast

-----------------------------------------------------------------------------
(* Initial states *)

LEMMA InvInit == Init => Inv
<1>. SUFFICES ASSUME Init PROVE Inv
  OBVIOUS
<1>1. TypeOK
  <2>1. elapsed \in BOOLEAN
    BY Zenon DEF Init
  <2>2. loop \in [Loops -> {"run", "done", "failed"}]
    BY DEF Init
  <2>3. errs \subseteq Loops /\ joined \subseteq Loops /\ queue \in 0 .. EventBuffer
    BY RuntimeAssumption DEF Init
  <2>. QED
    BY <2>1, <2>2, <2>3 DEF Init, TypeOK
<1>2. Nested /\ AfterSignal /\ OneConnection
  BY DEF Init, Nested, AfterSignal, OneConnection
<1>3. Accounted /\ Drained /\ ClosedLast
  BY DEF Init, Accounted, Drained, ClosedLast
<1>. QED
  BY <1>1, <1>2, <1>3 DEF Inv

-----------------------------------------------------------------------------
(* Every step *)

LEMMA TypeNext ==
    ASSUME TypeOK, [Next]_vars
    PROVE  TypeOK'
<1>1. CASE Signal
  BY <1>1, RuntimeAssumption DEF Cancelled, Signal, TypeOK, stream
<1>2. CASE Wait
  BY <1>2, RuntimeAssumption DEF Cancelled, Wait, TypeOK, stream, AllDone
<1>3. CASE FadeOut
  BY <1>3, RuntimeAssumption DEF Cancelled, FadeOut, TypeOK, stream
<1>4. CASE Return
  BY <1>4, RuntimeAssumption DEF Cancelled, Return, TypeOK, stream, Closed, Empty, AllDone
<1>5. CASE ClosePool
  BY <1>5, RuntimeAssumption DEF Cancelled, ClosePool, TypeOK, stream
<1>6. CASE Select
  BY <1>6, RuntimeAssumption DEF Cancelled, Select, TypeOK, process, shutdown
<1>7. CASE GiveUp
  BY <1>7, RuntimeAssumption DEF Cancelled, GiveUp, TypeOK, process, shutdown
<1>8. CASE CloseOut
  BY <1>8, RuntimeAssumption DEF Cancelled, CloseOut, TypeOK, process, shutdown, ClientDone
<1>9. CASE WorkerDone
  BY <1>9, RuntimeAssumption DEF Cancelled, WorkerDone, TypeOK, process, shutdown
<1>10. CASE Handle
  BY <1>10, RuntimeAssumption DEF Cancelled, Handle, TypeOK, process, shutdown
<1>11. CASE ConsumerEnds
  BY <1>11, RuntimeAssumption DEF Cancelled, ConsumerEnds, TypeOK, process, shutdown
<1>12. CASE Refresh
  BY <1>12, RuntimeAssumption DEF Cancelled, Refresh, TypeOK, process, shutdown
<1>13. CASE Dial
  BY <1>13, RuntimeAssumption DEF Cancelled, Dial, TypeOK, process, shutdown
<1>14. CASE Quit
  BY <1>14, RuntimeAssumption DEF Cancelled, Quit, TypeOK, process, shutdown
<1>15. CASE Read
  BY <1>15, RuntimeAssumption DEF Cancelled, Read, TypeOK, process, shutdown, Free
<1>16. CASE ReadFails
  BY <1>16, RuntimeAssumption DEF Cancelled, ReadFails, TypeOK, process, shutdown
<1>17. CASE Unwind
  BY <1>17, RuntimeAssumption DEF Cancelled, Unwind, TypeOK, process, shutdown, WriterGone
<1>18. CASE Retry
  BY <1>18, RuntimeAssumption DEF Cancelled, Retry, TypeOK, process, shutdown
<1>19. CASE WriterEnds
  BY <1>19, RuntimeAssumption DEF Cancelled, WriterEnds, TypeOK, process, shutdown, Stops
<1>20. ASSUME NEW e \in Loops, Collect(e)
      PROVE  TypeOK'
  BY <1>20, RuntimeAssumption DEF Cancelled, Collect, TypeOK, stream
<1>21. ASSUME NEW e \in Loops, StopLoop(e)
      PROVE  TypeOK'
  BY <1>21, RuntimeAssumption DEF Cancelled, StopLoop, TypeOK, shutdown, stream
<1>22. ASSUME NEW e \in Loops, FailLoop(e)
      PROVE  TypeOK'
  BY <1>22, RuntimeAssumption DEF Cancelled, FailLoop, TypeOK, shutdown, stream
<1>23. ASSUME NEW s \in {"up", "silent", "dead"}, Peer(s)
      PROVE  TypeOK'
  BY <1>23, RuntimeAssumption DEF Cancelled, Peer, TypeOK, process, shutdown
<1>24. CASE UNCHANGED vars
  BY <1>24 DEF vars, process, shutdown, stream, TypeOK
<1>. QED
  BY <1>1, <1>2, <1>3, <1>4, <1>5, <1>6, <1>7, <1>8, <1>9, <1>10, <1>11, <1>12, <1>13, <1>14, <1>15, <1>16, <1>17, <1>18, <1>19, <1>20, <1>21, <1>22, <1>23, <1>24 DEF Next, Graceful, Realtime, Client

LEMMA NestedNext ==
    ASSUME Inv, [Next]_vars
    PROVE  Nested'
<1>1. CASE Signal
  BY <1>1, RuntimeAssumption DEF Cancelled, Signal, Inv, TypeOK, Nested, AfterSignal, OneConnection, stream
<1>2. CASE Wait
  BY <1>2, RuntimeAssumption DEF Cancelled, Wait, Inv, TypeOK, Nested, AfterSignal, OneConnection, stream, AllDone
<1>3. CASE FadeOut
  BY <1>3, RuntimeAssumption DEF Cancelled, FadeOut, Inv, TypeOK, Nested, AfterSignal, OneConnection, stream
<1>4. CASE Return
  BY <1>4, RuntimeAssumption DEF Cancelled, Return, Inv, TypeOK, Nested, AfterSignal, OneConnection, stream, Closed, Empty, AllDone
<1>5. CASE ClosePool
  BY <1>5, RuntimeAssumption DEF Cancelled, ClosePool, Inv, TypeOK, Nested, AfterSignal, OneConnection, stream
<1>6. CASE Select
  BY <1>6, RuntimeAssumption DEF Cancelled, Select, Inv, TypeOK, Nested, AfterSignal, OneConnection, process, shutdown
<1>7. CASE GiveUp
  BY <1>7, RuntimeAssumption DEF Cancelled, GiveUp, Inv, TypeOK, Nested, AfterSignal, OneConnection, process, shutdown
<1>8. CASE CloseOut
  BY <1>8, RuntimeAssumption DEF Cancelled, CloseOut, Inv, TypeOK, Nested, AfterSignal, OneConnection, process, shutdown, ClientDone
<1>9. CASE WorkerDone
  BY <1>9, RuntimeAssumption DEF Cancelled, WorkerDone, Inv, TypeOK, Nested, AfterSignal, OneConnection, process, shutdown
<1>10. CASE Handle
  BY <1>10, RuntimeAssumption DEF Cancelled, Handle, Inv, TypeOK, Nested, AfterSignal, OneConnection, process, shutdown
<1>11. CASE ConsumerEnds
  BY <1>11, RuntimeAssumption DEF Cancelled, ConsumerEnds, Inv, TypeOK, Nested, AfterSignal, OneConnection, process, shutdown
<1>12. CASE Refresh
  BY <1>12, RuntimeAssumption DEF Cancelled, Refresh, Inv, TypeOK, Nested, AfterSignal, OneConnection, process, shutdown
<1>13. CASE Dial
  BY <1>13, RuntimeAssumption DEF Cancelled, Dial, Inv, TypeOK, Nested, AfterSignal, OneConnection, process, shutdown
<1>14. CASE Quit
  BY <1>14, RuntimeAssumption DEF Cancelled, Quit, Inv, TypeOK, Nested, AfterSignal, OneConnection, process, shutdown
<1>15. CASE Read
  BY <1>15, RuntimeAssumption DEF Cancelled, Read, Inv, TypeOK, Nested, AfterSignal, OneConnection, process, shutdown, Free
<1>16. CASE ReadFails
  BY <1>16, RuntimeAssumption DEF Cancelled, ReadFails, Inv, TypeOK, Nested, AfterSignal, OneConnection, process, shutdown
<1>17. CASE Unwind
  BY <1>17, RuntimeAssumption DEF Cancelled, Unwind, Inv, TypeOK, Nested, AfterSignal, OneConnection, process, shutdown, WriterGone
<1>18. CASE Retry
  BY <1>18, RuntimeAssumption DEF Cancelled, Retry, Inv, TypeOK, Nested, AfterSignal, OneConnection, process, shutdown
<1>19. CASE WriterEnds
  BY <1>19, RuntimeAssumption DEF Cancelled, WriterEnds, Inv, TypeOK, Nested, AfterSignal, OneConnection, process, shutdown, Stops
<1>20. ASSUME NEW e \in Loops, Collect(e)
      PROVE  Nested'
  BY <1>20, RuntimeAssumption DEF Cancelled, Collect, Inv, TypeOK, Nested, AfterSignal, OneConnection, stream
<1>21. ASSUME NEW e \in Loops, StopLoop(e)
      PROVE  Nested'
  BY <1>21, RuntimeAssumption DEF Cancelled, StopLoop, Inv, TypeOK, Nested, AfterSignal, OneConnection, shutdown, stream
<1>22. ASSUME NEW e \in Loops, FailLoop(e)
      PROVE  Nested'
  BY <1>22, RuntimeAssumption DEF Cancelled, FailLoop, Inv, TypeOK, Nested, AfterSignal, OneConnection, shutdown, stream
<1>23. ASSUME NEW s \in {"up", "silent", "dead"}, Peer(s)
      PROVE  Nested'
  BY <1>23, RuntimeAssumption DEF Cancelled, Peer, Inv, TypeOK, Nested, AfterSignal, OneConnection, process, shutdown
<1>24. CASE UNCHANGED vars
  BY <1>24 DEF vars, process, shutdown, stream, Inv, TypeOK, Nested, AfterSignal, OneConnection
<1>. QED
  BY <1>1, <1>2, <1>3, <1>4, <1>5, <1>6, <1>7, <1>8, <1>9, <1>10, <1>11, <1>12, <1>13, <1>14, <1>15, <1>16, <1>17, <1>18, <1>19, <1>20, <1>21, <1>22, <1>23, <1>24 DEF Next, Graceful, Realtime, Client

LEMMA AfterSignalNext ==
    ASSUME Inv, [Next]_vars
    PROVE  AfterSignal'
<1>1. CASE Signal
  BY <1>1, RuntimeAssumption DEF Cancelled, Signal, Inv, TypeOK, Nested, AfterSignal, stream
<1>2. CASE Wait
  BY <1>2, RuntimeAssumption DEF Cancelled, Wait, Inv, TypeOK, Nested, AfterSignal, stream, AllDone
<1>3. CASE FadeOut
  BY <1>3, RuntimeAssumption DEF Cancelled, FadeOut, Inv, TypeOK, Nested, AfterSignal, stream
<1>4. CASE Return
  BY <1>4, RuntimeAssumption DEF Cancelled, Return, Inv, TypeOK, Nested, AfterSignal, stream, Closed, Empty, AllDone
<1>5. CASE ClosePool
  BY <1>5, RuntimeAssumption DEF Cancelled, ClosePool, Inv, TypeOK, Nested, AfterSignal, stream
<1>6. CASE Select
  BY <1>6, RuntimeAssumption DEF Cancelled, Select, Inv, TypeOK, Nested, AfterSignal, process, shutdown
<1>7. CASE GiveUp
  BY <1>7, RuntimeAssumption DEF Cancelled, GiveUp, Inv, TypeOK, Nested, AfterSignal, process, shutdown
<1>8. CASE CloseOut
  BY <1>8, RuntimeAssumption DEF Cancelled, CloseOut, Inv, TypeOK, Nested, AfterSignal, process, shutdown, ClientDone
<1>9. CASE WorkerDone
  BY <1>9, RuntimeAssumption DEF Cancelled, WorkerDone, Inv, TypeOK, Nested, AfterSignal, process, shutdown
<1>10. CASE Handle
  BY <1>10, RuntimeAssumption DEF Cancelled, Handle, Inv, TypeOK, Nested, AfterSignal, process, shutdown
<1>11. CASE ConsumerEnds
  BY <1>11, RuntimeAssumption DEF Cancelled, ConsumerEnds, Inv, TypeOK, Nested, AfterSignal, process, shutdown
<1>12. CASE Refresh
  BY <1>12, RuntimeAssumption DEF Cancelled, Refresh, Inv, TypeOK, Nested, AfterSignal, process, shutdown
<1>13. CASE Dial
  BY <1>13, RuntimeAssumption DEF Cancelled, Dial, Inv, TypeOK, Nested, AfterSignal, process, shutdown
<1>14. CASE Quit
  BY <1>14, RuntimeAssumption DEF Cancelled, Quit, Inv, TypeOK, Nested, AfterSignal, process, shutdown
<1>15. CASE Read
  BY <1>15, RuntimeAssumption DEF Cancelled, Read, Inv, TypeOK, Nested, AfterSignal, process, shutdown, Free
<1>16. CASE ReadFails
  BY <1>16, RuntimeAssumption DEF Cancelled, ReadFails, Inv, TypeOK, Nested, AfterSignal, process, shutdown
<1>17. CASE Unwind
  BY <1>17, RuntimeAssumption DEF Cancelled, Unwind, Inv, TypeOK, Nested, AfterSignal, process, shutdown, WriterGone
<1>18. CASE Retry
  BY <1>18, RuntimeAssumption DEF Cancelled, Retry, Inv, TypeOK, Nested, AfterSignal, process, shutdown
<1>19. CASE WriterEnds
  BY <1>19, RuntimeAssumption DEF Cancelled, WriterEnds, Inv, TypeOK, Nested, AfterSignal, process, shutdown, Stops
<1>20. ASSUME NEW e \in Loops, Collect(e)
      PROVE  AfterSignal'
  BY <1>20, RuntimeAssumption DEF Cancelled, Collect, Inv, TypeOK, Nested, AfterSignal, stream
<1>21. ASSUME NEW e \in Loops, StopLoop(e)
      PROVE  AfterSignal'
  BY <1>21, RuntimeAssumption DEF Cancelled, StopLoop, Inv, TypeOK, Nested, AfterSignal, shutdown, stream
<1>22. ASSUME NEW e \in Loops, FailLoop(e)
      PROVE  AfterSignal'
  BY <1>22, RuntimeAssumption DEF Cancelled, FailLoop, Inv, TypeOK, Nested, AfterSignal, shutdown, stream
<1>23. ASSUME NEW s \in {"up", "silent", "dead"}, Peer(s)
      PROVE  AfterSignal'
  BY <1>23, RuntimeAssumption DEF Cancelled, Peer, Inv, TypeOK, Nested, AfterSignal, process, shutdown
<1>24. CASE UNCHANGED vars
  BY <1>24 DEF vars, process, shutdown, stream, Cancelled, Inv, TypeOK, Nested, AfterSignal
<1>. QED
  BY <1>1, <1>2, <1>3, <1>4, <1>5, <1>6, <1>7, <1>8, <1>9, <1>10, <1>11, <1>12, <1>13, <1>14, <1>15, <1>16, <1>17, <1>18, <1>19, <1>20, <1>21, <1>22, <1>23, <1>24 DEF Next, Graceful, Realtime, Client

LEMMA OneConnectionNext ==
    ASSUME Inv, [Next]_vars
    PROVE  OneConnection'
<1>1. CASE Signal
  BY <1>1, RuntimeAssumption DEF Cancelled, Signal, Inv, TypeOK, Nested, OneConnection, stream
<1>2. CASE Wait
  BY <1>2, RuntimeAssumption DEF Cancelled, Wait, Inv, TypeOK, Nested, OneConnection, stream, AllDone
<1>3. CASE FadeOut
  BY <1>3, RuntimeAssumption DEF Cancelled, FadeOut, Inv, TypeOK, Nested, OneConnection, stream
<1>4. CASE Return
  BY <1>4, RuntimeAssumption DEF Cancelled, Return, Inv, TypeOK, Nested, OneConnection, stream, Closed, Empty, AllDone
<1>5. CASE ClosePool
  BY <1>5, RuntimeAssumption DEF Cancelled, ClosePool, Inv, TypeOK, Nested, OneConnection, stream
<1>6. CASE Select
  BY <1>6, RuntimeAssumption DEF Cancelled, Select, Inv, TypeOK, Nested, OneConnection, process, shutdown
<1>7. CASE GiveUp
  BY <1>7, RuntimeAssumption DEF Cancelled, GiveUp, Inv, TypeOK, Nested, OneConnection, process, shutdown
<1>8. CASE CloseOut
  BY <1>8, RuntimeAssumption DEF Cancelled, CloseOut, Inv, TypeOK, Nested, OneConnection, process, shutdown, ClientDone
<1>9. CASE WorkerDone
  BY <1>9, RuntimeAssumption DEF Cancelled, WorkerDone, Inv, TypeOK, Nested, OneConnection, process, shutdown
<1>10. CASE Handle
  BY <1>10, RuntimeAssumption DEF Cancelled, Handle, Inv, TypeOK, Nested, OneConnection, process, shutdown
<1>11. CASE ConsumerEnds
  BY <1>11, RuntimeAssumption DEF Cancelled, ConsumerEnds, Inv, TypeOK, Nested, OneConnection, process, shutdown
<1>12. CASE Refresh
  BY <1>12, RuntimeAssumption DEF Cancelled, Refresh, Inv, TypeOK, Nested, OneConnection, process, shutdown
<1>13. CASE Dial
  BY <1>13, RuntimeAssumption DEF Cancelled, Dial, Inv, TypeOK, Nested, OneConnection, process, shutdown
<1>14. CASE Quit
  BY <1>14, RuntimeAssumption DEF Cancelled, Quit, Inv, TypeOK, Nested, OneConnection, process, shutdown
<1>15. CASE Read
  BY <1>15, RuntimeAssumption DEF Cancelled, Read, Inv, TypeOK, Nested, OneConnection, process, shutdown, Free
<1>16. CASE ReadFails
  BY <1>16, RuntimeAssumption DEF Cancelled, ReadFails, Inv, TypeOK, Nested, OneConnection, process, shutdown
<1>17. CASE Unwind
  BY <1>17, RuntimeAssumption DEF Cancelled, Unwind, Inv, TypeOK, Nested, OneConnection, process, shutdown, WriterGone
<1>18. CASE Retry
  BY <1>18, RuntimeAssumption DEF Cancelled, Retry, Inv, TypeOK, Nested, OneConnection, process, shutdown
<1>19. CASE WriterEnds
  BY <1>19, RuntimeAssumption DEF Cancelled, WriterEnds, Inv, TypeOK, Nested, OneConnection, process, shutdown, Stops
<1>20. ASSUME NEW e \in Loops, Collect(e)
      PROVE  OneConnection'
  BY <1>20, RuntimeAssumption DEF Cancelled, Collect, Inv, TypeOK, Nested, OneConnection, stream
<1>21. ASSUME NEW e \in Loops, StopLoop(e)
      PROVE  OneConnection'
  BY <1>21, RuntimeAssumption DEF Cancelled, StopLoop, Inv, TypeOK, Nested, OneConnection, shutdown, stream
<1>22. ASSUME NEW e \in Loops, FailLoop(e)
      PROVE  OneConnection'
  BY <1>22, RuntimeAssumption DEF Cancelled, FailLoop, Inv, TypeOK, Nested, OneConnection, shutdown, stream
<1>23. ASSUME NEW s \in {"up", "silent", "dead"}, Peer(s)
      PROVE  OneConnection'
  BY <1>23, RuntimeAssumption DEF Cancelled, Peer, Inv, TypeOK, Nested, OneConnection, process, shutdown
<1>24. CASE UNCHANGED vars
  BY <1>24 DEF vars, process, shutdown, stream, Inv, TypeOK, Nested, OneConnection
<1>. QED
  BY <1>1, <1>2, <1>3, <1>4, <1>5, <1>6, <1>7, <1>8, <1>9, <1>10, <1>11, <1>12, <1>13, <1>14, <1>15, <1>16, <1>17, <1>18, <1>19, <1>20, <1>21, <1>22, <1>23, <1>24 DEF Next, Graceful, Realtime, Client

LEMMA AccountedNext ==
    ASSUME Inv, [Next]_vars
    PROVE  Accounted'
<1>1. CASE Signal
  BY <1>1, RuntimeAssumption DEF Cancelled, Signal, Inv, TypeOK, Accounted, stream
<1>2. CASE Wait
  BY <1>2, RuntimeAssumption DEF Cancelled, Wait, Inv, TypeOK, Accounted, stream, AllDone
<1>3. CASE FadeOut
  BY <1>3, RuntimeAssumption DEF Cancelled, FadeOut, Inv, TypeOK, Accounted, stream
<1>4. CASE Return
  BY <1>4, RuntimeAssumption DEF Cancelled, Return, Inv, TypeOK, Accounted, stream, Closed, Empty, AllDone
<1>5. CASE ClosePool
  BY <1>5, RuntimeAssumption DEF Cancelled, ClosePool, Inv, TypeOK, Accounted, stream
<1>6. CASE Select
  BY <1>6, RuntimeAssumption DEF Cancelled, Select, Inv, TypeOK, Accounted, process, shutdown
<1>7. CASE GiveUp
  BY <1>7, RuntimeAssumption DEF Cancelled, GiveUp, Inv, TypeOK, Accounted, process, shutdown
<1>8. CASE CloseOut
  BY <1>8, RuntimeAssumption DEF Cancelled, CloseOut, Inv, TypeOK, Accounted, process, shutdown, ClientDone
<1>9. CASE WorkerDone
  BY <1>9, RuntimeAssumption DEF Cancelled, WorkerDone, Inv, TypeOK, Accounted, process, shutdown
<1>10. CASE Handle
  BY <1>10, RuntimeAssumption DEF Cancelled, Handle, Inv, TypeOK, Accounted, process, shutdown
<1>11. CASE ConsumerEnds
  BY <1>11, RuntimeAssumption DEF Cancelled, ConsumerEnds, Inv, TypeOK, Accounted, process, shutdown
<1>12. CASE Refresh
  BY <1>12, RuntimeAssumption DEF Cancelled, Refresh, Inv, TypeOK, Accounted, process, shutdown
<1>13. CASE Dial
  BY <1>13, RuntimeAssumption DEF Cancelled, Dial, Inv, TypeOK, Accounted, process, shutdown
<1>14. CASE Quit
  BY <1>14, RuntimeAssumption DEF Cancelled, Quit, Inv, TypeOK, Accounted, process, shutdown
<1>15. CASE Read
  BY <1>15, RuntimeAssumption DEF Cancelled, Read, Inv, TypeOK, Accounted, process, shutdown, Free
<1>16. CASE ReadFails
  BY <1>16, RuntimeAssumption DEF Cancelled, ReadFails, Inv, TypeOK, Accounted, process, shutdown
<1>17. CASE Unwind
  BY <1>17, RuntimeAssumption DEF Cancelled, Unwind, Inv, TypeOK, Accounted, process, shutdown, WriterGone
<1>18. CASE Retry
  BY <1>18, RuntimeAssumption DEF Cancelled, Retry, Inv, TypeOK, Accounted, process, shutdown
<1>19. CASE WriterEnds
  BY <1>19, RuntimeAssumption DEF Cancelled, WriterEnds, Inv, TypeOK, Accounted, process, shutdown, Stops
<1>20. ASSUME NEW e \in Loops, Collect(e)
      PROVE  Accounted'
  BY <1>20, RuntimeAssumption DEF Cancelled, Collect, Inv, TypeOK, Accounted, stream
<1>21. ASSUME NEW e \in Loops, StopLoop(e)
      PROVE  Accounted'
  BY <1>21, RuntimeAssumption DEF Cancelled, StopLoop, Inv, TypeOK, Accounted, shutdown, stream
<1>22. ASSUME NEW e \in Loops, FailLoop(e)
      PROVE  Accounted'
  BY <1>22, RuntimeAssumption DEF Cancelled, FailLoop, Inv, TypeOK, Accounted, shutdown, stream
<1>23. ASSUME NEW s \in {"up", "silent", "dead"}, Peer(s)
      PROVE  Accounted'
  BY <1>23, RuntimeAssumption DEF Cancelled, Peer, Inv, TypeOK, Accounted, process, shutdown
<1>24. CASE UNCHANGED vars
  BY <1>24 DEF vars, process, shutdown, stream, Inv, TypeOK, Accounted
<1>. QED
  BY <1>1, <1>2, <1>3, <1>4, <1>5, <1>6, <1>7, <1>8, <1>9, <1>10, <1>11, <1>12, <1>13, <1>14, <1>15, <1>16, <1>17, <1>18, <1>19, <1>20, <1>21, <1>22, <1>23, <1>24 DEF Next, Graceful, Realtime, Client

LEMMA DrainedNext ==
    ASSUME Inv, [Next]_vars
    PROVE  Drained'
<1>1. CASE Signal
  BY <1>1, RuntimeAssumption DEF Cancelled, Signal, Inv, TypeOK, Nested, Drained, AllDone, stream
<1>2. CASE Wait
  BY <1>2, RuntimeAssumption DEF Cancelled, Wait, Inv, TypeOK, Nested, Drained, AllDone, stream
<1>3. CASE FadeOut
  BY <1>3, RuntimeAssumption DEF Cancelled, FadeOut, Inv, TypeOK, Nested, Drained, AllDone, stream
<1>4. CASE Return
  BY <1>4, RuntimeAssumption DEF Cancelled, Return, Inv, TypeOK, Nested, Drained, AllDone, stream, Closed, Empty
<1>5. CASE ClosePool
  BY <1>5, RuntimeAssumption DEF Cancelled, ClosePool, Inv, TypeOK, Nested, Drained, AllDone, stream
<1>6. CASE Select
  BY <1>6, RuntimeAssumption DEF Cancelled, Select, Inv, TypeOK, Nested, Drained, AllDone, process, shutdown
<1>7. CASE GiveUp
  BY <1>7, RuntimeAssumption DEF Cancelled, GiveUp, Inv, TypeOK, Nested, Drained, AllDone, process, shutdown
<1>8. CASE CloseOut
  BY <1>8, RuntimeAssumption DEF Cancelled, CloseOut, Inv, TypeOK, Nested, Drained, AllDone, process, shutdown, ClientDone
<1>9. CASE WorkerDone
  BY <1>9, RuntimeAssumption DEF Cancelled, WorkerDone, Inv, TypeOK, Nested, Drained, AllDone, process, shutdown
<1>10. CASE Handle
  BY <1>10, RuntimeAssumption DEF Cancelled, Handle, Inv, TypeOK, Nested, Drained, AllDone, process, shutdown
<1>11. CASE ConsumerEnds
  BY <1>11, RuntimeAssumption DEF Cancelled, ConsumerEnds, Inv, TypeOK, Nested, Drained, AllDone, process, shutdown
<1>12. CASE Refresh
  BY <1>12, RuntimeAssumption DEF Cancelled, Refresh, Inv, TypeOK, Nested, Drained, AllDone, process, shutdown
<1>13. CASE Dial
  BY <1>13, RuntimeAssumption DEF Cancelled, Dial, Inv, TypeOK, Nested, Drained, AllDone, process, shutdown
<1>14. CASE Quit
  BY <1>14, RuntimeAssumption DEF Cancelled, Quit, Inv, TypeOK, Nested, Drained, AllDone, process, shutdown
<1>15. CASE Read
  BY <1>15, RuntimeAssumption DEF Cancelled, Read, Inv, TypeOK, Nested, Drained, AllDone, process, shutdown, Free
<1>16. CASE ReadFails
  BY <1>16, RuntimeAssumption DEF Cancelled, ReadFails, Inv, TypeOK, Nested, Drained, AllDone, process, shutdown
<1>17. CASE Unwind
  BY <1>17, RuntimeAssumption DEF Cancelled, Unwind, Inv, TypeOK, Nested, Drained, AllDone, process, shutdown, WriterGone
<1>18. CASE Retry
  BY <1>18, RuntimeAssumption DEF Cancelled, Retry, Inv, TypeOK, Nested, Drained, AllDone, process, shutdown
<1>19. CASE WriterEnds
  BY <1>19, RuntimeAssumption DEF Cancelled, WriterEnds, Inv, TypeOK, Nested, Drained, AllDone, process, shutdown, Stops
<1>20. ASSUME NEW e \in Loops, Collect(e)
      PROVE  Drained'
  BY <1>20, RuntimeAssumption DEF Cancelled, Collect, Inv, TypeOK, Nested, Drained, AllDone, stream
<1>21. ASSUME NEW e \in Loops, StopLoop(e)
      PROVE  Drained'
  BY <1>21, RuntimeAssumption DEF Cancelled, StopLoop, Inv, TypeOK, Nested, Drained, AllDone, shutdown, stream
<1>22. ASSUME NEW e \in Loops, FailLoop(e)
      PROVE  Drained'
  BY <1>22, RuntimeAssumption DEF Cancelled, FailLoop, Inv, TypeOK, Nested, Drained, AllDone, shutdown, stream
<1>23. ASSUME NEW s \in {"up", "silent", "dead"}, Peer(s)
      PROVE  Drained'
  BY <1>23, RuntimeAssumption DEF Cancelled, Peer, Inv, TypeOK, Nested, Drained, AllDone, process, shutdown
<1>24. CASE UNCHANGED vars
  BY <1>24 DEF vars, process, shutdown, stream, Inv, TypeOK, Nested, Drained, AllDone
<1>. QED
  BY <1>1, <1>2, <1>3, <1>4, <1>5, <1>6, <1>7, <1>8, <1>9, <1>10, <1>11, <1>12, <1>13, <1>14, <1>15, <1>16, <1>17, <1>18, <1>19, <1>20, <1>21, <1>22, <1>23, <1>24 DEF Next, Graceful, Realtime, Client

LEMMA ClosedLastNext ==
    ASSUME Inv, [Next]_vars
    PROVE  ClosedLast'
<1>1. CASE Signal
  BY <1>1, RuntimeAssumption DEF Cancelled, Signal, Inv, TypeOK, AfterSignal, Drained, AllDone, ClosedLast, stream
<1>2. CASE Wait
  BY <1>2, RuntimeAssumption DEF Cancelled, Wait, Inv, TypeOK, AfterSignal, Drained, AllDone, ClosedLast, stream
<1>3. CASE FadeOut
  BY <1>3, RuntimeAssumption DEF Cancelled, FadeOut, Inv, TypeOK, AfterSignal, Drained, AllDone, ClosedLast, stream
<1>4. CASE Return
  BY <1>4, RuntimeAssumption DEF Cancelled, Return, Inv, TypeOK, AfterSignal, Drained, AllDone, ClosedLast, stream, Closed, Empty
<1>5. CASE ClosePool
  BY <1>5, RuntimeAssumption DEF Cancelled, ClosePool, Inv, TypeOK, AfterSignal, Drained, AllDone, ClosedLast, stream
<1>6. CASE Select
  BY <1>6, RuntimeAssumption DEF Cancelled, Select, Inv, TypeOK, AfterSignal, Drained, AllDone, ClosedLast, process, shutdown
<1>7. CASE GiveUp
  BY <1>7, RuntimeAssumption DEF Cancelled, GiveUp, Inv, TypeOK, AfterSignal, Drained, AllDone, ClosedLast, process, shutdown
<1>8. CASE CloseOut
  BY <1>8, RuntimeAssumption DEF Cancelled, CloseOut, Inv, TypeOK, AfterSignal, Drained, AllDone, ClosedLast, process, shutdown, ClientDone
<1>9. CASE WorkerDone
  BY <1>9, RuntimeAssumption DEF Cancelled, WorkerDone, Inv, TypeOK, AfterSignal, Drained, AllDone, ClosedLast, process, shutdown
<1>10. CASE Handle
  BY <1>10, RuntimeAssumption DEF Cancelled, Handle, Inv, TypeOK, AfterSignal, Drained, AllDone, ClosedLast, process, shutdown
<1>11. CASE ConsumerEnds
  BY <1>11, RuntimeAssumption DEF Cancelled, ConsumerEnds, Inv, TypeOK, AfterSignal, Drained, AllDone, ClosedLast, process, shutdown
<1>12. CASE Refresh
  BY <1>12, RuntimeAssumption DEF Cancelled, Refresh, Inv, TypeOK, AfterSignal, Drained, AllDone, ClosedLast, process, shutdown
<1>13. CASE Dial
  BY <1>13, RuntimeAssumption DEF Cancelled, Dial, Inv, TypeOK, AfterSignal, Drained, AllDone, ClosedLast, process, shutdown
<1>14. CASE Quit
  BY <1>14, RuntimeAssumption DEF Cancelled, Quit, Inv, TypeOK, AfterSignal, Drained, AllDone, ClosedLast, process, shutdown
<1>15. CASE Read
  BY <1>15, RuntimeAssumption DEF Cancelled, Read, Inv, TypeOK, AfterSignal, Drained, AllDone, ClosedLast, process, shutdown, Free
<1>16. CASE ReadFails
  BY <1>16, RuntimeAssumption DEF Cancelled, ReadFails, Inv, TypeOK, AfterSignal, Drained, AllDone, ClosedLast, process, shutdown
<1>17. CASE Unwind
  BY <1>17, RuntimeAssumption DEF Cancelled, Unwind, Inv, TypeOK, AfterSignal, Drained, AllDone, ClosedLast, process, shutdown, WriterGone
<1>18. CASE Retry
  BY <1>18, RuntimeAssumption DEF Cancelled, Retry, Inv, TypeOK, AfterSignal, Drained, AllDone, ClosedLast, process, shutdown
<1>19. CASE WriterEnds
  BY <1>19, RuntimeAssumption DEF Cancelled, WriterEnds, Inv, TypeOK, AfterSignal, Drained, AllDone, ClosedLast, process, shutdown, Stops
<1>20. ASSUME NEW e \in Loops, Collect(e)
      PROVE  ClosedLast'
  BY <1>20, RuntimeAssumption DEF Cancelled, Collect, Inv, TypeOK, AfterSignal, Drained, AllDone, ClosedLast, stream
<1>21. ASSUME NEW e \in Loops, StopLoop(e)
      PROVE  ClosedLast'
  BY <1>21, RuntimeAssumption DEF Cancelled, StopLoop, Inv, TypeOK, AfterSignal, Drained, AllDone, ClosedLast, shutdown, stream
<1>22. ASSUME NEW e \in Loops, FailLoop(e)
      PROVE  ClosedLast'
  BY <1>22, RuntimeAssumption DEF Cancelled, FailLoop, Inv, TypeOK, AfterSignal, Drained, AllDone, ClosedLast, shutdown, stream
<1>23. ASSUME NEW s \in {"up", "silent", "dead"}, Peer(s)
      PROVE  ClosedLast'
  BY <1>23, RuntimeAssumption DEF Cancelled, Peer, Inv, TypeOK, AfterSignal, Drained, AllDone, ClosedLast, process, shutdown
<1>24. CASE UNCHANGED vars
  BY <1>24 DEF vars, process, shutdown, stream, Inv, TypeOK, AfterSignal, Drained, AllDone, ClosedLast
<1>. QED
  BY <1>1, <1>2, <1>3, <1>4, <1>5, <1>6, <1>7, <1>8, <1>9, <1>10, <1>11, <1>12, <1>13, <1>14, <1>15, <1>16, <1>17, <1>18, <1>19, <1>20, <1>21, <1>22, <1>23, <1>24 DEF Next, Graceful, Realtime, Client

LEMMA Invariance == Spec => []Inv
<1>1. Inv /\ [Next]_vars => Inv'
  BY TypeNext, NestedNext, AfterSignalNext, OneConnectionNext, AccountedNext, DrainedNext,
     ClosedLastNext DEF Inv
<1>. QED
  BY <1>1, InvInit, PTL DEF Spec

-----------------------------------------------------------------------------
(* The theorems *)

\* The state stays well-typed; the event channel never holds more than its capacity.
THEOREM TypeCorrect == Spec => []TypeOK
<1>1. Inv => TypeOK
  BY DEF Inv
<1>. QED
  BY <1>1, Invariance, PTL

\* App.Run's pool outlives every loop, the consumer and the refresher's queries.
THEOREM PoolClosedLast == Spec => []PoolOutlivesLoops
<1>1. Inv => PoolOutlivesLoops
  BY DEF Inv, PoolOutlivesLoops, ClosedLast, Drained, AllDone, Nested
<1>. QED
  BY <1>1, Invariance, PTL

\* Worker.Run closes the event channel when no goroutine is left that sends on it.
THEOREM NoSendOnClosed == Spec => []NoSendAfterClose
<1>1. Inv => NoSendAfterClose
  BY DEF Inv, TypeOK, NoSendAfterClose, Nested, OneConnection
<1>. QED
  BY <1>1, Invariance, PTL

\* A shutdown closes the pool and the event channel in order.
THEOREM ShutdownOrdered == Spec => []ShutdownInOrder
  BY PoolClosedLast, NoSendOnClosed, PTL DEF ShutdownInOrder

\* The client holds one connection at a time and leaves none open.
THEOREM SingleConnection == Spec => []OneConnection
<1>1. Inv => OneConnection
  BY DEF Inv
<1>. QED
  BY <1>1, Invariance, PTL

\* Graceful returns the errors of exactly the components that failed.
THEOREM EveryErrorReported == Spec => []ErrorsReported
<1>1. Inv => ErrorsReported
  BY DEF Inv, TypeOK, ErrorsReported, Drained, Accounted
<1>. QED
  BY <1>1, Invariance, PTL

-----------------------------------------------------------------------------
(* RealtimeTriggers: definitions and the inductive invariant *)

Reasons  == Spaced \cup {"trade_seen", "market_status"}
DueLists == {<<>>, <<"trade_seen">>, <<"market_status">>, <<"price_move">>,
             <<"price_move", "book_change">>, <<"book_change">>}

\* TypeOK, in parts a proof can use one by one.
CountsOK == now \in Nat /\ audit \in Nat /\ events \in Nat /\ faults \in Nat /\ life \in Nat
MidsOK   == liveMid \in [Conditions -> Nat]
QueueOK  == work \subseteq Row
StampOK  == stamp \in [Spaced -> [Conditions -> Nat \cup {Never}]]
PastOK   == jumped \in [Conditions -> Nat \cup {Never}] /\ lost \in [Conditions -> Nat \cup {Never}]
Jobs     == [step : {"persist", "read", "tell"}, ev : Events, at : Nat, due : DueLists, jump : BOOLEAN]
JobOK    == /\ job = Idle \/ job \in Jobs
            /\ job.step \in {"persist", "read"} => job.due = <<>>
            /\ job.step \in {"read", "tell"} => job.ev.market \in Conditions

Typed == CountsOK /\ MidsOK /\ QueueOK /\ StampOK /\ PastOK /\ JobOK

\* Nothing is dated after the clock.
Times ==
    /\ job # Idle => job.at <= now
    /\ \A r \in Spaced, m \in Conditions : stamp[r][m] <= now
    /\ \A m \in Conditions : jumped[m] <= now /\ lost[m] <= now

\* A row of this life is no later than the stamp that its insert left.
RowsStamped ==
    \A q \in work :
        /\ q.life <= life
        /\ q.reason \in Spaced /\ q.life = life =>
              stamp[q.reason][q.market] # Never /\ q.at <= stamp[q.reason][q.market]

\* A spaced reason is asked for only when its cooldown is over.
Rested(r) == stamp[r][job.ev.market] = Never \/ job.at - stamp[r][job.ev.market] >= Cooldown[r]
DueRested ==
    job.step = "tell" =>
        /\ job.due \in {<<"price_move">>, <<"price_move", "book_change">>} => Rested("price_move")
        /\ job.due \in {<<"book_change">>, <<"price_move", "book_change">>} => Rested("book_change")

\* Until the triggers are asked, the live row is the one the event was compared with.
JumpIsTrue == job.step \in {"persist", "read"} /\ job.ev.market \in Conditions =>
                  (job.jump <=> Moves(job.ev, liveMid[job.ev.market]))

\* A row in hand is for the last jump.
HandIsLast == \A m \in Conditions : InHand(m) => jumped[m] = job.at

\* A stamp left by a price move has a row of its bucket, or the failure that lost it.
StampHasRow ==
    \A m \in Conditions : stamp["price_move"][m] # Never =>
        \/ \E q \in work : /\ q.market = m /\ q.reason = "price_move"
                            /\ stamp["price_move"][m] - q.at < Bucket
        \/ lost[m] # Never /\ lost[m] >= stamp["price_move"][m]

TriggersInv == Typed /\ Times /\ RowsStamped /\ DueRested /\ JumpIsTrue /\ HandIsLast /\ StampHasRow
       /\ JumpIsQueued /\ MovesAreSpaced

-----------------------------------------------------------------------------
(* Facts about data *)

\* Two times of one bucket are less than a bucket apart.
LEMMA SameBucket ==
    ASSUME NEW a \in Nat, NEW b \in Nat, a \div Bucket = b \div Bucket
    PROVE  a - b < Bucket
<1>0. Bucket \in Nat /\ Bucket > 0
  BY TimesAssumption
<1>1. a = Bucket * (a \div Bucket) + (a % Bucket) /\ a % Bucket \in 0 .. Bucket - 1
  BY <1>0, SMT
<1>2. b = Bucket * (b \div Bucket) + (b % Bucket) /\ b % Bucket \in 0 .. Bucket - 1
  BY <1>0, SMT
<1>. DEFINE x == Bucket * (a \div Bucket)
<1>3. x \in Int /\ a % Bucket \in Int /\ b % Bucket \in Int
  BY <1>0, SMT
<1>4. a = x + (a % Bucket) /\ b = x + (b % Bucket)
  BY <1>1, <1>2
<1>. HIDE DEF x
<1>. QED
  BY <1>0, <1>1, <1>2, <1>3, <1>4, SMT

\* What is asked for is one of six lists, whose tails are lists of the same kind.
LEMMA ListFacts ==
    ASSUME NEW d \in DueLists, d # <<>>
    PROVE  /\ Head(d) \in Reasons /\ Tail(d) \in DueLists
           /\ Head(d) = "price_move" <=> d \in {<<"price_move">>, <<"price_move", "book_change">>}
           /\ Head(d) = "book_change" <=> d = <<"book_change">>
           /\ Tail(d) \notin {<<"price_move">>, <<"price_move", "book_change">>}
           /\ Tail(d) # <<>> => Head(Tail(d)) # "price_move"
           /\ Tail(d) = <<"book_change">> => d = <<"price_move", "book_change">>
<1>1. CASE d = <<"trade_seen">>
  BY <1>1 DEF DueLists, Reasons, Spaced
<1>2. CASE d = <<"market_status">>
  BY <1>2 DEF DueLists, Reasons, Spaced
<1>3. CASE d = <<"price_move">>
  BY <1>3 DEF DueLists, Reasons, Spaced
<1>4. CASE d = <<"book_change">>
  BY <1>4 DEF DueLists, Reasons, Spaced
<1>5. CASE d = <<"price_move", "book_change">>
  BY <1>5 DEF DueLists, Reasons, Spaced
<1>. QED
  BY <1>1, <1>2, <1>3, <1>4, <1>5 DEF DueLists

LEMMA DueFacts ==
    ASSUME NEW e \in Events, NEW k
    PROVE  /\ Due(e, k) \in DueLists
           /\ Due(e, k) \in {<<"price_move">>, <<"price_move", "book_change">>} =>
                 ~Cooling("price_move", e.market, now)
           /\ Due(e, k) \in {<<"book_change">>, <<"price_move", "book_change">>} =>
                 ~Cooling("book_change", e.market, now)
           /\ Moves(e, k) => \/ Cooling("price_move", e.market, now)
                             \/ Due(e, k) # <<>> /\ Head(Due(e, k)) = "price_move"
<1>1. CASE e.kind = "last_trade_price"
  BY <1>1 DEF Due, DueLists, Moves, Quotes
<1>2. CASE e.kind = "market_resolved"
  BY <1>2 DEF Due, DueLists, Moves, Quotes
<1>3. CASE /\ e.kind \notin {"last_trade_price", "market_resolved"}
           /\ Moves(e, k) /\ ~Cooling("price_move", e.market, now)
           /\ Cooling("book_change", e.market, now)
  <2>1. Due(e, k) = <<"price_move">>
    BY <1>3 DEF Due
  <2>. QED
    BY <1>3, <2>1 DEF DueLists
<1>4. CASE /\ e.kind \notin {"last_trade_price", "market_resolved"}
           /\ Moves(e, k) /\ ~Cooling("price_move", e.market, now)
           /\ ~Cooling("book_change", e.market, now)
  <2>1. Due(e, k) = <<"price_move", "book_change">>
    BY <1>4 DEF Due
  <2>. QED
    BY <1>4, <2>1 DEF DueLists
<1>5. CASE /\ e.kind \notin {"last_trade_price", "market_resolved"}
           /\ ~(Moves(e, k) /\ ~Cooling("price_move", e.market, now))
  <2>1. Due(e, k) = <<>>
    BY <1>5 DEF Due
  <2>. QED
    BY <1>5, <2>1 DEF DueLists
<1>. QED
  BY <1>1, <1>2, <1>3, <1>4, <1>5

LEMMA JobFacts ==
    ASSUME JobOK, job.step # "idle"
    PROVE  job \in Jobs /\ job # Idle
BY DEF JobOK, Idle

-----------------------------------------------------------------------------
(* The initial states, and one lemma for each kind of step *)

LEMMA TriggersInvInit == TriggersInit => TriggersInv
<1>. SUFFICES ASSUME TriggersInit PROVE TriggersInv
  OBVIOUS
<1>1. Typed
  BY DEF TriggersInit, Typed, CountsOK, MidsOK, QueueOK, StampOK, PastOK, JobOK, Idle, Row
<1>2. Times /\ RowsStamped /\ DueRested /\ JumpIsTrue /\ HandIsLast /\ StampHasRow
  BY DEF TriggersInit, Times, RowsStamped, DueRested, JumpIsTrue, HandIsLast, StampHasRow, Idle, InHand, Never, Spaced
<1>3. JumpIsQueued /\ MovesAreSpaced
  BY DEF TriggersInit, JumpIsQueued, MovesAreSpaced
<1>. QED
  BY <1>1, <1>2, <1>3 DEF TriggersInv

LEMMA TickStep == ASSUME TriggersInv, Tick PROVE TriggersInv'
<1>1. Typed'
  BY DEF TriggersInv, Tick, Typed, CountsOK, MidsOK, QueueOK, StampOK, PastOK, JobOK, memory, history
<1>2. Times'
  <2>1. /\ \A r \in Spaced, m \in Conditions : stamp[r][m] \in Int
        /\ \A m \in Conditions : jumped[m] \in Int /\ lost[m] \in Int
        /\ job # Idle => job.at \in Int
    BY DEF TriggersInv, Typed, StampOK, PastOK, JobOK, Never, Jobs
  <2>. QED
    BY <2>1 DEF TriggersInv, Tick, Times, memory, history, Typed, CountsOK
<1>3. (RowsStamped /\ DueRested /\ JumpIsTrue /\ HandIsLast /\ StampHasRow)'
  BY DEF TriggersInv, Tick, RowsStamped, DueRested, Rested, JumpIsTrue, Moves, HandIsLast, StampHasRow, InHand, memory, history
<1>4. (JumpIsQueued /\ MovesAreSpaced)'
  BY DEF TriggersInv, Tick, JumpIsQueued, InHand, MovesAreSpaced, memory, history
<1>. QED
  BY <1>1, <1>2, <1>3, <1>4 DEF TriggersInv

LEMMA ReceiveStep == ASSUME TriggersInv, NEW e \in Events, Receive(e) PROVE TriggersInv'
<1>. DEFINE jump == e.market # NoMarket /\ Moves(e, IF e.market \in Conditions THEN liveMid[e.market] ELSE 0)
<1>1. /\ job = Idle
      /\ job' = [step |-> "persist", ev |-> e, at |-> now, due |-> <<>>, jump |-> jump]
      /\ events' = events + 1
      /\ UNCHANGED <<now, audit, liveMid, work, stamp, faults, life, jumped, lost>>
  BY DEF Receive, history
<1>2. jump \in BOOLEAN
  BY DEF Moves
<1>3. e.market \in Conditions => (jump <=> Moves(e, liveMid[e.market]))
  BY EventsAssumption
<1>. HIDE DEF jump
<1>4. /\ job'.step = "persist" /\ job'.ev = e /\ job'.at = now /\ job'.due = <<>> /\ job'.jump = jump
      /\ job.step = "idle"
  BY <1>1 DEF Idle
<1>5. Typed'
  <2>1. job' \in Jobs
    BY <1>1, <1>2 DEF TriggersInv, Typed, CountsOK, Jobs, DueLists
  <2>. QED
    BY <1>1, <1>4, <2>1 DEF TriggersInv, Typed, CountsOK, MidsOK, QueueOK, StampOK, PastOK, JobOK
<1>6. Times'
  BY <1>1, <1>4 DEF TriggersInv, Times, Typed, CountsOK
<1>7. (RowsStamped /\ StampHasRow /\ MovesAreSpaced)'
  BY <1>1 DEF TriggersInv, RowsStamped, StampHasRow, MovesAreSpaced
<1>8. (DueRested /\ HandIsLast)'
  BY <1>1, <1>4 DEF DueRested, HandIsLast, InHand
<1>9. JumpIsTrue'
  <2>1. \A k : Moves(e, k)' <=> Moves(e, k)
    BY DEF Moves
  <2>2. e.market \in Conditions => (job'.jump <=> Moves(job'.ev, liveMid'[job'.ev.market]))
    BY <1>1, <1>3, <1>4
  <2>. QED
    BY <1>1, <1>4, <2>2 DEF JumpIsTrue, Moves
<1>10. JumpIsQueued'
  BY <1>1, <1>4 DEF TriggersInv, JumpIsQueued, InHand
<1>. QED
  BY <1>5, <1>6, <1>7, <1>8, <1>9, <1>10 DEF TriggersInv

LEMMA PersistStep == ASSUME TriggersInv, Persist PROVE TriggersInv'
<1>1. /\ job.step = "persist" /\ job \in Jobs /\ job # Idle /\ job.due = <<>>
      /\ job' = IF job.ev.market = NoMarket THEN Idle ELSE [job EXCEPT !.step = "read"]
      /\ UNCHANGED <<now, liveMid, work, stamp, events, life, jumped, lost>>
      /\ audit' \in Nat /\ faults' \in Nat
  BY JobFacts DEF TriggersInv, Typed, JobOK, CountsOK, Persist, Fault, history
<1>2. job' = Idle \/ /\ job'.step = "read" /\ job'.ev = job.ev /\ job'.at = job.at
                     /\ job'.due = <<>> /\ job'.jump = job.jump
                     /\ job' \in Jobs /\ job'.ev.market \in Conditions
  BY <1>1, EventsAssumption DEF Jobs
<1>3. Typed'
  BY <1>1, <1>2 DEF TriggersInv, Typed, CountsOK, MidsOK, QueueOK, StampOK, PastOK, JobOK, Idle
<1>4. Times'
  BY <1>1, <1>2 DEF TriggersInv, Times
<1>5. (RowsStamped /\ StampHasRow /\ MovesAreSpaced)'
  BY <1>1 DEF TriggersInv, RowsStamped, StampHasRow, MovesAreSpaced
<1>6. (DueRested /\ HandIsLast)'
  BY <1>1, <1>2 DEF DueRested, HandIsLast, InHand, Idle
<1>7. JumpIsTrue'
  BY <1>1, <1>2 DEF TriggersInv, JumpIsTrue, Moves, Idle
<1>8. JumpIsQueued'
  BY <1>1, <1>2 DEF TriggersInv, JumpIsQueued, InHand, Idle
<1>. QED
  BY <1>3, <1>4, <1>5, <1>6, <1>7, <1>8 DEF TriggersInv

LEMMA ReadStep == ASSUME TriggersInv, ReadLive PROVE TriggersInv'
<1>. DEFINE m == job.ev.market
<1>1. /\ job.step = "read" /\ job \in Jobs /\ job # Idle /\ job.due = <<>>
      /\ m \in Conditions /\ job.ev \in Events
  BY JobFacts DEF TriggersInv, Typed, JobOK, ReadLive, Jobs
<1>2. /\ UNCHANGED <<now, liveMid, work, stamp, events, life, audit>>
      /\ faults' \in Nat
      /\ jumped' = IF job.jump THEN [jumped EXCEPT ![m] = now] ELSE jumped
      /\ \/ lost' = lost /\ job' = [job EXCEPT !.step = "tell", !.at = now, !.due = Due(job.ev, liveMid[m])]
         \/ /\ lost' = IF job.jump THEN [lost EXCEPT ![m] = now] ELSE lost
            /\ job' = [job EXCEPT !.step = "tell", !.at = now]
  BY DEF TriggersInv, Typed, CountsOK, ReadLive, Fault, Prior
<1>3. now \in Nat /\ now # Never /\ Cooldown["price_move"] \in Nat /\ Cooldown["price_move"] > 0
  BY TimesAssumption DEF TriggersInv, Typed, CountsOK, Never, Spaced
<1>4. /\ job'.step = "tell" /\ job'.ev = job.ev /\ job'.at = now
      /\ \/ lost' = lost /\ job'.due = Due(job.ev, liveMid[m])
         \/ /\ lost' = IF job.jump THEN [lost EXCEPT ![m] = now] ELSE lost
            /\ job'.due = <<>>
  BY <1>1, <1>2, Zenon DEF Jobs
<1>5. job'.due \in DueLists
  BY <1>1, <1>4, DueFacts DEF DueLists
<1>6. job' \in Jobs /\ job'.ev.market = m
  BY <1>1, <1>2, <1>3, <1>4, <1>5, Zenon DEF Jobs
<1>7. \A n \in Conditions : /\ jumped'[n] = IF n = m /\ job.jump THEN now ELSE jumped[n]
                            /\ lost'[n] = lost[n] \/ lost'[n] = now
                            /\ job'.due = <<>> \/ lost' = lost
                            /\ lost' # lost => job.jump /\ lost'[m] = now
                            /\ n # m => lost'[n] = lost[n]
  <2>1. jumped \in [Conditions -> Nat \cup {Never}] /\ lost \in [Conditions -> Nat \cup {Never}]
    BY DEF TriggersInv, Typed, PastOK
  <2>. QED
    BY <1>1, <1>2, <1>4, <2>1
<1>8. Typed'
  <2>1. PastOK'
    BY <1>2, <1>3, Zenon DEF TriggersInv, Typed, PastOK
  <2>2. JobOK'
    BY <1>1, <1>4, <1>6 DEF JobOK
  <2>. QED
    BY <1>2, <2>1, <2>2 DEF TriggersInv, Typed, CountsOK, MidsOK, QueueOK, StampOK
<1>9. Times'
  <2>1. job'.at <= now'
    BY <1>2, <1>3, <1>4
  <2>2. \A n \in Conditions : jumped'[n] <= now' /\ lost'[n] <= now'
    BY <1>2, <1>3, <1>7 DEF TriggersInv, Times
  <2>. QED
    BY <1>2, <2>1, <2>2 DEF TriggersInv, Times
<1>10. (RowsStamped /\ MovesAreSpaced)'
  BY <1>2 DEF TriggersInv, RowsStamped, MovesAreSpaced
<1>11. StampHasRow'
  <2>1. \A n \in Conditions : stamp["price_move"][n] <= now
    BY DEF TriggersInv, Times, Spaced
  <2>. QED
    BY <1>2, <1>3, <1>7, <2>1 DEF TriggersInv, StampHasRow
<1>12. \A r \in Spaced : ~Cooling(r, m, now) => stamp[r][m] = Never \/ now - stamp[r][m] >= Cooldown[r]
  <2>1. \A r \in Spaced : stamp[r][m] \in Int /\ Cooldown[r] \in Int
    BY <1>1, TimesAssumption DEF TriggersInv, Typed, StampOK, Never
  <2>. QED
    BY <1>3, <2>1 DEF Cooling
<1>13. DueRested'
  <2>1. CASE job'.due = <<>>
    BY <2>1 DEF DueRested
  <2>2. CASE job'.due = Due(job.ev, liveMid[m])
    <3>1. job'.due \in {<<"price_move">>, <<"price_move", "book_change">>} => ~Cooling("price_move", m, now)
      BY <1>1, <2>2, DueFacts
    <3>2. job'.due \in {<<"book_change">>, <<"price_move", "book_change">>} => ~Cooling("book_change", m, now)
      BY <1>1, <2>2, DueFacts
    <3>. QED
      BY <1>2, <1>4, <1>6, <1>12, <3>1, <3>2 DEF DueRested, Rested, Spaced
  <2>. QED
    BY <1>4, <2>1, <2>2
<1>14. JumpIsTrue'
  BY <1>4 DEF JumpIsTrue
<1>15. job.jump <=> Moves(job.ev, liveMid[m])
  BY <1>1 DEF TriggersInv, JumpIsTrue
<1>16. HandIsLast'
  <2>1. SUFFICES ASSUME NEW n \in Conditions, InHand(n)'
                 PROVE  jumped'[n] = job'.at
    BY DEF HandIsLast
  <2>2. n = m /\ job'.due \in {<<"price_move">>, <<"price_move", "book_change">>}
    <3>1. n = m /\ job'.due # <<>> /\ Head(job'.due) = "price_move"
      BY <1>6, <2>1 DEF InHand
    <3>2. PICK d \in DueLists : d = job'.due
      BY <1>5
    <3>3. d \in {<<"price_move">>, <<"price_move", "book_change">>}
      BY <3>1, <3>2, ListFacts
    <3>. QED
      BY <3>1, <3>2, <3>3
  <2>3. job'.due = Due(job.ev, liveMid[m])
    <3>1. job'.due # <<>>
      BY <2>1 DEF InHand
    <3>. QED
      BY <1>4, <3>1, Zenon
  <2>4. Moves(job.ev, liveMid[m])
    BY <2>2, <2>3 DEF Due
  <2>. QED
    BY <1>4, <1>7, <1>15, <2>2, <2>4
<1>17. JumpIsQueued'
  <2>1. SUFFICES ASSUME NEW n \in Conditions, jumped'[n] # Never, ~InHand(n)'
                 PROVE  \/ \E q \in work : /\ q.market = n /\ q.reason = "price_move"
                                           /\ jumped'[n] - q.at < Cooldown["price_move"] + Bucket
                        \/ lost'[n] # Never /\ jumped'[n] - lost'[n] < Cooldown["price_move"]
    BY <1>2 DEF JumpIsQueued
  <2>2. CASE n = m /\ job.jump /\ lost' = lost /\ job'.due = Due(job.ev, liveMid[m])
    <3>1. Cooling("price_move", m, now)
      BY <1>1, <1>4, <1>6, <1>15, <2>1, <2>2, DueFacts DEF InHand
    <3>2. /\ stamp["price_move"][m] # Never /\ now - stamp["price_move"][m] < Cooldown["price_move"]
          /\ stamp["price_move"][m] \in Nat
      BY <1>1, <3>1 DEF Cooling, TriggersInv, Typed, StampOK, Spaced
    <3>3. CASE lost[m] # Never /\ lost[m] >= stamp["price_move"][m]
      <4>1. lost[m] \in Nat
        BY <1>1, <3>3 DEF TriggersInv, Typed, PastOK
      <4>. QED
        BY <1>3, <1>7, <2>2, <3>2, <3>3, <4>1
    <3>4. CASE \E q \in work : /\ q.market = m /\ q.reason = "price_move"
                                /\ stamp["price_move"][m] - q.at < Bucket
      <4>1. PICK q \in work : /\ q.market = m /\ q.reason = "price_move"
                               /\ stamp["price_move"][m] - q.at < Bucket
        BY <3>4
      <4>2. q.at \in Nat /\ Bucket \in Nat
        BY TimesAssumption DEF TriggersInv, Typed, QueueOK, Row
      <4>3. now - q.at < Cooldown["price_move"] + Bucket
        BY <1>3, <3>2, <4>1, <4>2
      <4>. QED
        BY <1>7, <2>2, <4>1, <4>3
    <3>. QED
      BY <1>1, <3>2, <3>3, <3>4 DEF TriggersInv, StampHasRow
  <2>3. CASE n = m /\ job.jump /\ lost'[m] = now
    BY <1>3, <1>7, <2>3
  <2>4. CASE ~(n = m /\ job.jump)
    <3>1. jumped'[n] = jumped[n] /\ lost'[n] = lost[n] /\ ~InHand(n)
      BY <1>1, <1>7, <2>4 DEF InHand
    <3>. QED
      BY <2>1, <3>1 DEF TriggersInv, JumpIsQueued
  <2>5. (lost' = lost /\ job'.due = Due(job.ev, liveMid[m])) \/ (job.jump => lost'[m] = now)
    <3>1. lost \in [Conditions -> Nat \cup {Never}]
      BY DEF TriggersInv, Typed, PastOK
    <3>. QED
      BY <1>1, <1>4, <3>1
  <2>. QED
    BY <2>2, <2>3, <2>4, <2>5
<1>. QED
  BY <1>8, <1>9, <1>10, <1>11, <1>13, <1>14, <1>16, <1>17 DEF TriggersInv

LEMMA EnqueueStep == ASSUME TriggersInv, Enqueue PROVE TriggersInv'
<1>. DEFINE m == job.ev.market
            r == Head(job.due)
            entry == [market |-> m, reason |-> r, at |-> job.at, life |-> life]
<1>1. /\ job.step = "tell" /\ job \in Jobs /\ job # Idle /\ job.due # <<>> /\ job.due \in DueLists
      /\ m \in Conditions /\ job.ev \in Events /\ job.at \in Nat /\ job.at <= now
  BY JobFacts DEF TriggersInv, Typed, JobOK, Times, Enqueue, Jobs
<1>2. /\ UNCHANGED <<now, audit, liveMid, events, life, jumped>>
      /\ job' = [job EXCEPT !.due = Tail(@)]
      /\ stamp' = Stamped(r, m, job.at)
      /\ faults' \in Nat
      /\ \/ work' = Added(entry) /\ lost' = lost
         \/ work' = work /\ lost' = IF r = "price_move" THEN [lost EXCEPT ![m] = job.at] ELSE lost
  BY DEF TriggersInv, Typed, CountsOK, Enqueue, Fault
<1>3. /\ r \in Reasons /\ job'.due = Tail(job.due) /\ job'.due \in DueLists
      /\ job'.step = "tell" /\ job'.ev = job.ev /\ job'.at = job.at /\ job' \in Jobs
  <2>1. r \in Reasons /\ Tail(job.due) \in DueLists
    BY <1>1, ListFacts
  <2>. QED
    BY <1>1, <1>2, <2>1, Zenon DEF Jobs
<1>4. /\ now \in Nat /\ life \in Nat /\ job.at # Never
      /\ \A x \in Spaced : Cooldown[x] \in Nat /\ Cooldown[x] > 0
      /\ Bucket \in Nat /\ Bucket > 0
  BY <1>1, TimesAssumption DEF TriggersInv, Typed, CountsOK, Never
<1>5. \A q \in work : q.at \in Nat /\ q.market \in Conditions /\ q.life \in Nat
  BY DEF TriggersInv, Typed, QueueOK, Row
<1>6. entry \in Row
  BY <1>1, <1>3, <1>4 DEF Row, Reasons
<1>7. /\ work \subseteq work' /\ work' \subseteq work \cup {entry}
  BY <1>2 DEF Added
<1>8. /\ \A x \in Spaced, n \in Conditions : stamp'[x][n] = IF x = r /\ n = m THEN job.at ELSE stamp[x][n]
      /\ stamp' \in [Spaced -> [Conditions -> Nat \cup {Never}]]
  <2>1. stamp \in [Spaced -> [Conditions -> Nat \cup {Never}]]
    BY DEF TriggersInv, Typed, StampOK
  <2>2. CASE r \in Spaced
    <3>1. stamp' = [stamp EXCEPT ![r][m] = job.at]
      BY <1>2, <2>2 DEF Stamped
    <3>. QED
      BY <1>1, <2>1, <2>2, <3>1
  <2>3. CASE r \notin Spaced
    BY <1>2, <2>1, <2>3 DEF Stamped
  <2>. QED
    BY <2>2, <2>3
<1>9. \A n \in Conditions : lost'[n] = lost[n] \/ (lost'[n] = job.at /\ n = m /\ r = "price_move")
  BY <1>1, <1>2 DEF TriggersInv, Typed, PastOK
<1>. HIDE DEF entry, r, m
<1>10. r \in Spaced => stamp[r][m] = Never \/ job.at - stamp[r][m] >= Cooldown[r]
  BY <1>1, ListFacts DEF TriggersInv, DueRested, Rested, Spaced, r, m
<1>11. Typed'
  <2>1. QueueOK'
    BY <1>6, <1>7 DEF TriggersInv, Typed, QueueOK
  <2>2. PastOK'
    BY <1>1, <1>2 DEF TriggersInv, Typed, PastOK
  <2>3. JobOK'
    BY <1>1, <1>3 DEF JobOK, m
  <2>. QED
    BY <1>2, <1>8, <2>1, <2>2, <2>3 DEF TriggersInv, Typed, CountsOK, MidsOK, StampOK
<1>12. Times'
  <2>1. \A x \in Spaced, n \in Conditions : stamp'[x][n] <= now'
    BY <1>1, <1>2, <1>8 DEF TriggersInv, Times
  <2>2. \A n \in Conditions : jumped'[n] <= now' /\ lost'[n] <= now'
    BY <1>1, <1>2, <1>9 DEF TriggersInv, Times
  <2>. QED
    BY <1>1, <1>2, <1>3, <2>1, <2>2 DEF Times
<1>13. entry.market = m /\ entry.reason = r /\ entry.at = job.at /\ entry.life = life
  BY DEF entry
<1>14. \A q \in work : q.market = m /\ q.reason = r /\ r \in Spaced /\ q.life = life =>
                         job.at - q.at >= Cooldown[r]
  <2>1. SUFFICES ASSUME NEW q \in work, q.market = m, q.reason = r, r \in Spaced, q.life = life
                 PROVE  job.at - q.at >= Cooldown[r]
    OBVIOUS
  <2>2. stamp[r][m] # Never /\ q.at <= stamp[r][m]
    BY <2>1 DEF TriggersInv, RowsStamped
  <2>3. stamp[r][m] \in Nat
    BY <1>1, <2>1, <2>2 DEF TriggersInv, Typed, StampOK, m
  <2>. QED
    BY <1>1, <1>4, <1>5, <1>10, <2>1, <2>2, <2>3
<1>15. RowsStamped'
  <2>1. SUFFICES ASSUME NEW q \in work'
                 PROVE  /\ q.life <= life
                        /\ q.reason \in Spaced /\ q.life = life =>
                              stamp'[q.reason][q.market] # Never /\ q.at <= stamp'[q.reason][q.market]
    BY <1>2 DEF RowsStamped
  <2>2. CASE q = entry
    BY <1>1, <1>4, <1>8, <1>13, <2>2 DEF m
  <2>3. CASE q \in work
    <3>1. /\ q.life <= life
          /\ q.reason \in Spaced /\ q.life = life =>
                stamp[q.reason][q.market] # Never /\ q.at <= stamp[q.reason][q.market]
      BY <2>3 DEF TriggersInv, RowsStamped
    <3>2. CASE q.reason = r /\ q.market = m /\ r \in Spaced /\ q.life = life
      <4>1. job.at - q.at >= Cooldown[r] /\ Cooldown[r] \in Nat /\ Cooldown[r] > 0
        BY <1>4, <1>14, <2>3, <3>2
      <4>2. q.at <= job.at
        BY <1>1, <1>5, <2>3, <4>1
      <4>3. stamp'[q.reason][q.market] = job.at
        BY <1>1, <1>8, <3>2 DEF m
      <4>. QED
        BY <1>4, <3>1, <4>2, <4>3
    <3>3. CASE ~(q.reason = r /\ q.market = m /\ r \in Spaced /\ q.life = life)
      BY <1>5, <1>8, <2>3, <3>1, <3>3
    <3>. QED
      BY <3>2, <3>3
  <2>. QED
    BY <1>7, <2>2, <2>3
<1>16. MovesAreSpaced'
  <2>1. SUFFICES ASSUME NEW q \in work', NEW p \in work', q.market = p.market, q.reason = p.reason,
                        q.reason \in Spaced, q.life = p.life, q.at < p.at
                 PROVE  p.at - q.at >= Cooldown[q.reason]
    BY DEF MovesAreSpaced
  <2>2. CASE q \in work /\ p \in work
    BY <2>1, <2>2 DEF TriggersInv, MovesAreSpaced
  <2>3. CASE q \in work /\ p = entry
    BY <1>13, <1>14, <2>1, <2>3
  <2>4. CASE q = entry /\ p \in work
    <3>1. job.at - p.at >= Cooldown[r] /\ Cooldown[r] \in Nat
      BY <1>4, <1>13, <1>14, <2>1, <2>4
    <3>2. p.at \in Nat /\ job.at < p.at
      BY <1>5, <1>13, <2>1, <2>4
    <3>. QED
      BY <1>1, <3>1, <3>2
  <2>5. CASE q = entry /\ p = entry
    BY <1>1, <1>13, <2>1, <2>5
  <2>. QED
    BY <1>7, <2>2, <2>3, <2>4, <2>5
<1>17. DueRested'
  <2>1. job'.due \notin {<<"price_move">>, <<"price_move", "book_change">>}
    BY <1>1, <1>3, ListFacts, Zenon
  <2>2. CASE job'.due = <<"book_change">>
    <3>1. job.due = <<"price_move", "book_change">>
      BY <1>1, <1>3, <2>2, ListFacts, Zenon
    <3>2. r = "price_move"
      BY <3>1 DEF r
    <3>3. stamp'["book_change"][m] = stamp["book_change"][m]
      BY <1>1, <1>8, <3>2 DEF Spaced, m
    <3>. QED
      BY <1>1, <1>3, <2>1, <3>1, <3>3 DEF TriggersInv, DueRested, Rested, m
  <2>. QED
    BY <2>1, <2>2 DEF DueRested
<1>18. JumpIsTrue'
  BY <1>3 DEF JumpIsTrue
<1>19. \A n \in Conditions : ~InHand(n)'
  <2>1. Tail(job.due) # <<>> => Head(Tail(job.due)) # "price_move"
    BY <1>1, ListFacts
  <2>. QED
    BY <1>3, <2>1 DEF InHand
<1>20. HandIsLast'
  BY <1>19 DEF HandIsLast
<1>21. r = "price_move" =>
          \/ \E q \in work' : q.market = m /\ q.reason = "price_move" /\ job.at - q.at < Bucket
          \/ lost'[m] = job.at
  <2>1. SUFFICES ASSUME r = "price_move"
                 PROVE  \/ \E q \in work' : q.market = m /\ q.reason = "price_move" /\ job.at - q.at < Bucket
                        \/ lost'[m] = job.at
    OBVIOUS
  <2>2. CASE work' = Added(entry) /\ lost' = lost
    <3>1. CASE \E q \in work : q.market = m /\ q.reason = r /\ q.at \div Bucket = job.at \div Bucket
      <4>1. PICK q \in work : q.market = m /\ q.reason = r /\ q.at \div Bucket = job.at \div Bucket
        BY <3>1
      <4>2. job.at - q.at < Bucket
        BY <1>1, <1>5, <4>1, SameBucket
      <4>. QED
        BY <1>7, <2>1, <4>1, <4>2
    <3>2. CASE ~\E q \in work : q.market = m /\ q.reason = r /\ q.at \div Bucket = job.at \div Bucket
      <4>1. entry \in work'
        BY <1>13, <2>2, <3>2 DEF Added
      <4>2. job.at - entry.at < Bucket
        BY <1>1, <1>4, <1>13
      <4>. QED
        BY <1>13, <2>1, <4>1, <4>2
    <3>. QED
      BY <3>1, <3>2
  <2>3. CASE lost' = [lost EXCEPT ![m] = job.at]
    BY <1>1, <2>3 DEF TriggersInv, Typed, PastOK, m
  <2>. QED
    BY <1>2, <2>1, <2>2, <2>3 DEF r, m, entry
<1>22. StampHasRow'
  <2>1. SUFFICES ASSUME NEW n \in Conditions, stamp'["price_move"][n] # Never
                 PROVE  \/ \E q \in work' : /\ q.market = n /\ q.reason = "price_move"
                                            /\ stamp'["price_move"][n] - q.at < Bucket
                        \/ lost'[n] # Never /\ lost'[n] >= stamp'["price_move"][n]
    BY DEF StampHasRow
  <2>2. CASE n = m /\ r = "price_move"
    <3>1. stamp'["price_move"][n] = job.at
      BY <1>8, <2>2 DEF Spaced
    <3>. QED
      BY <1>1, <1>4, <1>21, <2>2, <3>1
  <2>3. CASE ~(n = m /\ r = "price_move")
    <3>1. stamp'["price_move"][n] = stamp["price_move"][n] /\ lost'[n] = lost[n]
      BY <1>8, <1>9, <2>3 DEF Spaced
    <3>. QED
      BY <1>7, <2>1, <3>1 DEF TriggersInv, StampHasRow
  <2>. QED
    BY <2>2, <2>3
<1>23. JumpIsQueued'
  <2>1. SUFFICES ASSUME NEW n \in Conditions, jumped[n] # Never
                 PROVE  \/ \E q \in work' : /\ q.market = n /\ q.reason = "price_move"
                                            /\ jumped[n] - q.at < Cooldown["price_move"] + Bucket
                        \/ lost'[n] # Never /\ jumped[n] - lost'[n] < Cooldown["price_move"]
    BY <1>2 DEF JumpIsQueued
  <2>2. Cooldown["price_move"] \in Nat /\ Cooldown["price_move"] > 0
    BY <1>4 DEF Spaced
  <2>3. CASE n = m /\ r = "price_move"
    <3>1. jumped[n] = job.at
      BY <1>1, <2>3 DEF TriggersInv, HandIsLast, InHand, r, m
    <3>2. CASE lost'[m] = job.at
      BY <1>1, <1>4, <2>2, <2>3, <3>1, <3>2
    <3>3. CASE \E q \in work' : q.market = m /\ q.reason = "price_move" /\ job.at - q.at < Bucket
      <4>1. PICK q \in work' : q.market = m /\ q.reason = "price_move" /\ job.at - q.at < Bucket
        BY <3>3
      <4>2. q.at \in Nat
        BY <1>1, <1>5, <1>7, <1>13, <4>1
      <4>3. job.at - q.at < Cooldown["price_move"] + Bucket
        BY <1>1, <1>4, <2>2, <4>1, <4>2
      <4>. QED
        BY <2>3, <3>1, <4>1, <4>3
    <3>. QED
      BY <1>21, <2>3, <3>2, <3>3
  <2>4. CASE ~(n = m /\ r = "price_move")
    <3>1. lost'[n] = lost[n] /\ ~InHand(n)
      BY <1>9, <2>4 DEF InHand, r, m
    <3>. QED
      BY <1>7, <2>1, <3>1 DEF TriggersInv, JumpIsQueued
  <2>. QED
    BY <2>3, <2>4
<1>. QED
  BY <1>11, <1>12, <1>15, <1>16, <1>17, <1>18, <1>20, <1>22, <1>23 DEF TriggersInv

LEMMA UpsertStep == ASSUME TriggersInv, Upsert PROVE TriggersInv'
<1>1. /\ job.step = "tell" /\ job \in Jobs /\ job.due = <<>>
      /\ job.ev.market \in Conditions /\ job.ev \in Events
  BY JobFacts DEF TriggersInv, Typed, JobOK, Upsert, Jobs
<1>2. /\ UNCHANGED <<now, audit, work, stamp, events, life, jumped, lost>>
      /\ faults' \in Nat /\ job' = Idle /\ job'.step = "idle"
      /\ \/ liveMid' = IF job.ev.mid # 0 THEN [liveMid EXCEPT ![job.ev.market] = job.ev.mid] ELSE liveMid
         \/ liveMid' = liveMid
  BY DEF TriggersInv, Typed, CountsOK, Upsert, Fault, history, Idle
<1>3. liveMid' \in [Conditions -> Nat]
  BY <1>1, <1>2, EventsAssumption DEF TriggersInv, Typed, MidsOK
<1>4. Typed'
  BY <1>2, <1>3 DEF TriggersInv, Typed, CountsOK, MidsOK, QueueOK, StampOK, PastOK, JobOK
<1>5. (Times /\ RowsStamped /\ StampHasRow /\ MovesAreSpaced)'
  BY <1>2 DEF TriggersInv, Times, RowsStamped, StampHasRow, MovesAreSpaced
<1>6. (DueRested /\ JumpIsTrue /\ HandIsLast)'
  BY <1>2 DEF DueRested, JumpIsTrue, HandIsLast, InHand
<1>7. JumpIsQueued'
  BY <1>1, <1>2 DEF TriggersInv, JumpIsQueued, InHand
<1>. QED
  BY <1>4, <1>5, <1>6, <1>7 DEF TriggersInv

LEMMA RestartStep == ASSUME TriggersInv, Restart PROVE TriggersInv'
<1>1. /\ UNCHANGED <<now, audit, liveMid, work, events, jumped>>
      /\ faults' \in Nat /\ life' = life + 1 /\ job' = Idle /\ job'.step = "idle"
      /\ stamp' = [r \in Spaced |-> [m \in Conditions |-> Never]]
      /\ lost' = [m \in Conditions |-> IF InHand(m) THEN job.at ELSE lost[m]]
  BY DEF TriggersInv, Typed, CountsOK, Restart, Fault, Idle
<1>2. \A m \in Conditions : InHand(m) => job.at \in Nat /\ job.at <= now /\ jumped[m] = job.at
  BY JobFacts DEF TriggersInv, Typed, InHand, Times, HandIsLast, Jobs
<1>3. \A r \in Spaced, m \in Conditions : stamp'[r][m] = Never
  BY <1>1
<1>4. Typed'
  <2>1. PastOK'
    BY <1>1, <1>2 DEF TriggersInv, Typed, PastOK
  <2>. QED
    BY <1>1, <2>1 DEF TriggersInv, Typed, CountsOK, MidsOK, QueueOK, StampOK, JobOK
<1>5. Times'
  <2>1. \A r \in Spaced, m \in Conditions : stamp'[r][m] <= now
    BY <1>3 DEF TriggersInv, Typed, CountsOK, Never
  <2>. QED
    BY <1>1, <1>2, <2>1 DEF TriggersInv, Times
<1>6. RowsStamped'
  <2>1. \A q \in work : q.life \in Nat /\ q.life <= life /\ life \in Nat
    BY DEF TriggersInv, Typed, QueueOK, CountsOK, Row, RowsStamped
  <2>2. \A q \in work : q.life <= life + 1 /\ q.life # life + 1
    BY <2>1
  <2>. QED
    BY <1>1, <2>2 DEF RowsStamped
<1>7. (MovesAreSpaced /\ StampHasRow)'
  BY <1>1, <1>3 DEF TriggersInv, MovesAreSpaced, StampHasRow, Spaced
<1>8. (DueRested /\ JumpIsTrue /\ HandIsLast)'
  BY <1>1 DEF DueRested, JumpIsTrue, HandIsLast, InHand
<1>9. JumpIsQueued'
  <2>1. SUFFICES ASSUME NEW m \in Conditions, jumped[m] # Never
                 PROVE  \/ \E q \in work : /\ q.market = m /\ q.reason = "price_move"
                                           /\ jumped[m] - q.at < Cooldown["price_move"] + Bucket
                        \/ lost'[m] # Never /\ jumped[m] - lost'[m] < Cooldown["price_move"]
    BY <1>1 DEF JumpIsQueued
  <2>2. CASE InHand(m)
    <3>1. Cooldown["price_move"] \in Nat /\ Cooldown["price_move"] > 0
      BY TimesAssumption DEF Spaced
    <3>2. lost'[m] = job.at /\ jumped[m] = job.at /\ job.at \in Nat
      BY <1>1, <1>2, <2>2
    <3>. QED
      BY <3>1, <3>2 DEF Never
  <2>3. CASE ~InHand(m)
    BY <1>1, <2>1, <2>3 DEF TriggersInv, JumpIsQueued
  <2>. QED
    BY <2>2, <2>3
<1>. QED
  BY <1>4, <1>5, <1>6, <1>7, <1>8, <1>9 DEF TriggersInv

LEMMA StutterStep == ASSUME TriggersInv, UNCHANGED triggerVars PROVE TriggersInv'
<1>1. UNCHANGED <<now, audit, liveMid, work, stamp, job, events, faults, life, jumped, lost>>
  BY DEF triggerVars, memory, history
<1>2. Typed'
  BY <1>1 DEF TriggersInv, Typed, CountsOK, MidsOK, QueueOK, StampOK, PastOK, JobOK
<1>3. (Times /\ RowsStamped /\ DueRested /\ JumpIsTrue /\ HandIsLast /\ StampHasRow)'
  BY <1>1 DEF TriggersInv, Times, RowsStamped, DueRested, Rested, JumpIsTrue, Moves, HandIsLast, InHand, StampHasRow
<1>4. (JumpIsQueued /\ MovesAreSpaced)'
  BY <1>1 DEF TriggersInv, JumpIsQueued, InHand, MovesAreSpaced
<1>. QED
  BY <1>2, <1>3, <1>4 DEF TriggersInv

-----------------------------------------------------------------------------
(* Theorems *)

\* TriggersInv holds at every state: what the properties below need of the job in hand,
\* the stamps and the rows they left.
THEOREM TriggersInvariance == TriggersSpec => []TriggersInv
<1>1. TriggersInv /\ [TriggersNext]_triggerVars => TriggersInv'
  <2>. SUFFICES ASSUME TriggersInv, [TriggersNext]_triggerVars PROVE TriggersInv'
    OBVIOUS
  <2>. QED
    BY TickStep, ReceiveStep, PersistStep, ReadStep, EnqueueStep, UpsertStep, RestartStep, StutterStep
       DEF TriggersNext, HandleEvent
<1>. QED
  BY TriggersInvInit, <1>1, PTL DEF TriggersSpec

\* Every state of the consumer has the type that TypeOK gives it.
THEOREM TriggersTypeCorrect == TriggersSpec => []TriggersOK
<1>1. TriggersInv => TriggersOK
  <2>. SUFFICES ASSUME TriggersInv PROVE TriggersOK
    OBVIOUS
  <2>. DEFINE Lists == Seq(Spaced \cup {"trade_seen", "market_status"})
  <2>1. DueLists \subseteq Lists
    BY DEF DueLists, Spaced
  <2>. HIDE DEF Lists
  <2>2. job = Idle \/ job \in [step : {"persist", "read", "tell"}, ev : Events, at : Nat, due : Lists, jump : BOOLEAN]
    BY <2>1 DEF TriggersInv, Typed, JobOK, Jobs
  <2>. QED
    BY <2>2 DEF TriggersInv, Typed, CountsOK, MidsOK, QueueOK, StampOK, PastOK, TriggersOK, Lists
<1>. QED
  BY TriggersInvariance, <1>1, PTL

\* Whatever the cooldowns and the bucket, a jump has its row in the queue, an
\* earlier one, or the failure that hid it within one cooldown.
THEOREM EveryJumpQueued == TriggersSpec => []JumpIsQueued
<1>1. TriggersInv => JumpIsQueued
  BY DEF TriggersInv
<1>. QED
  BY TriggersInvariance, <1>1, PTL

\* Whatever the cooldowns and the bucket, the rows of one life and one reason of a
\* market are a cooldown apart.
THEOREM RowsSpaced == TriggersSpec => []MovesAreSpaced
<1>1. TriggersInv => MovesAreSpaced
  BY DEF TriggersInv
<1>. QED
  BY TriggersInvariance, <1>1, PTL

-----------------------------------------------------------------------------
(* StartUp: what each block of New leaves, in terms of the settings alone *)

\* A part is there exactly when the block that builds it was left behind and
\* the switches it asks for are on.
StoreParts ==
    /\ Built("store") <=> step > 2 /\ On("postgres")
    /\ \A p \in {"backfill", "sanity"} : Built(p) <=> step > 6 /\ On("postgres")
    /\ Built("outcomes") <=> step > 6 /\ On("postgres") /\ On("outcomes")
    /\ Built("drift") <=> step > 6 /\ On("postgres") /\ On("drift")
    /\ Built("detector") <=> step > 7
    /\ \A p \in {"bus", "promotion"} : Built(p) <=> step > 8 /\ On("postgres")
    /\ \A p \in {"links", "holders", "risk", "repricing", "graph", "theses"} :
          Built(p) <=> step > 10 /\ On("postgres")
    /\ Built("bars") <=> step > 11 /\ On("postgres")
    /\ Built("detection") <=> step > 12 /\ On("postgres")
    /\ Built("realtime") <=> step > 20 /\ On("postgres") /\ On("ws")

ChatParts ==
    /\ \A p \in {"bot", "router", "annotation", "sender"} :
          Built(p) <=> step > 5 /\ On("postgres") /\ On("telegram")
    /\ Built("analysis") <=> step > 13 /\ On("postgres")
    /\ Built("eventPages") <=> step > 13 /\ On("postgres") /\ On("eventPage")
    /\ Built("catalystNotes") <=> step > 13 /\ On("postgres") /\ On("catalysts")
    /\ Built("outcomeAI") <=> step > 14 /\ On("postgres") /\ On("telegram") /\ On("ai")
    /\ Built("importer") <=> step > 15 /\ On("postgres") /\ On("importer") /\ On("eventPage")
    /\ Built("news") <=> step > 16 /\ On("postgres") /\ On("news")
    /\ Built("quality") <=> /\ step > 17 /\ On("postgres") /\ On("telegram")
                            /\ On("admin") /\ On("qualityReports")
    /\ Built("reviews") <=> step > 19 /\ On("postgres") /\ On("telegram") /\ On("reviews")

\* The same of who was given whom.
StoreWires ==
    /\ Given("fanout", "telegram") <=> step > 4 /\ ~On("postgres") /\ On("telegram")
    /\ Given("bus", "promotion") <=> step > 8 /\ On("postgres")
    /\ Given("detector", "bus") <=> step > 9 /\ On("postgres")
    /\ Given("risk", "rulesrisk") <=> step > 10 /\ On("postgres")
    /\ Given("bars", "clob") <=> step > 11 /\ On("postgres")
    /\ Given("holders", "dataapi") <=> step > 11 /\ On("postgres") /\ On("holderSource")
    /\ Given("detection", "detector") <=> step > 12 /\ On("postgres")
    /\ Given("collect", "detector") <=> step > 12 /\ ~On("postgres")

ChatWires ==
    /\ Given("sender", "router") <=> Built("sender")
    /\ \A q \in {"analysis", "eventPages", "catalystNotes"} :
          Given("sender", q) <=> Built("sender") /\ Built(q)
    /\ \A q \in {"eventPages", "catalystNotes"} : Given("analysis", q) <=> Built(q)
    /\ \A q \in {"router", "annotation"} : Given("outcomeAI", q) <=> Built("outcomeAI")
    /\ Given("outcomeAI", "eventPages") <=> Built("outcomeAI") /\ Built("eventPages")
    /\ Given("importer", "eventPages") <=> Built("importer")
    /\ Given("quality", "router") <=> Built("quality")
    /\ Given("importer", "purse") <=> step > 18 /\ Built("importer")
    /\ \A q \in {"router", "annotation", "purse"} : Given("reviews", q) <=> Built("reviews")
    /\ \A p : Given(p, "openai") => p \in {"analysis", "outcomeAI", "importer", "news", "reviews"}

\* Only valid settings get past the first step, only the last step starts the process.
BootOK ==
    /\ step \in 0 .. 21 /\ boot \in {"building", "refused", "running"}
    /\ step > 0 => StrategiesValid
    /\ boot = "running" => step = 21

BootInv == BootOK /\ StoreParts /\ ChatParts /\ StoreWires /\ ChatWires

LEMMA BlocksLength == Len(Blocks) = 20
BY DEF Blocks

LEMMA BlocksAre ==
    /\ DOMAIN Blocks = 1 .. 20
    /\ Blocks[1] = Clients /\ Blocks[2] = Store /\ Blocks[3] = Discovery /\ Blocks[4] = Sinks
    /\ Blocks[5] = Telegram /\ Blocks[6] = StoreWorkers /\ Blocks[7] = Detector
    /\ Blocks[8] = PhaseB /\ Blocks[9] = Inputs /\ Blocks[10] = PhaseC /\ Blocks[11] = PhaseF
    /\ Blocks[12] = Detection /\ Blocks[13] = Analysis /\ Blocks[14] = Postmortems
    /\ Blocks[15] = Importer /\ Blocks[16] = News /\ Blocks[17] = Quality /\ Blocks[18] = Purse
    /\ Blocks[19] = Reviews /\ Blocks[20] = Stream
BY BlocksLength DEF Blocks

LEMMA BootStart == BootInit => BootInv
<1>. SUFFICES ASSUME BootInit PROVE BootInv
  OBVIOUS
<1>1. step = 0 /\ boot = "building" /\ parts = {} /\ wired = {}
  BY DEF BootInit
<1>2. BootOK
  BY <1>1 DEF BootOK
<1>3. StoreParts /\ ChatParts
  BY <1>1 DEF StoreParts, ChatParts, Built
<1>4. StoreWires /\ ChatWires
  BY <1>1 DEF StoreWires, ChatWires, Built, Given
<1>. QED
  BY <1>2, <1>3, <1>4 DEF BootInv

\* What a block has built and given.
After(B) == /\ parts' = parts \cup B.parts
            /\ wired' = wired \cup B.wires
            /\ step' = step + 1 /\ boot' = boot /\ settings' = settings

\* Every block keeps what is said of the parts...
LEMMA AfterParts == ASSUME BootInv, step \in 1 .. 20, After(Blocks[step]) PROVE StoreParts' /\ ChatParts'
<1>. USE DEF After, Block, If, On, BootInv, Built
<1>1. CASE step = 1
  <2>1. After(Clients)
    BY <1>1, BlocksAre
  <2>2. StoreParts'
    BY <1>1, <2>1 DEF Clients, StoreParts
  <2>3. ChatParts'
    BY <1>1, <2>1 DEF Clients, StoreParts, ChatParts
  <2>. QED
    BY <2>2, <2>3
<1>2. CASE step = 2
  <2>1. After(Store)
    BY <1>2, BlocksAre
  <2>2. StoreParts'
    BY <1>2, <2>1 DEF Store, StoreParts
  <2>3. ChatParts'
    BY <1>2, <2>1 DEF Store, StoreParts, ChatParts
  <2>. QED
    BY <2>2, <2>3
<1>3. CASE step = 3
  <2>1. After(Discovery)
    BY <1>3, BlocksAre
  <2>2. StoreParts'
    BY <1>3, <2>1 DEF Discovery, StoreParts
  <2>3. ChatParts'
    BY <1>3, <2>1 DEF Discovery, StoreParts, ChatParts
  <2>. QED
    BY <2>2, <2>3
<1>4. CASE step = 4
  <2>1. After(Sinks)
    BY <1>4, BlocksAre
  <2>2. StoreParts'
    BY <1>4, <2>1 DEF Sinks, StoreParts
  <2>3. ChatParts'
    BY <1>4, <2>1 DEF Sinks, StoreParts, ChatParts
  <2>. QED
    BY <2>2, <2>3
<1>5. CASE step = 5
  <2>1. After(Telegram)
    BY <1>5, BlocksAre
  <2>2. StoreParts'
    BY <1>5, <2>1 DEF Telegram, StoreParts
  <2>3. ChatParts'
    BY <1>5, <2>1 DEF Telegram, StoreParts, ChatParts
  <2>. QED
    BY <2>2, <2>3
<1>6. CASE step = 6
  <2>1. After(StoreWorkers)
    BY <1>6, BlocksAre
  <2>2. StoreParts'
    BY <1>6, <2>1 DEF StoreWorkers, StoreParts
  <2>3. ChatParts'
    BY <1>6, <2>1 DEF StoreWorkers, StoreParts, ChatParts
  <2>. QED
    BY <2>2, <2>3
<1>7. CASE step = 7
  <2>1. After(Detector)
    BY <1>7, BlocksAre
  <2>2. StoreParts'
    BY <1>7, <2>1 DEF Detector, StoreParts
  <2>3. ChatParts'
    BY <1>7, <2>1 DEF Detector, StoreParts, ChatParts
  <2>. QED
    BY <2>2, <2>3
<1>8. CASE step = 8
  <2>1. After(PhaseB)
    BY <1>8, BlocksAre
  <2>2. StoreParts'
    BY <1>8, <2>1 DEF PhaseB, StoreParts
  <2>3. ChatParts'
    BY <1>8, <2>1 DEF PhaseB, StoreParts, ChatParts
  <2>. QED
    BY <2>2, <2>3
<1>9. CASE step = 9
  <2>1. After(Inputs)
    BY <1>9, BlocksAre
  <2>2. StoreParts'
    BY <1>9, <2>1 DEF Inputs, StoreParts
  <2>3. ChatParts'
    BY <1>9, <2>1 DEF Inputs, StoreParts, ChatParts
  <2>. QED
    BY <2>2, <2>3
<1>10. CASE step = 10
  <2>1. After(PhaseC)
    BY <1>10, BlocksAre
  <2>2. StoreParts'
    BY <1>10, <2>1 DEF PhaseC, StoreParts
  <2>3. ChatParts'
    BY <1>10, <2>1 DEF PhaseC, StoreParts, ChatParts
  <2>. QED
    BY <2>2, <2>3
<1>11. CASE step = 11
  <2>1. After(PhaseF)
    BY <1>11, BlocksAre
  <2>2. StoreParts'
    BY <1>11, <2>1 DEF PhaseF, StoreParts
  <2>3. ChatParts'
    BY <1>11, <2>1 DEF PhaseF, StoreParts, ChatParts
  <2>. QED
    BY <2>2, <2>3
<1>12. CASE step = 12
  <2>1. After(Detection)
    BY <1>12, BlocksAre
  <2>2. StoreParts'
    BY <1>12, <2>1 DEF Detection, StoreParts
  <2>3. ChatParts'
    BY <1>12, <2>1 DEF Detection, StoreParts, ChatParts
  <2>. QED
    BY <2>2, <2>3
<1>13. CASE step = 13
  <2>1. After(Analysis)
    BY <1>13, BlocksAre
  <2>2. StoreParts'
    BY <1>13, <2>1 DEF Analysis, StoreParts, EventPageProvider, CatalystProvider
  <2>3. ChatParts'
    BY <1>13, <2>1 DEF Analysis, StoreParts, ChatParts, EventPageProvider, CatalystProvider
  <2>. QED
    BY <2>2, <2>3
<1>14. CASE step = 14
  <2>1. After(Postmortems)
    BY <1>14, BlocksAre
  <2>2. StoreParts'
    BY <1>14, <2>1 DEF Postmortems, StoreParts
  <2>3. ChatParts'
    BY <1>14, <2>1 DEF Postmortems, StoreParts, ChatParts
  <2>. QED
    BY <2>2, <2>3
<1>15. CASE step = 15
  <2>1. After(Importer)
    BY <1>15, BlocksAre
  <2>2. StoreParts'
    BY <1>15, <2>1 DEF Importer, StoreParts
  <2>3. ChatParts'
    BY <1>15, <2>1 DEF Importer, StoreParts, ChatParts
  <2>. QED
    BY <2>2, <2>3
<1>16. CASE step = 16
  <2>1. After(News)
    BY <1>16, BlocksAre
  <2>2. StoreParts'
    BY <1>16, <2>1 DEF News, StoreParts
  <2>3. ChatParts'
    BY <1>16, <2>1 DEF News, StoreParts, ChatParts
  <2>. QED
    BY <2>2, <2>3
<1>17. CASE step = 17
  <2>1. After(Quality)
    BY <1>17, BlocksAre
  <2>2. StoreParts'
    BY <1>17, <2>1 DEF Quality, StoreParts
  <2>3. ChatParts'
    BY <1>17, <2>1 DEF Quality, StoreParts, ChatParts
  <2>. QED
    BY <2>2, <2>3
<1>18. CASE step = 18
  <2>1. After(Purse)
    BY <1>18, BlocksAre
  <2>2. StoreParts'
    BY <1>18, <2>1 DEF Purse, StoreParts
  <2>3. ChatParts'
    BY <1>18, <2>1 DEF Purse, StoreParts, ChatParts
  <2>. QED
    BY <2>2, <2>3
<1>19. CASE step = 19
  <2>1. After(Reviews)
    BY <1>19, BlocksAre
  <2>2. StoreParts'
    BY <1>19, <2>1 DEF Reviews, StoreParts
  <2>3. ChatParts'
    BY <1>19, <2>1 DEF Reviews, StoreParts, ChatParts
  <2>. QED
    BY <2>2, <2>3
<1>20. CASE step = 20
  <2>1. After(Stream)
    BY <1>20, BlocksAre
  <2>2. StoreParts'
    BY <1>20, <2>1 DEF Stream, StoreParts
  <2>3. ChatParts'
    BY <1>20, <2>1 DEF Stream, StoreParts, ChatParts
  <2>. QED
    BY <2>2, <2>3
<1>. QED
  BY <1>1, <1>2, <1>3, <1>4, <1>5, <1>6, <1>7, <1>8, <1>9, <1>10, <1>11, <1>12, <1>13, <1>14, <1>15, <1>16, <1>17, <1>18, <1>19, <1>20

\* ... and of the wires.
LEMMA AfterWires == ASSUME BootInv, step \in 1 .. 20, After(Blocks[step]) PROVE StoreWires' /\ ChatWires'
<1>. USE DEF After, Block, If, On, BootInv, Built, Given
<1>1. CASE step = 1
  <2>1. After(Clients)
    BY <1>1, BlocksAre
  <2>2. StoreWires'
    BY <1>1, <2>1 DEF Clients, StoreParts, StoreWires
  <2>3. ChatWires'
    BY <1>1, <2>1 DEF Clients, StoreParts, ChatParts, ChatWires
  <2>. QED
    BY <2>2, <2>3
<1>2. CASE step = 2
  <2>1. After(Store)
    BY <1>2, BlocksAre
  <2>2. StoreWires'
    BY <1>2, <2>1 DEF Store, StoreParts, StoreWires
  <2>3. ChatWires'
    BY <1>2, <2>1 DEF Store, StoreParts, ChatParts, ChatWires
  <2>. QED
    BY <2>2, <2>3
<1>3. CASE step = 3
  <2>1. After(Discovery)
    BY <1>3, BlocksAre
  <2>2. StoreWires'
    BY <1>3, <2>1 DEF Discovery, StoreParts, StoreWires
  <2>3. ChatWires'
    BY <1>3, <2>1 DEF Discovery, StoreParts, ChatParts, ChatWires
  <2>. QED
    BY <2>2, <2>3
<1>4. CASE step = 4
  <2>1. After(Sinks)
    BY <1>4, BlocksAre
  <2>2. StoreWires'
    BY <1>4, <2>1 DEF Sinks, StoreParts, StoreWires
  <2>3. ChatWires'
    BY <1>4, <2>1 DEF Sinks, StoreParts, ChatParts, ChatWires
  <2>. QED
    BY <2>2, <2>3
<1>5. CASE step = 5
  <2>1. After(Telegram)
    BY <1>5, BlocksAre
  <2>2. StoreWires'
    BY <1>5, <2>1 DEF Telegram, StoreParts, StoreWires
  <2>3. ChatWires'
    BY <1>5, <2>1 DEF Telegram, StoreParts, ChatParts, ChatWires
  <2>. QED
    BY <2>2, <2>3
<1>6. CASE step = 6
  <2>1. After(StoreWorkers)
    BY <1>6, BlocksAre
  <2>2. StoreWires'
    BY <1>6, <2>1 DEF StoreWorkers, StoreParts, StoreWires
  <2>3. ChatWires'
    BY <1>6, <2>1 DEF StoreWorkers, StoreParts, ChatParts, ChatWires
  <2>. QED
    BY <2>2, <2>3
<1>7. CASE step = 7
  <2>1. After(Detector)
    BY <1>7, BlocksAre
  <2>2. StoreWires'
    BY <1>7, <2>1 DEF Detector, StoreParts, StoreWires
  <2>3. ChatWires'
    BY <1>7, <2>1 DEF Detector, StoreParts, ChatParts, ChatWires
  <2>. QED
    BY <2>2, <2>3
<1>8. CASE step = 8
  <2>1. After(PhaseB)
    BY <1>8, BlocksAre
  <2>2. StoreWires'
    BY <1>8, <2>1 DEF PhaseB, StoreParts, StoreWires
  <2>3. ChatWires'
    BY <1>8, <2>1 DEF PhaseB, StoreParts, ChatParts, ChatWires
  <2>. QED
    BY <2>2, <2>3
<1>9. CASE step = 9
  <2>1. After(Inputs)
    BY <1>9, BlocksAre
  <2>2. StoreWires'
    BY <1>9, <2>1 DEF Inputs, StoreParts, StoreWires
  <2>3. ChatWires'
    BY <1>9, <2>1 DEF Inputs, StoreParts, ChatParts, ChatWires
  <2>. QED
    BY <2>2, <2>3
<1>10. CASE step = 10
  <2>1. After(PhaseC)
    BY <1>10, BlocksAre
  <2>2. StoreWires'
    BY <1>10, <2>1 DEF PhaseC, StoreParts, StoreWires
  <2>3. ChatWires'
    BY <1>10, <2>1 DEF PhaseC, StoreParts, ChatParts, ChatWires
  <2>. QED
    BY <2>2, <2>3
<1>11. CASE step = 11
  <2>1. After(PhaseF)
    BY <1>11, BlocksAre
  <2>2. StoreWires'
    BY <1>11, <2>1 DEF PhaseF, StoreParts, StoreWires
  <2>3. ChatWires'
    BY <1>11, <2>1 DEF PhaseF, StoreParts, ChatParts, ChatWires
  <2>. QED
    BY <2>2, <2>3
<1>12. CASE step = 12
  <2>1. After(Detection)
    BY <1>12, BlocksAre
  <2>2. StoreWires'
    BY <1>12, <2>1 DEF Detection, StoreParts, StoreWires
  <2>3. ChatWires'
    BY <1>12, <2>1 DEF Detection, StoreParts, ChatParts, ChatWires
  <2>. QED
    BY <2>2, <2>3
<1>13. CASE step = 13
  <2>1. After(Analysis)
    BY <1>13, BlocksAre
  <2>2. StoreWires'
    BY <1>13, <2>1 DEF Analysis, StoreParts, StoreWires, EventPageProvider, CatalystProvider
  <2>3. ChatWires'
    BY <1>13, <2>1 DEF Analysis, StoreParts, ChatParts, ChatWires, EventPageProvider, CatalystProvider
  <2>. QED
    BY <2>2, <2>3
<1>14. CASE step = 14
  <2>1. After(Postmortems)
    BY <1>14, BlocksAre
  <2>2. StoreWires'
    BY <1>14, <2>1 DEF Postmortems, StoreParts, StoreWires
  <2>3. ChatWires'
    BY <1>14, <2>1 DEF Postmortems, StoreParts, ChatParts, ChatWires
  <2>. QED
    BY <2>2, <2>3
<1>15. CASE step = 15
  <2>1. After(Importer)
    BY <1>15, BlocksAre
  <2>2. StoreWires'
    BY <1>15, <2>1 DEF Importer, StoreParts, StoreWires
  <2>3. ChatWires'
    BY <1>15, <2>1 DEF Importer, StoreParts, ChatParts, ChatWires
  <2>. QED
    BY <2>2, <2>3
<1>16. CASE step = 16
  <2>1. After(News)
    BY <1>16, BlocksAre
  <2>2. StoreWires'
    BY <1>16, <2>1 DEF News, StoreParts, StoreWires
  <2>3. ChatWires'
    BY <1>16, <2>1 DEF News, StoreParts, ChatParts, ChatWires
  <2>. QED
    BY <2>2, <2>3
<1>17. CASE step = 17
  <2>1. After(Quality)
    BY <1>17, BlocksAre
  <2>2. StoreWires'
    BY <1>17, <2>1 DEF Quality, StoreParts, StoreWires
  <2>3. ChatWires'
    BY <1>17, <2>1 DEF Quality, StoreParts, ChatParts, ChatWires
  <2>. QED
    BY <2>2, <2>3
<1>18. CASE step = 18
  <2>1. After(Purse)
    BY <1>18, BlocksAre
  <2>2. StoreWires'
    BY <1>18, <2>1 DEF Purse, StoreParts, StoreWires
  <2>3. ChatWires'
    BY <1>18, <2>1 DEF Purse, StoreParts, ChatParts, ChatWires
  <2>. QED
    BY <2>2, <2>3
<1>19. CASE step = 19
  <2>1. After(Reviews)
    BY <1>19, BlocksAre
  <2>2. StoreWires'
    BY <1>19, <2>1 DEF Reviews, StoreParts, StoreWires
  <2>3. ChatWires'
    BY <1>19, <2>1 DEF Reviews, StoreParts, ChatParts, ChatWires
  <2>. QED
    BY <2>2, <2>3
<1>20. CASE step = 20
  <2>1. After(Stream)
    BY <1>20, BlocksAre
  <2>2. StoreWires'
    BY <1>20, <2>1 DEF Stream, StoreParts, StoreWires
  <2>3. ChatWires'
    BY <1>20, <2>1 DEF Stream, StoreParts, ChatParts, ChatWires
  <2>. QED
    BY <2>2, <2>3
<1>. QED
  BY <1>1, <1>2, <1>3, <1>4, <1>5, <1>6, <1>7, <1>8, <1>9, <1>10, <1>11, <1>12, <1>13, <1>14, <1>15, <1>16, <1>17, <1>18, <1>19, <1>20

\* A step that leaves the parts, the wires and the place in New alone.
LEMMA BootRests ==
    ASSUME BootInv, UNCHANGED <<settings, parts, wired>>, step' = step, BootOK'
    PROVE  BootInv'
BY DEF BootInv, StoreParts, ChatParts, StoreWires, ChatWires, Built, Given, On

\* LoadConfig: nothing is built before the first block.
LEMMA LoadStep == ASSUME BootInv, Load PROVE BootInv'
<1>1. step = 0 /\ step' \in {0, 1} /\ UNCHANGED <<settings, parts, wired>>
  BY DEF Load
<1>2. BootOK'
  BY DEF Load, BootInv, BootOK, StrategiesValid, On
<1>3. StoreParts' /\ ChatParts'
  BY <1>1 DEF BootInv, StoreParts, ChatParts, Built, On
<1>4. StoreWires' /\ ChatWires'
  BY <1>1, <1>3 DEF BootInv, StoreParts, ChatParts, StoreWires, ChatWires, Built, Given, On
<1>. QED
  BY <1>2, <1>3, <1>4 DEF BootInv

LEMMA BuildStep == ASSUME BootInv, Build PROVE BootInv'
<1>1. step \in 1 .. 20
  BY BlocksAre DEF Build
<1>2. CASE After(Blocks[step])
  <2>1. BootOK'
    BY <1>1, <1>2 DEF Build, After, BootInv, BootOK, StrategiesValid, On
  <2>. QED
    BY <1>1, <1>2, <2>1, AfterParts, AfterWires DEF BootInv
<1>3. CASE boot' = "refused" /\ UNCHANGED <<step, parts, wired>>
  <2>1. UNCHANGED settings
    BY DEF Build
  <2>2. BootOK'
    BY <1>3, <2>1 DEF BootInv, BootOK, StrategiesValid, On
  <2>. QED
    BY <1>3, <2>1, <2>2, BootRests
<1>. QED
  BY <1>2, <1>3 DEF Build, After

LEMMA BootInvNext == ASSUME BootInv, [BootNext]_allVars PROVE BootInv'
<1>1. CASE Load
  BY <1>1, LoadStep
<1>2. CASE Build
  BY <1>2, BuildStep
<1>3. CASE StoreFails \/ Launch
  <2>1. BootOK'
    BY <1>3, BlocksLength DEF StoreFails, Launch, BootInv, BootOK, StrategiesValid, On
  <2>. QED
    BY <1>3, <2>1, BootRests DEF StoreFails, Launch
<1>4. CASE UNCHANGED bootVars
  <2>1. BootOK'
    BY <1>4 DEF bootVars, BootInv, BootOK, StrategiesValid, On
  <2>. QED
    BY <1>4, <2>1, BootRests DEF bootVars
<1>. QED
  BY <1>1, <1>2, <1>3, <1>4 DEF BootNext, allVars

LEMMA BootInvariance == BootSpec => []BootInv
<1>1. BootInit => BootInv
  BY BootStart
<1>2. BootInv /\ [BootNext]_allVars => BootInv'
  BY BootInvNext
<1>. QED
  BY <1>1, <1>2, PTL DEF BootSpec

-----------------------------------------------------------------------------
(* What follows for a process that has started *)

LEMMA NobodyLacks == BootInv => HasWhatItUses
<1>. SUFFICES ASSUME BootInv PROVE HasWhatItUses
  OBVIOUS
<1>. USE DEF BootInv, StoreParts, ChatParts, StoreWires, ChatWires
<1>1. /\ Built("sender") => Given("sender", "router")
      /\ Built("outcomeAI") => Given("outcomeAI", "router") /\ Given("outcomeAI", "annotation")
      /\ Built("reviews") => Given("reviews", "router") /\ Given("reviews", "annotation")
      /\ Built("quality") => Given("quality", "router")
  OBVIOUS
<1>2. /\ Built("reviews") => Given("reviews", "purse")
      /\ Built("importer") => Given("importer", "eventPages")
      /\ Built("risk") => Given("risk", "rulesrisk")
  OBVIOUS
<1>3. Given("collect", "detector") \/ Given("detection", "detector") => Built("detector")
  BY DEF BootOK
<1>4. ASSUME NEW p \in {"sender", "backfill", "sanity", "outcomes", "drift", "detection", "bus",
                        "analysis", "outcomeAI", "importer", "news", "quality", "reviews",
                        "realtime", "bars"}, Built(p)
      PROVE  Built("store")
  BY <1>4 DEF BootOK
<1>. QED
  BY <1>1, <1>2, <1>3, <1>4 DEF HasWhatItUses, Built

\* What stands behind each table, one by one.
LEMMA FedIs ==
    /\ Fed["links"] = (Works("links") /\ On("linkVersion"))
    /\ Fed["theses"] = Works("theses")
    /\ Fed["catalysts"] = Works("importer")
    /\ Fed["edges"] = (Works("graph") /\ On("edgeVersion"))
    /\ Fed["holders"] = (Works("holders") /\ Given("holders", "dataapi"))
    /\ Fed["bars"] = (Works("bars") /\ Given("bars", "clob"))
    /\ Fed["windows"] = (Works("repricing") /\ Works("importer") /\ Works("links"))
    /\ Fed["risk"] = Works("risk")
BY DEF Fed

LEMMA NeedsAre ==
    /\ Needs["links"] = {"links", "linkVersion"}
    /\ Needs["theses"] = {"theses"}
    /\ Needs["catalysts"] = {"importer", "eventPage"}
    /\ Needs["edges"] = {"graph", "edgeVersion"}
    /\ Needs["holders"] = {"holders", "holderSource"}
    /\ Needs["bars"] = {"bars"}
    /\ Needs["windows"] = {"repricing", "importer", "eventPage", "links"}
    /\ Needs["risk"] = {"risk"}
BY DEF Needs

LEMMA NobodyStarves == ASSUME BootInv, boot = "running" PROVE StarvingHasCause
<1>1. SUFFICES ASSUME Given("detector", "bus"),
                      NEW s \in DOMAIN ReadsFrom, NEW t \in ReadsFrom[s], On(s), ~Fed[t]
               PROVE  t # "bars" /\ ~(Needs[t] \subseteq settings)
  BY DEF StarvingHasCause
<1>2. step = 21 /\ StrategiesValid
  BY DEF BootInv, BootOK
<1>3. On("postgres")
  BY <1>1 DEF BootInv, StoreWires
<1>4. /\ Built("links") /\ Built("theses") /\ Built("graph") /\ Built("holders")
      /\ Built("risk") /\ Built("repricing") /\ Built("bars") /\ Given("bars", "clob")
  BY <1>2, <1>3 DEF BootInv, StoreParts, StoreWires
<1>5. /\ Built("importer") <=> On("importer") /\ On("eventPage")
      /\ Given("holders", "dataapi") <=> On("holderSource")
  BY <1>2, <1>3 DEF BootInv, ChatParts, StoreWires
<1>6. t \in {"links", "theses", "catalysts", "edges", "holders", "bars", "windows", "risk"}
      /\ (t = "bars" => s = "bookvacuum")
  BY <1>1 DEF ReadsFrom
<1>7. On("bookvacuum") => On("bars")
  BY <1>2 DEF StrategiesValid
<1>8. CASE t = "bars"
  <2>1. Fed["bars"]
    BY <1>1, <1>4, <1>6, <1>7, <1>8, FedIs, Zenon DEF Works
  <2>. QED
    BY <1>1, <1>8, <2>1
<1>9. CASE t = "links"
  <2>1. ~On("links") \/ ~On("linkVersion")
    BY <1>1, <1>4, <1>9, FedIs, Zenon DEF Works
  <2>. QED
    BY <1>9, <2>1, NeedsAre DEF On
<1>10. CASE t = "theses"
  <2>1. ~On("theses")
    BY <1>1, <1>4, <1>10, FedIs, Zenon DEF Works
  <2>. QED
    BY <1>10, <2>1, NeedsAre DEF On
<1>11. CASE t = "catalysts"
  <2>1. ~On("importer") \/ ~On("eventPage")
    BY <1>1, <1>5, <1>11, FedIs, Zenon DEF Works
  <2>. QED
    BY <1>11, <2>1, NeedsAre DEF On
<1>12. CASE t = "edges"
  <2>1. ~On("graph") \/ ~On("edgeVersion")
    BY <1>1, <1>4, <1>12, FedIs, Zenon DEF Works
  <2>. QED
    BY <1>12, <2>1, NeedsAre DEF On
<1>13. CASE t = "holders"
  <2>1. ~On("holders") \/ ~On("holderSource")
    BY <1>1, <1>4, <1>5, <1>13, FedIs, Zenon DEF Works
  <2>. QED
    BY <1>13, <2>1, NeedsAre DEF On
<1>14. CASE t = "windows"
  <2>1. ~On("repricing") \/ ~On("importer") \/ ~On("eventPage") \/ ~On("links")
    BY <1>1, <1>4, <1>5, <1>14, FedIs, Zenon DEF Works
  <2>. QED
    BY <1>14, <2>1, NeedsAre DEF On
<1>15. CASE t = "risk"
  <2>1. ~On("risk")
    BY <1>1, <1>4, <1>15, FedIs, Zenon DEF Works
  <2>. QED
    BY <1>15, <2>1, NeedsAre DEF On
<1>. QED
  BY <1>6, <1>8, <1>9, <1>10, <1>11, <1>12, <1>13, <1>14, <1>15

LEMMA Started ==
    ASSUME BootInv, boot = "running"
    PROVE  NothingUnwired /\ OneWay /\ BuyersAsk
<1>. USE DEF BootInv, StoreParts, ChatParts, StoreWires, ChatWires
<1>0. step = 21 /\ StrategiesValid
  BY DEF BootOK
<1>1. NothingUnwired
  <2>1. ASSUME NEW p, NEW q, Built(p), Built(q),
               \/ p = "sender" /\ q \in {"analysis", "eventPages", "catalystNotes"}
               \/ p = "analysis" /\ q \in {"eventPages", "catalystNotes"}
               \/ p = "outcomeAI" /\ q = "eventPages"
               \/ p = "importer" /\ q = "purse"
               \/ p = "detector" /\ q = "bus"
               \/ p = "bus" /\ q = "promotion"
        PROVE  Given(p, q)
    BY <1>0, <2>1
  <2>. QED
    BY <2>1 DEF NothingUnwired, Given
<1>2. OneWay
  BY <1>0 DEF OneWay
<1>3. BuyersAsk
  <2>1. ASSUME NEW p \in parts, Given(p, "openai")
        PROVE  Given(p, "purse") \/ p \in {"analysis", "outcomeAI", "news"}
    <3>1. p \in {"analysis", "outcomeAI", "importer", "news", "reviews"} /\ Built(p)
      BY <2>1 DEF Built
    <3>. QED
      BY <1>0, <3>1
  <2>. QED
    BY <2>1 DEF BuyersAsk
<1>. QED
  BY <1>1, <1>2, <1>3

\* Whatever configurations are started and whatever is on or off in them, every
\* part that New sets up has what it calls, and nothing starves without a cause.
THEOREM EverybodyIsWired == BootSpec => []NobodyIsLeftOut
<1>1. BootInv => NobodyIsLeftOut
  BY NobodyLacks, NobodyStarves, Started DEF NobodyIsLeftOut
<1>. QED
  BY <1>1, BootInvariance, PTL

\* With New in front of it the process is still the one of Runtime, so what is
\* proved of Runtime holds of it.
THEOREM BootRuns == BootSpec => Spec
<1>1. BootInit => Init
  BY DEF BootInit
<1>2. [BootNext]_allVars => [Next]_vars
  BY DEF BootNext, allVars
<1>. QED
  BY <1>1, <1>2, PTL DEF BootSpec, Spec

-----------------------------------------------------------------------------
(* Induction over data *)

\* Every set of natural numbers that is not empty has a least one: the two
\* inductions below follow from it, one over numbers and one over finite sets.
LEMMA LeastNat ==
    ASSUME NEW S, S \subseteq Nat, S # {}
    PROVE  \E n \in S : \A m \in S : n <= m
<1>. DEFINE R == OpToRel(<, Nat)
<1>1. IsWellFoundedOn(R, Nat)
  BY NatLessThanWellFounded, Zenon
<1>2. \A m, n \in Nat : m < n => <<m, n>> \in R
  BY DEF OpToRel
<1>. HIDE DEF R
<1>3. PICK n \in S : \A m \in S : ~(<<m, n>> \in R)
  BY <1>1, WFMin, Zenon
<1>4. \A m \in S : ~(m < n)
  BY <1>2, <1>3, Zenon
<1>. QED
  BY <1>4

\* A set with 0 in it and, with a number, the next one, has every number in it.
LEMMA EveryNumber ==
    ASSUME NEW F, 0 \in F, \A n \in Nat : n \in F => n + 1 \in F
    PROVE  Nat \subseteq F
<1>. DEFINE Bad == Nat \ F
<1>. SUFFICES ASSUME Bad # {} PROVE FALSE
  OBVIOUS
<1>1. PICK n \in Bad : \A m \in Bad : n <= m
  BY LeastNat, Zenon
<1>2. n # 0 /\ n - 1 \in Nat
  OBVIOUS
<1>3. n - 1 \in F
  BY <1>1, <1>2
<1>. QED
  BY <1>2, <1>3

\* A family of sets that holds the empty one and, with a set, the set and one
\* element more, holds every finite set.
LEMMA EveryFinite ==
    ASSUME NEW S, IsFiniteSet(S), NEW F, {} \in F,
           \A T \in SUBSET S : \A x \in S \ T : T \in F => T \cup {x} \in F
    PROVE  S \in F
<1>. DEFINE Upto(n) == \A T \in SUBSET S : Cardinality(T) = n => T \in F
            G == {n \in Nat : Upto(n)}
<1>1. Upto(0)
  <2>. SUFFICES ASSUME NEW T \in SUBSET S, Cardinality(T) = 0 PROVE T \in F
    OBVIOUS
  <2>1. T = {}
    BY FS_Subset, FS_EmptySet
  <2>. QED
    BY <2>1
<1>2. ASSUME NEW n \in Nat, Upto(n) PROVE Upto(n + 1)
  <2>. SUFFICES ASSUME NEW T \in SUBSET S, Cardinality(T) = n + 1 PROVE T \in F
    OBVIOUS
  <2>1. IsFiniteSet(T)
    BY FS_Subset
  <2>2. T # {}
    <3>1. Cardinality(T) # 0
      OBVIOUS
    <3>. QED
      BY <3>1, FS_EmptySet, Zenon
  <2>3. PICK x \in T : TRUE
    BY <2>2
  <2>4. Cardinality(T \ {x}) = n
    <3>1. Cardinality(T \ {x}) = Cardinality(T) - 1
      BY <2>1, FS_RemoveElement, Zenon
    <3>. QED
      BY <3>1
  <2>5. T \ {x} \in F
    BY <1>2, <2>4
  <2>6. (T \ {x}) \cup {x} \in F
    BY <2>5
  <2>. QED
    BY <2>6, Zenon
<1>3. 0 \in G
  BY <1>1
<1>4. \A n \in Nat : n \in G => n + 1 \in G
  BY <1>2
<1>. HIDE DEF G
<1>5. Nat \subseteq G
  BY <1>3, <1>4, EveryNumber
<1>. QED
  BY <1>5, FS_CardinalityType DEF G

-----------------------------------------------------------------------------
(* Sums *)

\* The equation of a sum, on the sets of at most n elements of D.
UpTo(D, n) == {U \in SUBSET D : Cardinality(U) <= n}
\* The element a sum takes first, and the equation of a sum: what it adds to the
\* sum of the rest; a solution for the sets of at most n elements, and one for all.
One(U) == CHOOSE u \in U : TRUE
Adds(v, g, U) == IF U = {} THEN 0 ELSE v[One(U)] + g[U \ {One(U)}]
Solves(v, g, D, n) == g = [U \in UpTo(D, n) |-> Adds(v, g, U)]
Solution(v, D) == CHOOSE g : g = [U \in SUBSET D |-> Adds(v, g, U)]

\* Without the element it picks, a set is smaller by one.
LEMMA OneLess ==
    ASSUME NEW U, IsFiniteSet(U), U # {}
    PROVE  /\ One(U) \in U /\ IsFiniteSet(U \ {One(U)})
           /\ Cardinality(U) \in Nat /\ Cardinality(U \ {One(U)}) \in Nat
           /\ Cardinality(U) = Cardinality(U \ {One(U)}) + 1
<1>1. One(U) \in U
  BY DEF One
<1>2. /\ IsFiniteSet(U \ {One(U)})
      /\ Cardinality(U \ {One(U)}) = Cardinality(U) - 1
  BY <1>1, FS_RemoveElement
<1>3. Cardinality(U) \in Nat /\ Cardinality(U \ {One(U)}) \in Nat
  BY <1>2, FS_CardinalityType
<1>. QED
  BY <1>1, <1>2, <1>3

\* The equation has a solution on the sets of at most n elements, for every n.
LEMMA SumSolvable ==
    ASSUME NEW v, NEW D, IsFiniteSet(D)
    PROVE  \A n \in Nat : \E g : Solves(v, g, D, n)
<1>. DEFINE F == {n \in Nat : \E g : Solves(v, g, D, n)}
<1>1. 0 \in F
  <2>. DEFINE g == [U \in UpTo(D, 0) |-> 0]
  <2>1. \A U \in UpTo(D, 0) : U = {}
    <3>. SUFFICES ASSUME NEW U \in SUBSET D, Cardinality(U) <= 0, U # {} PROVE FALSE
      BY DEF UpTo
    <3>1. IsFiniteSet(U)
      BY FS_Subset
    <3>2. Cardinality(U) = Cardinality(U \ {One(U)}) + 1 /\ Cardinality(U \ {One(U)}) \in Nat
      BY <3>1, OneLess, Zenon
    <3>. QED
      BY <3>2
  <2>2. \A U \in UpTo(D, 0) : Adds(v, g, U) = 0
    BY <2>1 DEF Adds
  <2>3. Solves(v, g, D, 0)
    BY <2>2 DEF Solves
  <2>. QED
    BY <2>3
<1>2. ASSUME NEW n \in Nat, n \in F PROVE n + 1 \in F
  <2>1. PICK g : Solves(v, g, D, n)
    BY <1>2
  <2>. DEFINE h == [U \in UpTo(D, n + 1) |-> Adds(v, g, U)]
  <2>2. ASSUME NEW U \in UpTo(D, n + 1) PROVE Adds(v, g, U) = Adds(v, h, U)
    <3>1. CASE U = {}
      BY <3>1 DEF Adds
    <3>2. CASE U # {}
      <4>. DEFINE V == U \ {One(U)}
      <4>1. IsFiniteSet(U)
        BY FS_Subset DEF UpTo
      <4>2. V \in UpTo(D, n) /\ V \in UpTo(D, n + 1)
        <5>1. /\ Cardinality(U) = Cardinality(V) + 1
              /\ Cardinality(V) \in Nat /\ Cardinality(U) \in Nat
          BY <3>2, <4>1, OneLess, Zenon
        <5>2. Cardinality(V) <= n /\ Cardinality(V) <= n + 1
          BY <5>1 DEF UpTo
        <5>. QED
          BY <5>2 DEF UpTo
      <4>3. g[V] = Adds(v, g, V)
        <5>1. g = [W \in UpTo(D, n) |-> Adds(v, g, W)]
          BY <2>1 DEF Solves
        <5>. HIDE DEF V
        <5>. QED
          BY <4>2, <5>1, Zenon
      <4>4. h[V] = Adds(v, g, V)
        BY <4>2
      <4>. QED
        BY <3>2, <4>3, <4>4 DEF Adds
    <3>. QED
      BY <3>1, <3>2
  <2>3. Solves(v, h, D, n + 1)
    <3>1. h = [U \in UpTo(D, n + 1) |-> Adds(v, h, U)]
      BY <2>2
    <3>. QED
      BY <3>1 DEF Solves
  <2>. QED
    BY <2>3
<1>. HIDE DEF F
<1>3. Nat \subseteq F
  BY <1>1, <1>2, EveryNumber
<1>. QED
  BY <1>3 DEF F

\* What is chosen as the solution solves the equation.
LEMMA SolutionIs ==
    ASSUME NEW v, NEW D, IsFiniteSet(D)
    PROVE  \A U \in SUBSET D : Solution(v, D)[U] = Adds(v, Solution(v, D), U)
<1>1. UpTo(D, Cardinality(D)) = SUBSET D /\ Cardinality(D) \in Nat
  BY FS_Subset, FS_CardinalityType DEF UpTo
<1>2. PICK g : g = [U \in SUBSET D |-> Adds(v, g, U)]
  <2>1. PICK g : Solves(v, g, D, Cardinality(D))
    BY <1>1, SumSolvable
  <2>. QED
    BY <1>1, <2>1 DEF Solves
<1>3. Solution(v, D) = [U \in SUBSET D |-> Adds(v, Solution(v, D), U)]
  BY <1>2, Zenon DEF Solution
<1>. QED
  BY <1>3, Zenon

\* Total is read off from the solution over its own set.
LEMMA TotalIs ==
    ASSUME NEW v, NEW S
    PROVE  Total(v, S) = Solution(v, S)[S]
BY Zenon DEF Total, MapThenSumSet, MapThenFoldSet, Solution, Adds, One

\* The sum over a set does not depend on the set it is looked at in.
LEMMA SolutionsAgree ==
    ASSUME NEW v, NEW D, IsFiniteSet(D), NEW E \in SUBSET D
    PROVE  Solution(v, D)[E] = Solution(v, E)[E]
<1>. DEFINE F == {n \in Nat : \A U \in SUBSET E :
                     Cardinality(U) = n => Solution(v, D)[U] = Solution(v, E)[U]}
<1>0. IsFiniteSet(E)
  BY FS_Subset
<1>1. 0 \in F
  <2>1. \A U \in SUBSET E : Cardinality(U) = 0 => U = {}
    BY <1>0, FS_Subset, FS_EmptySet
  <2>2. Solution(v, D)[{}] = 0 /\ Solution(v, E)[{}] = 0
    BY <1>0, SolutionIs, Zenon DEF Adds
  <2>. QED
    BY <2>1, <2>2
<1>2. ASSUME NEW n \in Nat, n \in F PROVE n + 1 \in F
  <2>. SUFFICES ASSUME NEW U \in SUBSET E, Cardinality(U) = n + 1
                PROVE  Solution(v, D)[U] = Solution(v, E)[U]
    OBVIOUS
  <2>1. IsFiniteSet(U) /\ U # {}
    BY <1>0, FS_Subset, FS_EmptySet
  <2>2. U \ {One(U)} \in SUBSET E /\ Cardinality(U \ {One(U)}) = n
    BY <2>1, OneLess
  <2>3. Solution(v, D)[U \ {One(U)}] = Solution(v, E)[U \ {One(U)}]
    BY <1>2, <2>2
  <2>4. Solution(v, D)[U] = Adds(v, Solution(v, D), U) /\ Solution(v, E)[U] = Adds(v, Solution(v, E), U)
    BY <1>0, SolutionIs
  <2>. QED
    BY <2>1, <2>3, <2>4 DEF Adds
<1>. HIDE DEF F
<1>3. Nat \subseteq F
  BY <1>1, <1>2, EveryNumber
<1>4. Cardinality(E) \in Nat
  BY <1>0, FS_CardinalityType
<1>. QED
  BY <1>3, <1>4 DEF F

\* A sum is nothing of nothing, and else one value and the sum of the rest.
LEMMA TotalUnfolds ==
    ASSUME NEW v, NEW S, IsFiniteSet(S)
    PROVE  Total(v, S) = IF S = {} THEN 0 ELSE v[One(S)] + Total(v, S \ {One(S)})
<1>1. Total(v, S) = Adds(v, Solution(v, S), S)
  BY TotalIs, SolutionIs
<1>2. Solution(v, S)[S \ {One(S)}] = Total(v, S \ {One(S)})
  BY TotalIs, SolutionsAgree
<1>. QED
  BY <1>1, <1>2 DEF Adds

\* The sum of nothing.
LEMMA TotalEmpty == ASSUME NEW v PROVE Total(v, {}) = 0
BY TotalUnfolds, FS_EmptySet, Zenon

\* The sum of integers is one.
LEMMA TotalInt ==
    ASSUME NEW v, NEW S, IsFiniteSet(S), \A x \in S : v[x] \in Int
    PROVE  Total(v, S) \in Int
<1>. DEFINE F == {n \in Nat : \A T \in SUBSET S : Cardinality(T) = n => Total(v, T) \in Int}
<1>1. 0 \in F
  <2>1. \A T \in SUBSET S : Cardinality(T) = 0 => T = {}
    BY FS_Subset, FS_EmptySet
  <2>. QED
    BY <2>1, TotalEmpty
<1>2. ASSUME NEW n \in Nat, n \in F PROVE n + 1 \in F
  <2>. SUFFICES ASSUME NEW T \in SUBSET S, Cardinality(T) = n + 1 PROVE Total(v, T) \in Int
    OBVIOUS
  <2>1. IsFiniteSet(T) /\ T # {}
    BY FS_Subset, FS_EmptySet
  <2>2. One(T) \in T /\ T \ {One(T)} \in SUBSET S /\ Cardinality(T \ {One(T)}) = n
    BY <2>1, OneLess
  <2>3. Total(v, T \ {One(T)}) \in Int /\ v[One(T)] \in Int
    BY <1>2, <2>2
  <2>4. Total(v, T) = v[One(T)] + Total(v, T \ {One(T)})
    BY <2>1, TotalUnfolds
  <2>. QED
    BY <2>3, <2>4
<1>. HIDE DEF F
<1>3. Nat \subseteq F
  BY <1>1, <1>2, EveryNumber
<1>. QED
  BY <1>3, FS_CardinalityType DEF F

\* A sum does not depend on the order it is taken in: one element more adds its value.
LEMMA TotalAdd ==
    ASSUME NEW v, NEW S, IsFiniteSet(S), NEW x, x \notin S, \A y \in S \cup {x} : v[y] \in Int
    PROVE  Total(v, S \cup {x}) = Total(v, S) + v[x]
<1>. DEFINE Adding(T, y) == Total(v, T \cup {y}) = Total(v, T) + v[y]
            W == S \cup {x}
            F == {n \in Nat : \A T \in SUBSET W : \A y \in W \ T : Cardinality(T) = n => Adding(T, y)}
<1>0. IsFiniteSet(W)
  BY FS_AddElement
<1>1. ASSUME NEW T \in SUBSET W, NEW y \in W \ T, One(T \cup {y}) = y PROVE Adding(T, y)
  <2>. DEFINE U == T \cup {y}
  <2>1. IsFiniteSet(U) /\ U # {} /\ U \ {y} = T /\ IsFiniteSet(T)
    BY <1>0, FS_Subset
  <2>2. Total(v, U) = v[y] + Total(v, T)
    BY <1>1, <2>1, TotalUnfolds, Zenon
  <2>3. v[y] \in Int /\ Total(v, T) \in Int
    BY <2>1, TotalInt
  <2>. QED
    BY <2>2, <2>3
<1>2. 0 \in F
  <2>. SUFFICES ASSUME NEW T \in SUBSET W, NEW y \in W \ T, Cardinality(T) = 0 PROVE Adding(T, y)
    OBVIOUS
  <2>1. T = {}
    BY <1>0, FS_Subset, FS_EmptySet
  <2>2. One(T \cup {y}) = y
    BY <2>1 DEF One
  <2>. QED
    BY <1>1, <2>2
<1>3. ASSUME NEW n \in Nat, n \in F PROVE n + 1 \in F
  <2>. SUFFICES ASSUME NEW T \in SUBSET W, NEW y \in W \ T, Cardinality(T) = n + 1 PROVE Adding(T, y)
    OBVIOUS
  <2>. DEFINE U == T \cup {y}
              p == One(U)
              V == T \ {p}
  <2>1. IsFiniteSet(U) /\ U # {} /\ p \in U /\ IsFiniteSet(T)
    BY <1>0, FS_Subset DEF One
  <2>2. CASE p = y
    BY <1>1, <2>2
  <2>3. CASE p # y
    <3>1. p \in T
      BY <2>1, <2>3
    <3>2. Cardinality(V) = n /\ IsFiniteSet(V)
      <4>1. Cardinality(V) = Cardinality(T) - 1 /\ IsFiniteSet(V)
        BY <2>1, <3>1, FS_RemoveElement, Zenon
      <4>. QED
        BY <4>1
    <3>3. V \in SUBSET W /\ y \in W \ V /\ p \in W \ V
      BY <3>1
    <3>4. Adding(V, y) /\ Adding(V, p)
      BY <1>3, <3>2, <3>3, Zenon
    <3>5. V \cup {p} = T /\ V \cup {y} = U \ {p}
      BY <2>3, <3>1, Zenon
    <3>6. Total(v, U) = v[p] + Total(v, U \ {p})
      BY <2>1, TotalUnfolds
    <3>. HIDE DEF U, p, V
    <3>7. Total(v, U \ {p}) = Total(v, V) + v[y] /\ Total(v, T) = Total(v, V) + v[p]
      BY <3>4, <3>5
    <3>8. Total(v, V) \in Int /\ v[y] \in Int /\ v[p] \in Int
      BY <3>2, <3>3, TotalInt
    <3>9. Total(v, U) = Total(v, T) + v[y]
      BY <3>6, <3>7, <3>8
    <3>. QED
      BY <3>9 DEF U
  <2>. QED
    BY <2>2, <2>3
<1>. HIDE DEF F
<1>4. Nat \subseteq F
  BY <1>2, <1>3, EveryNumber
<1>5. Cardinality(S) \in Nat /\ Cardinality(S) \in F
  BY <1>4, FS_CardinalityType
<1>. QED
  BY <1>5 DEF F

-----------------------------------------------------------------------------
(* Least rows, lists in order, kept positions *)

\* Of finitely many things that have a number, one has the least.
LEMMA LeastOf ==
    ASSUME NEW S, IsFiniteSet(S), S # {}, NEW f, \A x \in S : f[x] \in Int
    PROVE  \E x \in S : \A y \in S : f[x] <= f[y]
<1>. DEFINE F == {T \in SUBSET S : T # {} => \E x \in T : \A y \in T : f[x] <= f[y]}
<1>1. {} \in F
  OBVIOUS
<1>2. ASSUME NEW T \in SUBSET S, NEW z \in S \ T, T \in F PROVE T \cup {z} \in F
  <2>1. CASE T = {}
    BY <2>1
  <2>2. CASE T # {}
    <3>1. PICK x \in T : \A y \in T : f[x] <= f[y]
      BY <1>2, <2>2
    <3>2. CASE f[x] <= f[z]
      BY <3>1, <3>2
    <3>3. CASE ~(f[x] <= f[z])
      <4>1. \A y \in T \cup {z} : f[z] <= f[y]
        BY <3>1, <3>3
      <4>. QED
        BY <4>1
    <3>. QED
      BY <3>2, <3>3
  <2>. QED
    BY <2>1, <2>2
<1>. HIDE DEF F
<1>3. S \in F
  BY <1>1, <1>2, EveryFinite, Zenon
<1>. QED
  BY <1>3 DEF F

\* Min is the least number of a set, ...
LEMMA MinIs ==
    ASSUME NEW S, IsFiniteSet(S), S # {}, S \subseteq Int
    PROVE  Min(S) \in S /\ \A y \in S : Min(S) <= y
<1>1. PICK x \in S : \A y \in S : [z \in S |-> z][x] <= [z \in S |-> z][y]
  <2>. DEFINE f == [z \in S |-> z]
  <2>1. \A z \in S : f[z] \in Int
    OBVIOUS
  <2>. HIDE DEF f
  <2>2. \E x \in S : \A y \in S : f[x] <= f[y]
    BY <2>1, LeastOf, Zenon
  <2>. QED
    BY <2>2 DEF f
<1>2. \A y \in S : x <= y
  BY <1>1
<1>. QED
  BY <1>2, Zenon DEF Min

\* ... and Max the greatest.
LEMMA MaxIs ==
    ASSUME NEW S, IsFiniteSet(S), S # {}, S \subseteq Int
    PROVE  Max(S) \in S /\ \A y \in S : Max(S) >= y
<1>1. PICK x \in S : \A y \in S : [z \in S |-> -z][x] <= [z \in S |-> -z][y]
  <2>. DEFINE f == [z \in S |-> -z]
  <2>1. \A z \in S : f[z] \in Int
    OBVIOUS
  <2>. HIDE DEF f
  <2>2. \E x \in S : \A y \in S : f[x] <= f[y]
    BY <2>1, LeastOf, Zenon
  <2>. QED
    BY <2>2 DEF f
<1>2. \A y \in S : x >= y
  BY <1>1
<1>. QED
  BY <1>2, Zenon DEF Max

\* The two least and the two greatest of pairs, which the model writes as sets.
LEMMA MinOfTwo ==
    ASSUME NEW a \in Int, NEW b \in Int
    PROVE  /\ Min({a, b}) = (IF a <= b THEN a ELSE b)
           /\ Max({a, b}) = (IF a >= b THEN a ELSE b)
BY DEF Min, Max

\* A list with no row behind one that it comes before, and every row in it.
Ordered(list, n, rows, before) ==
    /\ list \in [1 .. n -> rows]
    /\ \A i, j \in 1 .. n : i < j => list[i] # list[j] /\ <<list[j], list[i]>> \notin before

\* A finite set whose every part has a first row can be put in order.
LEMMA Orderable ==
    ASSUME NEW S, IsFiniteSet(S), NEW before,
           \A T \in SUBSET S : T # {} => \E x \in T : \A y \in T : <<y, x>> \notin before
    PROVE  \E list : Ordered(list, Cardinality(S), S, before)
<1>. DEFINE F == {n \in Nat : \A T \in SUBSET S : Cardinality(T) = n =>
                     \E list : Ordered(list, n, T, before)}
<1>1. 0 \in F
  <2>1. \A T \in SUBSET S : Ordered([i \in 1 .. 0 |-> i], 0, T, before)
    BY DEF Ordered
  <2>. QED
    BY <2>1, Zenon
<1>2. ASSUME NEW n \in Nat, n \in F PROVE n + 1 \in F
  <2>. SUFFICES ASSUME NEW T \in SUBSET S, Cardinality(T) = n + 1
                PROVE  \E list : Ordered(list, n + 1, T, before)
    OBVIOUS
  <2>1. IsFiniteSet(T) /\ T # {}
    BY FS_Subset, FS_EmptySet
  <2>2. PICK x \in T : \A y \in T : <<y, x>> \notin before
    BY <2>1
  <2>3. Cardinality(T \ {x}) = n
    <3>1. Cardinality(T \ {x}) = Cardinality(T) - 1
      BY <2>1, FS_RemoveElement, Zenon
    <3>. QED
      BY <3>1
  <2>4. PICK l : Ordered(l, n, T \ {x}, before)
    BY <1>2, <2>3
  <2>. DEFINE list == [i \in 1 .. n + 1 |-> IF i = 1 THEN x ELSE l[i - 1]]
  <2>5. \A i \in 1 .. n + 1 : i # 1 => i - 1 \in 1 .. n /\ l[i - 1] \in T \ {x}
    BY <2>4 DEF Ordered
  <2>6. list \in [1 .. n + 1 -> T]
    BY <2>5
  <2>7. ASSUME NEW i \in 1 .. n + 1, NEW j \in 1 .. n + 1, i < j
        PROVE  list[i] # list[j] /\ <<list[j], list[i]>> \notin before
    <3>1. CASE i = 1
      <4>1. list[j] = l[j - 1] /\ list[j] \in T \ {x}
        BY <2>5, <2>7
      <4>. QED
        BY <2>2, <3>1, <4>1
    <3>2. CASE i # 1
      <4>1. list[i] = l[i - 1] /\ list[j] = l[j - 1] /\ i - 1 \in 1 .. n /\ j - 1 \in 1 .. n /\ i - 1 < j - 1
        BY <2>5, <2>7, <3>2
      <4>. QED
        BY <2>4, <4>1 DEF Ordered
    <3>. QED
      BY <3>1, <3>2
  <2>. HIDE DEF list
  <2>8. Ordered(list, n + 1, T, before)
    BY <2>6, <2>7 DEF Ordered
  <2>. QED
    BY <2>8
<1>. HIDE DEF F
<1>3. Nat \subseteq F
  BY <1>1, <1>2, EveryNumber
<1>. QED
  BY <1>3, FS_CardinalityType DEF F

\* What InOrder returns, when every set of the rows has one no other comes before.
LEMMA InOrderIs ==
    ASSUME NEW S, IsFiniteSet(S), NEW before,
           \A T \in SUBSET S : T # {} => \E x \in T : \A y \in T : <<y, x>> \notin before
    PROVE  /\ Cardinality(S) \in Nat
           /\ InOrder(S, before) \in [1 .. Cardinality(S) -> S]
           /\ \A i, j \in 1 .. Cardinality(S) :
                  i < j => /\ InOrder(S, before)[i] # InOrder(S, before)[j]
                           /\ <<InOrder(S, before)[j], InOrder(S, before)[i]>> \notin before
           /\ \A x \in S : \E i \in 1 .. Cardinality(S) : InOrder(S, before)[i] = x
<1>. DEFINE n == Cardinality(S)
            list == InOrder(S, before)
<1>1. n \in Nat
  BY FS_CardinalityType
<1>2. PICK l : Ordered(l, n, S, before)
  BY Orderable, Zenon
<1>3. Ordered(list, n, S, before)
  <2>1. l \in [1 .. n -> S] /\ \A i, j \in DOMAIN l : i < j => l[i] # l[j] /\ <<l[j], l[i]>> \notin before
    BY <1>2 DEF Ordered
  <2>2. /\ list \in [1 .. n -> S]
        /\ \A i, j \in DOMAIN list : i < j => list[i] # list[j] /\ <<list[j], list[i]>> \notin before
    BY <2>1, Zenon DEF InOrder
  <2>. QED
    BY <2>2, Zenon DEF Ordered
<1>. HIDE DEF n, list
<1>4. \A x \in S : \E i \in 1 .. n : list[i] = x
  <2>1. list \in Injection(1 .. n, S)
    <3>1. \A i, j \in 1 .. n : list[i] = list[j] => i = j
      <4>. SUFFICES ASSUME NEW i \in 1 .. n, NEW j \in 1 .. n, list[i] = list[j], i # j PROVE FALSE
        OBVIOUS
      <4>1. i < j \/ j < i
        BY <1>1
      <4>. QED
        BY <1>3, <4>1, Zenon DEF Ordered
    <3>. QED
      BY <1>3, <3>1 DEF Ordered, Injection, IsInjective
  <2>2. Cardinality(1 .. n) = n /\ IsFiniteSet(1 .. n)
    BY <1>1, FS_Interval
  <2>3. list \in Surjection(1 .. n, S)
    BY <2>1, <2>2, FS_Injection DEF n
  <2>. QED
    BY <2>3 DEF Surjection
<1>. QED
  BY <1>1, <1>3, <1>4 DEF Ordered, n, list

\* What Kept returns: the entries at the positions, which go up.
Keeps(at, list, n, pos) ==
    /\ Cardinality(pos) \in 0 .. n
    /\ at \in [1 .. Cardinality(pos) -> pos]
    /\ Kept(list, pos) = [k \in 1 .. Cardinality(pos) |-> list[at[k]]]
    /\ \A k, l \in 1 .. Cardinality(pos) : k < l => at[k] < at[l]
    /\ \A i \in pos : \E k \in 1 .. Cardinality(pos) : at[k] = i

\* Kept returns the entries at the positions, in their order.
LEMMA KeptIs ==
    ASSUME NEW list, NEW n \in Nat, NEW pos \in SUBSET (1 .. n)
    PROVE  \E at : Keeps(at, list, n, pos)
<1>. DEFINE N == Cardinality(pos)
            Upto(i) == {j \in pos : j <= i}
            rank == [i \in pos |-> Cardinality(Upto(i))]
            at == [k \in 1 .. N |-> CHOOSE i \in pos : Cardinality({j \in pos : j <= i}) = k]
<1>1. /\ IsFiniteSet(pos) /\ N \in Nat /\ N <= n
      /\ IsFiniteSet(1 .. N) /\ Cardinality(1 .. N) = N
  <2>1. IsFiniteSet(1 .. n) /\ Cardinality(1 .. n) = n
    BY FS_Interval
  <2>2. IsFiniteSet(pos) /\ N <= n
    BY <2>1, FS_Subset, Zenon
  <2>3. N \in Nat
    BY <2>2, FS_CardinalityType
  <2>. QED
    BY <2>2, <2>3, FS_Interval
<1>0. \A i \in pos : i \in Int
  OBVIOUS
<1>2. \A i \in pos : IsFiniteSet(Upto(i)) /\ Cardinality(Upto(i)) \in 1 .. N
  <2>. SUFFICES ASSUME NEW i \in pos PROVE IsFiniteSet(Upto(i)) /\ Cardinality(Upto(i)) \in 1 .. N
    OBVIOUS
  <2>1. Upto(i) \subseteq pos /\ i \in Upto(i)
    OBVIOUS
  <2>. HIDE DEF Upto
  <2>2. IsFiniteSet(Upto(i)) /\ Cardinality(Upto(i)) <= N
    BY <1>1, <2>1, FS_Subset
  <2>3. Cardinality(Upto(i)) \in Nat
    BY <2>2, FS_CardinalityType
  <2>4. Cardinality(Upto(i)) # 0
    BY <2>1, <2>2, FS_EmptySet
  <2>. QED
    BY <1>1, <2>2, <2>3, <2>4
<1>3. \A i, j \in pos : i < j => rank[i] < rank[j]
  <2>. SUFFICES ASSUME NEW i \in pos, NEW j \in pos, i < j PROVE Cardinality(Upto(i)) < Cardinality(Upto(j))
    OBVIOUS
  <2>1. Upto(i) \subseteq Upto(j) /\ j \in Upto(j) /\ j \notin Upto(i)
    <3>1. i \in Int /\ j \in Int
      BY <1>0
    <3>2. \A k \in pos : k \in Int /\ (k <= i => k <= j)
      BY <1>0, <3>1
    <3>3. Upto(i) \subseteq Upto(j)
      BY <3>2, Zenon
    <3>4. j \in Upto(j) /\ j \notin Upto(i)
      BY <3>1
    <3>. QED
      BY <3>3, <3>4
  <2>2. IsFiniteSet(Upto(j)) /\ IsFiniteSet(Upto(i)) /\ Cardinality(Upto(i)) \in Nat /\ Cardinality(Upto(j)) \in Nat
    BY <1>2
  <2>. HIDE DEF Upto
  <2>3. Cardinality(Upto(i)) <= Cardinality(Upto(j))
    BY <2>1, <2>2, FS_Subset
  <2>4. Cardinality(Upto(i)) # Cardinality(Upto(j))
    BY <2>1, <2>2, FS_Subset
  <2>. QED
    BY <2>2, <2>3, <2>4
<1>4. rank \in [pos -> 1 .. N]
  BY <1>2
<1>. HIDE DEF N, Upto
<1>5. rank \in Surjection(pos, 1 .. N)
  <2>1. \A i, j \in pos : rank[i] = rank[j] => i = j
    <3>. SUFFICES ASSUME NEW i \in pos, NEW j \in pos, rank[i] = rank[j], i # j PROVE FALSE
      OBVIOUS
    <3>1. i < j \/ j < i
      OBVIOUS
    <3>2. rank[i] < rank[j] \/ rank[j] < rank[i]
      BY <1>3, <3>1
    <3>3. rank[i] \in Nat /\ rank[j] \in Nat
      BY <1>1, <1>4
    <3>. QED
      BY <3>2, <3>3
  <2>. HIDE DEF rank
  <2>2. rank \in Injection(pos, 1 .. N)
    BY <1>4, <2>1 DEF Injection, IsInjective
  <2>. QED
    BY <1>1, <2>2, FS_Injection DEF N
<1>. HIDE DEF rank
<1>7. Kept(list, pos) = [k \in 1 .. N |-> list[at[k]]]
  BY DEF Kept, N
<1>6. \A k \in 1 .. N : at[k] \in pos /\ rank[at[k]] = k
  <2>. SUFFICES ASSUME NEW k \in 1 .. N PROVE at[k] \in pos /\ rank[at[k]] = k
    BY Zenon
  <2>1. PICK i \in pos : rank[i] = k
    BY <1>5 DEF Surjection
  <2>2. Cardinality({j \in pos : j <= i}) = k
    BY <2>1 DEF rank, Upto
  <2>3. at[k] \in pos /\ Cardinality({j \in pos : j <= at[k]}) = k
    BY <2>2, Zenon
  <2>. HIDE DEF at
  <2>. QED
    BY <2>3 DEF rank, Upto
<1>8. at \in [1 .. N -> pos]
  BY <1>6, Zenon
<1>. HIDE DEF at
<1>9. ASSUME NEW k \in 1 .. N, NEW l \in 1 .. N, k < l PROVE at[k] < at[l]
  <2>1. at[k] \in pos /\ at[l] \in pos /\ rank[at[k]] = k /\ rank[at[l]] = l
    BY <1>6
  <2>0. at[k] \in Int /\ at[l] \in Int /\ k \in Int /\ l \in Int
    <3>1. at[k] \in Int /\ at[l] \in Int
      BY <1>0, <2>1, Zenon
    <3>2. k \in Int /\ l \in Int
      BY <1>1
    <3>. QED
      BY <3>1, <3>2
  <2>2. at[k] # at[l]
    BY <1>1, <1>9, <2>1
  <2>3. ~(at[l] < at[k])
    <3>1. at[l] < at[k] => l < k
      BY <1>3, <2>1, Zenon
    <3>. QED
      BY <1>1, <1>9, <3>1
  <2>. QED
    BY <2>0, <2>2, <2>3
<1>10. \A i \in pos : \E k \in 1 .. N : at[k] = i
  <2>. SUFFICES ASSUME NEW i \in pos PROVE \E k \in 1 .. N : at[k] = i
    OBVIOUS
  <2>1. rank[i] \in 1 .. N
    BY <1>4
  <2>2. at[rank[i]] \in pos /\ rank[at[rank[i]]] = rank[i]
    BY <1>6, <2>1
  <2>3. ~(at[rank[i]] < i) /\ ~(i < at[rank[i]])
    <3>1. at[rank[i]] < i => rank[i] < rank[i]
      BY <1>3, <2>2, Zenon
    <3>2. i < at[rank[i]] => rank[i] < rank[i]
      BY <1>3, <2>2, Zenon
    <3>3. rank[i] \in Int
      BY <2>1
    <3>. QED
      BY <3>1, <3>2, <3>3
  <2>4. at[rank[i]] \in Int /\ i \in Int
    BY <1>0, <2>2, Zenon
  <2>. QED
    BY <2>1, <2>3, <2>4
<1>11. N \in 0 .. n
  BY <1>1
<1>. QED
  BY <1>7, <1>8, <1>9, <1>10, <1>11, Zenon DEF N, Keeps

\* A list of rows stays one.
LEMMA KeptType ==
    ASSUME NEW R, NEW list \in Seq(R), NEW pos \in SUBSET (DOMAIN list)
    PROVE  /\ Kept(list, pos) \in Seq(R)
           /\ \A k \in DOMAIN Kept(list, pos) : \E i \in pos : Kept(list, pos)[k] = list[i]
           /\ \A i \in pos : \E k \in DOMAIN Kept(list, pos) : Kept(list, pos)[k] = list[i]
           /\ Len(Kept(list, pos)) <= Len(list)
<1>1. DOMAIN list = 1 .. Len(list) /\ Len(list) \in Nat
  OBVIOUS
<1>2. PICK at : Keeps(at, list, Len(list), pos)
  BY <1>1, KeptIs, Zenon
<1>. DEFINE N == Cardinality(pos)
            kept == Kept(list, pos)
<1>3. N \in Nat /\ N <= Len(list)
  BY <1>1, <1>2 DEF Keeps
<1>4. \A k \in 1 .. N : list[at[k]] \in R
  BY <1>1, <1>2 DEF Keeps
<1>. HIDE DEF N
<1>5. kept = [k \in 1 .. N |-> list[at[k]]]
  BY <1>2 DEF N, Keeps
<1>. HIDE DEF kept
<1>6. kept \in Seq(R) /\ DOMAIN kept = 1 .. N /\ Len(kept) = N
  BY <1>3, <1>4, <1>5
<1>7. \A k \in 1 .. N : kept[k] = list[at[k]] /\ at[k] \in pos
  BY <1>2, <1>5, Zenon DEF N, Keeps
<1>8. \A i \in pos : \E k \in 1 .. N : at[k] = i
  BY <1>2 DEF N, Keeps
<1>9. /\ \A k \in DOMAIN kept : \E i \in pos : kept[k] = list[i]
      /\ \A i \in pos : \E k \in DOMAIN kept : kept[k] = list[i]
  <2>1. \A k \in DOMAIN kept : \E i \in pos : kept[k] = list[i]
    BY <1>6, <1>7
  <2>2. \A i \in pos : \E k \in DOMAIN kept : kept[k] = list[i]
    <3>. SUFFICES ASSUME NEW i \in pos PROVE \E k \in DOMAIN kept : kept[k] = list[i]
      OBVIOUS
    <3>1. PICK k \in 1 .. N : at[k] = i
      BY <1>8
    <3>. QED
      BY <1>6, <1>7, <3>1
  <2>. QED
    BY <2>1, <2>2
<1>10. Len(kept) <= Len(list)
  BY <1>3, <1>6
<1>. QED
  BY <1>6, <1>9, <1>10 DEF kept

-----------------------------------------------------------------------------
(* Folds of lists *)

\* The numbers up to i, the last of them, and those before it.
LEMMA IntervalFacts ==
    ASSUME NEW i \in Nat \ {0}
    PROVE  /\ Max(1 .. i) = i
           /\ (1 .. i) \ {i} = 1 .. i - 1
           /\ 1 .. i # {}
<1>1. IsFiniteSet(1 .. i)
  BY FS_Interval
<1>2. i \in 1 .. i /\ 1 .. i \subseteq Int
  OBVIOUS
<1>3. Max(1 .. i) \in 1 .. i /\ \A y \in 1 .. i : Max(1 .. i) >= y
  BY <1>1, <1>2, MaxIs
<1>4. Max(1 .. i) = i
  BY <1>2, <1>3
<1>5. (1 .. i) \ {i} = 1 .. i - 1
  OBVIOUS
<1>. QED
  BY <1>2, <1>4, <1>5

\* The function a fold from the left is taken from exists, whatever the step is.
\* The function a fold over a list of n entries is read off from.
FoldsTo(g, n, X, base, advance) ==
    /\ g \in [SUBSET (1 .. n) -> X]
    /\ g = [U \in SUBSET (1 .. n) |-> IF U = {} THEN base ELSE advance[<<Max(U), g[U \ {Max(U)}]>>]]

\* The function a fold is read off from exists, whatever the step is.
LEMMA FoldExists ==
    ASSUME NEW n \in Nat, NEW X, NEW base \in X, NEW advance \in [(1 .. n) \X X -> X]
    PROVE  \E g : FoldsTo(g, n, X, base, advance)
<1>. DEFINE D == 1 .. n
            Body(g, U) == IF U = {} THEN base ELSE advance[<<Max(U), g[U \ {Max(U)}]>>]
            Good(k, g) == g \in [UpTo(D, k) -> X] /\ \A U \in UpTo(D, k) : g[U] = Body(g, U)
            F == {k \in Nat : \E g : Good(k, g)}
<1>0. IsFiniteSet(D) /\ D \subseteq Int /\ Cardinality(D) = n
  BY FS_Interval
<1>a. ASSUME NEW U \in SUBSET D, U # {}
      PROVE  Max(U) \in U /\ Max(U) \in D /\ Cardinality(U) = Cardinality(U \ {Max(U)}) + 1
             /\ Cardinality(U \ {Max(U)}) \in Nat
  <2>1. IsFiniteSet(U) /\ U \subseteq Int
    BY <1>0, FS_Subset, Zenon
  <2>2. Max(U) \in U /\ Max(U) \in D
    <3>1. Max(U) \in U
      BY <1>a, <2>1, MaxIs, Zenon
    <3>. QED
      BY <3>1, Zenon
  <2>3. IsFiniteSet(U \ {Max(U)}) /\ Cardinality(U \ {Max(U)}) = Cardinality(U) - 1
    BY <2>1, <2>2, FS_RemoveElement, Zenon
  <2>4. Cardinality(U) \in Nat /\ Cardinality(U \ {Max(U)}) \in Nat
    BY <2>1, <2>3, FS_CardinalityType
  <2>5. Cardinality(U) = Cardinality(U \ {Max(U)}) + 1
    BY <2>3, <2>4
  <2>. QED
    BY <2>2, <2>4, <2>5
<1>1. 0 \in F
  <2>. DEFINE g == [U \in UpTo(D, 0) |-> base]
  <2>1. \A U \in UpTo(D, 0) : U = {}
    <3>. SUFFICES ASSUME NEW U \in SUBSET D, Cardinality(U) <= 0, U # {} PROVE FALSE
      BY DEF UpTo
    <3>1. Cardinality(U) = Cardinality(U \ {Max(U)}) + 1 /\ Cardinality(U \ {Max(U)}) \in Nat
      BY <1>a
    <3>. QED
      BY <3>1
  <2>2. Good(0, g)
    BY <2>1
  <2>. QED
    BY <2>2, Zenon
<1>2. ASSUME NEW k \in Nat, k \in F PROVE k + 1 \in F
  <2>1. PICK g : Good(k, g)
    BY <1>2, Zenon
  <2>. DEFINE h == [U \in UpTo(D, k + 1) |-> Body(g, U)]
  <2>2. ASSUME NEW U \in UpTo(D, k + 1) PROVE h[U] = Body(h, U) /\ h[U] \in X
    <3>1. CASE U = {}
      BY <3>1
    <3>2. CASE U # {}
      <4>. DEFINE V == U \ {Max(U)}
      <4>1. U \in SUBSET D /\ Cardinality(U) <= k + 1
        BY DEF UpTo
      <4>2. Max(U) \in D /\ Cardinality(V) + 1 <= k + 1 /\ Cardinality(V) \in Nat /\ V \in SUBSET D
        BY <3>2, <4>1, <1>a, Zenon
      <4>3. V \in UpTo(D, k) /\ V \in UpTo(D, k + 1)
        BY <4>2 DEF UpTo
      <4>4. g[V] \in X /\ g[V] = Body(g, V)
        BY <2>1, <4>3, Zenon
      <4>5. h[V] = Body(g, V) /\ h[U] = Body(g, U)
        BY <4>3
      <4>6. Body(g, U) = advance[<<Max(U), g[V]>>] /\ Body(h, U) = advance[<<Max(U), h[V]>>]
        BY <3>2
      <4>. HIDE DEF V, h, Body
      <4>7. advance[<<Max(U), g[V]>>] \in X
        BY <4>2, <4>4
      <4>. QED
        BY <4>4, <4>5, <4>6, <4>7
    <3>. QED
      BY <3>1, <3>2
  <2>3. h \in [UpTo(D, k + 1) -> X]
    BY <2>2, Zenon
  <2>. HIDE DEF h, Body
  <2>4. Good(k + 1, h)
    BY <2>2, <2>3
  <2>. QED
    BY <2>4
<1>. HIDE DEF F, Body
<1>3. Nat \subseteq F
  BY <1>1, <1>2, EveryNumber
<1>4. UpTo(D, n) = SUBSET D
  BY <1>0, FS_Subset DEF UpTo
<1>5. PICK g : Good(n, g)
  BY <1>3 DEF F
<1>6. g \in [SUBSET D -> X] /\ g = [U \in SUBSET D |-> Body(g, U)]
  BY <1>4, <1>5, Zenon
<1>. QED
  BY <1>6, Zenon DEF Body, FoldsTo

\* The sum of natural numbers is one.
LEMMA TotalNat ==
    ASSUME NEW v, NEW S, IsFiniteSet(S), \A x \in S : v[x] \in Nat
    PROVE  Total(v, S) \in Nat
<1>. DEFINE F == {T \in SUBSET S : Total(v, T) \in Nat}
<1>1. {} \in F
  BY TotalEmpty
<1>2. ASSUME NEW T \in SUBSET S, NEW x \in S \ T, T \in F PROVE T \cup {x} \in F
  <2>1. IsFiniteSet(T)
    BY FS_Subset
  <2>2. \A y \in T \cup {x} : v[y] \in Int
    OBVIOUS
  <2>3. Total(v, T \cup {x}) = Total(v, T) + v[x]
    BY <2>1, <2>2, TotalAdd
  <2>4. Total(v, T) \in Nat /\ v[x] \in Nat
    BY <1>2
  <2>. QED
    BY <2>3, <2>4
<1>. HIDE DEF F
<1>3. S \in F
  BY <1>1, <1>2, EveryFinite, Zenon
<1>. QED
  BY <1>3 DEF F

\* Values that are at most as large row by row are so in sum.
LEMMA TotalLe ==
    ASSUME NEW v, NEW u, NEW S, IsFiniteSet(S),
           \A x \in S : v[x] \in Int /\ u[x] \in Int /\ v[x] <= u[x]
    PROVE  Total(v, S) <= Total(u, S)
<1>. DEFINE F == {T \in SUBSET S : Total(v, T) <= Total(u, T)}
<1>1. {} \in F
  BY TotalEmpty
<1>2. ASSUME NEW T \in SUBSET S, NEW x \in S \ T, T \in F PROVE T \cup {x} \in F
  <2>1. IsFiniteSet(T)
    BY FS_Subset
  <2>2. \A y \in T \cup {x} : v[y] \in Int /\ u[y] \in Int
    OBVIOUS
  <2>3. Total(v, T \cup {x}) = Total(v, T) + v[x] /\ Total(u, T \cup {x}) = Total(u, T) + u[x]
    BY <2>1, <2>2, TotalAdd
  <2>4. Total(v, T) \in Int /\ Total(u, T) \in Int
    BY <2>1, <2>2, TotalInt
  <2>5. Total(v, T) <= Total(u, T) /\ v[x] <= u[x] /\ v[x] \in Int /\ u[x] \in Int
    BY <1>2
  <2>. QED
    BY <2>3, <2>4, <2>5
<1>. HIDE DEF F
<1>3. S \in F
  BY <1>1, <1>2, EveryFinite, Zenon
<1>. QED
  BY <1>3 DEF F

\* Only the values of the rows count.
LEMMA TotalSame ==
    ASSUME NEW v, NEW u, NEW S, IsFiniteSet(S), \A x \in S : v[x] \in Int /\ u[x] = v[x]
    PROVE  Total(v, S) = Total(u, S)
<1>1. Total(v, S) <= Total(u, S)
  BY TotalLe
<1>2. Total(u, S) <= Total(v, S)
  BY TotalLe
<1>3. Total(v, S) \in Int /\ Total(u, S) \in Int
  BY TotalInt
<1>. QED
  BY <1>1, <1>2, <1>3

\* The sum over two sets of rows that have none in common.
LEMMA TotalSplit ==
    ASSUME NEW v, NEW S, IsFiniteSet(S), NEW U, IsFiniteSet(U), S \cap U = {},
           \A x \in S \cup U : v[x] \in Int
    PROVE  Total(v, S \cup U) = Total(v, S) + Total(v, U)
<1>. DEFINE F == {T \in SUBSET U : Total(v, S \cup T) = Total(v, S) + Total(v, T)}
<1>1. {} \in F
  <2>1. Total(v, S) \in Int /\ S \cup {} = S
    BY TotalInt
  <2>. QED
    BY <2>1, TotalEmpty
<1>2. ASSUME NEW T \in SUBSET U, NEW x \in U \ T, T \in F PROVE T \cup {x} \in F
  <2>1. IsFiniteSet(T) /\ IsFiniteSet(S \cup T)
    BY FS_Subset, FS_Union, Zenon
  <2>2. \A y \in T \cup {x} : v[y] \in Int
    OBVIOUS
  <2>3. \A y \in (S \cup T) \cup {x} : v[y] \in Int
    OBVIOUS
  <2>4. x \notin S \cup T /\ x \notin T
    OBVIOUS
  <2>5. Total(v, T \cup {x}) = Total(v, T) + v[x]
    BY <2>1, <2>2, <2>4, TotalAdd
  <2>6. Total(v, (S \cup T) \cup {x}) = Total(v, S \cup T) + v[x]
    BY <2>1, <2>3, <2>4, TotalAdd
  <2>7. Total(v, S) \in Int /\ Total(v, T) \in Int
    BY <2>1, <2>2, TotalInt
  <2>8. (S \cup T) \cup {x} = S \cup (T \cup {x})
    OBVIOUS
  <2>9. Total(v, S \cup T) = Total(v, S) + Total(v, T) /\ v[x] \in Int
    BY <1>2
  <2>10. Total(v, (S \cup T) \cup {x}) = Total(v, S) + Total(v, T \cup {x})
    BY <2>5, <2>6, <2>7, <2>9
  <2>11. Total(v, S \cup (T \cup {x})) = Total(v, S) + Total(v, T \cup {x})
    BY <2>8, <2>10, Zenon
  <2>. QED
    BY <2>11
<1>. HIDE DEF F
<1>3. U \in F
  BY <1>1, <1>2, EveryFinite, Zenon
<1>. QED
  BY <1>3 DEF F

\* Fewer rows of no negative value are worth no more.
LEMMA TotalMono ==
    ASSUME NEW v, NEW U, IsFiniteSet(U), NEW S \in SUBSET U, \A x \in U : v[x] \in Nat
    PROVE  Total(v, S) <= Total(v, U)
<1>1. IsFiniteSet(S) /\ IsFiniteSet(U \ S) /\ S \cup (U \ S) = U /\ S \cap (U \ S) = {}
  BY FS_Subset
<1>2. \A x \in S \cup (U \ S) : v[x] \in Int
  BY <1>1
<1>3. Total(v, S \cup (U \ S)) = Total(v, S) + Total(v, U \ S)
  BY <1>1, <1>2, TotalSplit
<1>4. Total(v, S) \in Nat /\ Total(v, U \ S) \in Nat
  <2>1. (\A x \in S : v[x] \in Nat) /\ (\A x \in U \ S : v[x] \in Nat)
    OBVIOUS
  <2>. QED
    BY <1>1, <2>1, TotalNat
<1>5. Total(v, U) = Total(v, S) + Total(v, U \ S)
  BY <1>1, <1>3, Zenon
<1>. QED
  BY <1>4, <1>5

\* One row is worth no more than all of them.
LEMMA TotalOne ==
    ASSUME NEW v, NEW x, v[x] \in Int
    PROVE  Total(v, {x}) = v[x]
<1>1. Total(v, {} \cup {x}) = Total(v, {}) + v[x]
  BY TotalAdd, FS_EmptySet
<1>2. {} \cup {x} = {x}
  OBVIOUS
<1>. QED
  BY <1>1, <1>2, TotalEmpty

-----------------------------------------------------------------------------
(* The frame *)

\* The trades of a lane as they are stored.
TapeRows(l) ==
    [wallet : {t.wallet : t \in Prints[l]}, market : Markets, side : {t.side : t \in Prints[l]},
     usd : Nat, price : Nat, age : Nat]

\* A trade is stored behind the others, which stay as they are.
LEMMA TradedTyped ==
    ASSUME NEW l \in {"cohort", "thesis", "tail", "lag"} \cap Lanes, NEW t \in Prints[l],
           tape \in Seq(TapeRows(l)), Traded(t)
    PROVE  /\ tape' \in Seq(TapeRows(l)) /\ DOMAIN tape' = DOMAIN tape \cup {Len(tape) + 1}
           /\ Len(tape) + 1 \notin DOMAIN tape
           /\ \A i \in DOMAIN tape : tape'[i] = tape[i]
           /\ row' = NoRow /\ lane' = lane /\ cache' = cache /\ live' = live
<1>. DEFINE r == [wallet |-> t.wallet, market |-> t.market, side |-> t.side, usd |-> t.usd,
                  price |-> t.price, age |-> 0]
<1>1. tape' = Append(tape, r) /\ row' = NoRow /\ lane' = lane /\ cache' = cache /\ live' = live
  BY DEF Traded
<1>2. r \in TapeRows(l)
  <2>1. t.market \in Markets /\ t.usd \in Nat /\ t.price \in Nat
    BY PrintsAssumption
  <2>. QED
    BY <2>1 DEF TapeRows
<1>. HIDE DEF r
<1>. QED
  BY <1>1, <1>2

\* A unit later the trades are the same, only older.
LEMMA ElapsedTyped ==
    ASSUME NEW l, tape \in Seq(TapeRows(l)), FrameElapses
    PROVE  /\ tape' \in Seq(TapeRows(l)) /\ DOMAIN tape' = DOMAIN tape
           /\ \A i \in DOMAIN tape : /\ tape'[i].wallet = tape[i].wallet
                                     /\ tape'[i].market = tape[i].market
                                     /\ tape'[i].side = tape[i].side
                                     /\ tape'[i].usd = tape[i].usd
           /\ row' = NoRow /\ lane' = lane /\ live' = live
<1>1. /\ tape' = [i \in DOMAIN tape |-> [tape[i] EXCEPT !.age = Older(@, TapeMemory)]]
      /\ row' = NoRow /\ lane' = lane /\ live' = live
  BY DEF FrameElapses
<1>2. DOMAIN tape = 1 .. Len(tape) /\ Len(tape) \in Nat
  OBVIOUS
<1>3. ASSUME NEW i \in DOMAIN tape
      PROVE  /\ tape'[i] \in TapeRows(l)
             /\ tape'[i].wallet = tape[i].wallet /\ tape'[i].market = tape[i].market
             /\ tape'[i].side = tape[i].side /\ tape'[i].usd = tape[i].usd
  <2>1. tape[i] \in TapeRows(l) /\ tape'[i] = [tape[i] EXCEPT !.age = Older(@, TapeMemory)]
    BY <1>1, <1>2
  <2>2. Older(tape[i].age, TapeMemory) \in Nat
    BY <2>1, PrintsAssumption DEF TapeRows, Older
  <2>. QED
    BY <2>1, <2>2, Zenon DEF TapeRows
<1>4. tape' \in Seq(TapeRows(l)) /\ DOMAIN tape' = DOMAIN tape
  BY <1>1, <1>2, <1>3
<1>. QED
  BY <1>1, <1>3, <1>4

-----------------------------------------------------------------------------
(* The wallet graph *)

\* A function on a finite set has finitely many values.
LEMMA ImageFinite ==
    ASSUME NEW S, IsFiniteSet(S), NEW f, f = [x \in S |-> f[x]]
    PROVE  IsFiniteSet({f[x] : x \in S})
<1>. DEFINE T == {f[x] : x \in S}
<1>1. f \in Surjection(S, T)
  <2>1. f \in [S -> T]
    OBVIOUS
  <2>. QED
    BY <2>1 DEF Surjection, Range
<1>. HIDE DEF T
<1>2. IsFiniteSet(T)
  BY <1>1, FS_Surjection
<1>. QED
  BY <1>2 DEF T

\* What a wallet did on one side, in the events of some trades.
WalletEvents(trades, rows, w, s) ==
    {EventOf[trades[i].market] : i \in {i \in rows : trades[i].wallet = w /\ trades[i].side = s}}

\* Two wallets did trade together in the trades.
SharedIn(trades, e) ==
    /\ e.shared >= MinShared
    /\ \E s \in Sides : e.shared <= Cardinality(WalletEvents(trades, DOMAIN trades, e.a, s)
                                             \cap WalletEvents(trades, DOMAIN trades, e.b, s))

\* EdgeIsShared, said by means of SharedIn.
LEMMA SharedMeans ==
    /\ EdgeIsShared <=> \A e \in edges : SharedIn(tape, e)
    /\ EdgeIsShared' <=> \A e \in edges' : SharedIn(tape', e)
BY Zenon DEF EdgeIsShared, SharedIn, WalletEvents

\* walletcohort: an edge is shared, and no row of its fired.
GraphInv ==
    lane = "cohort" =>
        /\ tape \in Seq(TapeRows("cohort"))
        /\ EdgeIsShared /\ \A e \in edges : e.shared \in Int
        /\ row # NoRow => row.by = "walletcohort" /\ ~row.fired

\* A wallet traded in finitely many events.
LEMMA EventsFinite ==
    ASSUME NEW t, NEW rows, IsFiniteSet(rows), NEW w, NEW s
    PROVE  IsFiniteSet(WalletEvents(t, rows, w, s))
<1>. DEFINE R == {i \in rows : t[i].wallet = w /\ t[i].side = s}
            f == [i \in R |-> EventOf[t[i].market]]
<1>1. IsFiniteSet(R)
  <2>1. R \in SUBSET rows
    OBVIOUS
  <2>. HIDE DEF R
  <2>. QED
    BY <2>1, FS_Subset
<1>2. IsFiniteSet({f[i] : i \in R})
  <2>1. f = [i \in R |-> f[i]]
    OBVIOUS
  <2>. HIDE DEF f, R
  <2>. QED
    BY <1>1, <2>1, ImageFinite
<1>3. {f[i] : i \in R} = WalletEvents(t, rows, w, s)
  BY Zenon DEF WalletEvents
<1>. QED
  BY <1>2, <1>3

\* More trades, more events: what is shared in some is shared in all.
LEMMA EventsGrow ==
    ASSUME NEW t, NEW u, NEW rows, NEW all, IsFiniteSet(all), rows \subseteq all,
           \A i \in rows : /\ u[i].wallet = t[i].wallet
                           /\ u[i].market = t[i].market
                           /\ u[i].side = t[i].side,
           NEW a, NEW b, NEW s
    PROVE  /\ Cardinality(WalletEvents(t, rows, a, s) \cap WalletEvents(t, rows, b, s)) \in Nat
           /\ Cardinality(WalletEvents(u, all, a, s) \cap WalletEvents(u, all, b, s)) \in Nat
           /\ Cardinality(WalletEvents(t, rows, a, s) \cap WalletEvents(t, rows, b, s))
              <= Cardinality(WalletEvents(u, all, a, s) \cap WalletEvents(u, all, b, s))
<1>. DEFINE T == WalletEvents(t, rows, a, s) \cap WalletEvents(t, rows, b, s)
            U == WalletEvents(u, all, a, s) \cap WalletEvents(u, all, b, s)
<1>1. \A w : WalletEvents(t, rows, w, s) \subseteq WalletEvents(u, all, w, s)
  BY DEF WalletEvents
<1>2. T \in SUBSET U
  BY <1>1
<1>3. IsFiniteSet(U)
  BY EventsFinite, FS_Intersection, Zenon
<1>. HIDE DEF T, U
<1>4. IsFiniteSet(T) /\ Cardinality(T) <= Cardinality(U)
  BY <1>2, <1>3, FS_Subset
<1>5. Cardinality(T) \in Nat /\ Cardinality(U) \in Nat
  BY <1>3, <1>4, FS_CardinalityType
<1>. QED
  BY <1>4, <1>5 DEF T, U

\* Two wallets that did trade together in some trades did so in more of them.
LEMMA SharedGrows ==
    ASSUME NEW t, NEW u, IsFiniteSet(DOMAIN u), DOMAIN t \subseteq DOMAIN u,
           \A i \in DOMAIN t : /\ u[i].wallet = t[i].wallet
                               /\ u[i].market = t[i].market
                               /\ u[i].side = t[i].side,
           NEW e, e.shared \in Int, SharedIn(t, e)
    PROVE  SharedIn(u, e)
<1>1. PICK s \in Sides : e.shared <= Cardinality(WalletEvents(t, DOMAIN t, e.a, s)
                                             \cap WalletEvents(t, DOMAIN t, e.b, s))
  BY Zenon DEF SharedIn
<1>2. /\ Cardinality(WalletEvents(t, DOMAIN t, e.a, s) \cap WalletEvents(t, DOMAIN t, e.b, s)) \in Nat
      /\ Cardinality(WalletEvents(u, DOMAIN u, e.a, s) \cap WalletEvents(u, DOMAIN u, e.b, s)) \in Nat
      /\ Cardinality(WalletEvents(t, DOMAIN t, e.a, s) \cap WalletEvents(t, DOMAIN t, e.b, s))
         <= Cardinality(WalletEvents(u, DOMAIN u, e.a, s) \cap WalletEvents(u, DOMAIN u, e.b, s))
  BY EventsGrow, Zenon
<1>3. e.shared <= Cardinality(WalletEvents(u, DOMAIN u, e.a, s) \cap WalletEvents(u, DOMAIN u, e.b, s))
  BY <1>1, <1>2
<1>. QED
  BY <1>3, Zenon DEF SharedIn

\* A pair the batch finds did trade together, as often as its edge says.
LEMMA PairShared ==
    ASSUME NEW n \in Nat, DOMAIN tape = 1 .. n, NEW p \in CoTradePairs(CoTradeRows)
    PROVE  EdgeRow(p).shared \in Int /\ SharedIn(tape, EdgeRow(p))
<1>1. p.shared >= MinShared /\ p \in UNION {PairsOn(CoTradeRows, s) : s \in Sides}
  BY Zenon DEF CoTradePairs
<1>2. PICK s \in Sides : p \in PairsOn(CoTradeRows, s)
  BY <1>1
<1>3. p.shared = Cardinality(WalletEvents(tape, CoTradeRows, p.a, s) \cap WalletEvents(tape, CoTradeRows, p.b, s))
  <2>1. PICK q \in Wallets \X Wallets :
            p = [side |-> s, a |-> q[1], b |-> q[2],
                 shared |-> Cardinality(EventsOn(CoTradeRows, q[1], s) \cap EventsOn(CoTradeRows, q[2], s)),
                 of |-> Max({Cardinality(EventsOn(CoTradeRows, q[1], s)), Cardinality(EventsOn(CoTradeRows, q[2], s))})]
    BY <1>2, Zenon DEF PairsOn
  <2>2. \A w : EventsOn(CoTradeRows, w, s) = WalletEvents(tape, CoTradeRows, w, s)
    BY Zenon DEF EventsOn, WalletEvents
  <2>3. /\ p.a = q[1] /\ p.b = q[2]
        /\ p.shared = Cardinality(EventsOn(CoTradeRows, q[1], s) \cap EventsOn(CoTradeRows, q[2], s))
    BY <2>1
  <2>. QED
    BY <2>2, <2>3, Zenon
<1>4. EdgeRow(p).a = p.a /\ EdgeRow(p).b = p.b /\ EdgeRow(p).shared = p.shared
  BY DEF EdgeRow
<1>5. CoTradeRows \subseteq DOMAIN tape /\ IsFiniteSet(DOMAIN tape)
  <2>1. CoTradeRows \subseteq DOMAIN tape
    BY DEF CoTradeRows
  <2>. QED
    BY <2>1, FS_Interval
<1>6. /\ Cardinality(WalletEvents(tape, CoTradeRows, p.a, s) \cap WalletEvents(tape, CoTradeRows, p.b, s)) \in Nat
      /\ Cardinality(WalletEvents(tape, CoTradeRows, p.a, s) \cap WalletEvents(tape, CoTradeRows, p.b, s))
         <= Cardinality(WalletEvents(tape, DOMAIN tape, p.a, s) \cap WalletEvents(tape, DOMAIN tape, p.b, s))
  BY <1>5, EventsGrow, Zenon
<1>7. EdgeRow(p).shared \in Int
  BY <1>3, <1>4, <1>6
<1>8. EdgeRow(p).shared <= Cardinality(WalletEvents(tape, DOMAIN tape, p.a, s)
                                      \cap WalletEvents(tape, DOMAIN tape, p.b, s))
  BY <1>3, <1>4, <1>6
<1>. QED
  BY <1>1, <1>4, <1>7, <1>8, Zenon DEF SharedIn

\* After a batch, whichever of its writes failed, every edge is shared.
LEMMA GraphBuilt ==
    ASSUME NEW n \in Nat, DOMAIN tape = 1 .. n, EdgeIsShared, \A e \in edges : e.shared \in Int, BuildGraph
    PROVE  EdgeIsShared' /\ \A e \in edges' : e.shared \in Int
<1>1. PICK done \in SUBSET CoTradePairs(CoTradeRows) : edges' = Upserted(done)
  BY Zenon DEF BuildGraph
<1>2. tape' = tape
  BY DEF BuildGraph, Background
<1>3. ASSUME NEW e \in edges' PROVE SharedIn(tape, e) /\ e.shared \in Int
  <2>1. CASE e \in edges
    BY <2>1, SharedMeans
  <2>2. CASE e \notin edges
    <3>1. PICK p \in done : e = EdgeRow(p)
      BY <1>1, <2>2, Zenon DEF Upserted
    <3>. QED
      BY <3>1, PairShared
  <2>. QED
    BY <2>1, <2>2
<1>. QED
  BY <1>2, <1>3, SharedMeans

\* The places of a list.
LEMMA ListDomain ==
    ASSUME NEW R, NEW q, q \in Seq(R)
    PROVE  DOMAIN q = 1 .. Len(q) /\ Len(q) \in Nat /\ IsFiniteSet(DOMAIN q)
<1>1. DOMAIN q = 1 .. Len(q) /\ Len(q) \in Nat
  OBVIOUS
<1>. QED
  BY <1>1, FS_Interval

\* walletcohort has nothing to converge on.
LEMMA NothingConverges ==
    ASSUME NEW w, NEW s, NEW told
    PROVE  ~CohortConverges(w, s, told, {}, {}, FALSE)
<1>. DEFINE peers == {e \in told : e.shared * 100 >= MinSimilarity * e.of /\ e.shared >= MinEvents}
<1>1. /\ {x \in {} : (x.wallet # w /\ x.side = s) /\ \E e \in peers : x.wallet \in {e.a, e.b}} = {}
      /\ {x \in {} : (x.wallet # w /\ x.side = s) /\ x.wallet \in {}} = {}
  OBVIOUS
<1>2. Cardinality({}) = 0 /\ ~(0 + 1 >= MinCohort) /\ ~(0 + 0 >= FreshBurst)
  BY FS_EmptySet, CohortAssumption
<1>. HIDE DEF peers
<1>3. CohortConverges(w, s, told, {}, {}, FALSE) <=>
          \/ peers # {} /\ Cardinality({}) + 1 >= MinCohort
          \/ Cardinality({}) + 0 >= FreshBurst
  BY <1>1, Zenon DEF CohortConverges, peers
<1>. QED
  BY <1>2, <1>3, Zenon

\* Every step of walletcohort's lane keeps its invariant.
LEMMA GraphStep ==
    ASSUME lane \in Lanes, lane = "cohort", GraphInv, GraphNext
    PROVE  lane' = lane /\ GraphInv'
<1>. DEFINE n == Len(tape)
<1>0. /\ tape \in Seq(TapeRows("cohort")) /\ EdgeIsShared /\ (\A e \in edges : e.shared \in Int)
      /\ n \in Nat /\ DOMAIN tape = 1 .. n /\ IsFiniteSet(DOMAIN tape) /\ "cohort" \in {"cohort", "thesis", "tail", "lag"} \cap Lanes
  BY ListDomain DEF GraphInv
<1>1. ASSUME NEW t \in Prints["cohort"], Traded(t), UNCHANGED edges PROVE lane' = lane /\ GraphInv'
  <2>1. /\ tape' \in Seq(TapeRows("cohort")) /\ DOMAIN tape' = DOMAIN tape \cup {n + 1}
        /\ \A i \in DOMAIN tape : tape'[i] = tape[i]
        /\ row' = NoRow /\ lane' = lane
    BY <1>0, <1>1, TradedTyped, Zenon
  <2>3. IsFiniteSet(DOMAIN tape')
    BY <2>1, ListDomain
  <2>4. \A e \in edges' : SharedIn(tape', e) /\ e.shared \in Int
    BY <1>0, <1>1, <2>1, <2>3, SharedMeans, SharedGrows, Zenon
  <2>. QED
    BY <2>1, <2>4, SharedMeans DEF GraphInv
<1>2. ASSUME BuildGraph PROVE lane' = lane /\ GraphInv'
  <2>1. EdgeIsShared' /\ \A e \in edges' : e.shared \in Int
    BY <1>0, <1>2, GraphBuilt, Zenon
  <2>2. row' = NoRow /\ lane' = lane /\ tape' = tape
    BY <1>2 DEF BuildGraph, Background
  <2>. QED
    BY <1>0, <2>1, <2>2, SMTT(40) DEF GraphInv
<1>3. ASSUME NEW t \in Prints["cohort"], AskCohort(t.wallet, t.side) PROVE lane' = lane /\ GraphInv'
  <2>1. PICK r : Concludes(r, Verdict("walletcohort",
                                ~r.failed /\ CohortConverges(t.wallet, t.side, r.rows, {}, {}, FALSE),
                                r.failed, [wallet |-> t.wallet, side |-> t.side]))
    BY <1>3, Zenon DEF AskCohort
  <2>2. Concludes(r, Verdict("walletcohort", FALSE, r.failed, [wallet |-> t.wallet, side |-> t.side]))
    BY <2>1, NothingConverges, Zenon
  <2>3. lane' = lane /\ tape' = tape /\ edges' = edges
    BY <1>3, <2>2 DEF Concludes, AskCohort
  <2>4. row'.by = "walletcohort" /\ ~row'.fired
    BY <2>2 DEF Concludes, Verdict
  <2>. QED
    BY <1>0, <2>3, <2>4, SharedMeans DEF GraphInv
<1>4. ASSUME GraphElapses PROVE lane' = lane /\ GraphInv'
  <2>1. FrameElapses /\ edges' = edges
    BY <1>4 DEF GraphElapses
  <2>2. /\ tape' \in Seq(TapeRows("cohort")) /\ DOMAIN tape' = DOMAIN tape
        /\ \A i \in DOMAIN tape : /\ tape'[i].wallet = tape[i].wallet
                                  /\ tape'[i].market = tape[i].market
                                  /\ tape'[i].side = tape[i].side
        /\ row' = NoRow /\ lane' = lane
    BY <1>0, <2>1, ElapsedTyped, Zenon
  <2>3. IsFiniteSet(DOMAIN tape') /\ DOMAIN tape \subseteq DOMAIN tape'
    BY <1>0, <2>2, FS_Interval
  <2>4. \A e \in edges' : SharedIn(tape', e) /\ e.shared \in Int
    BY <1>0, <2>1, <2>2, <2>3, SharedMeans, SharedGrows, Zenon
  <2>. QED
    BY <2>2, <2>4, SharedMeans DEF GraphInv
<1>. QED
  BY <1>1, <1>2, <1>3, <1>4 DEF GraphNext

\* What is kept has an age within CacheTTL.
CacheTyped(kept) ==
    \A k \in DOMAIN kept : /\ kept[k] = [value |-> kept[k].value, age |-> kept[k].age]
                           /\ kept[k].age \in 0 .. CacheTTL

\* A read answers from the cache, or from the rows, which are kept then, or fails.
LEMMA ReadIs ==
    ASSUME NEW key, NEW rows, NEW none, NEW q \in Reads(key, rows, none)
    PROVE  \/ /\ key \in DOMAIN cache /\ ~q.failed /\ q.cache = cache
              /\ q.rows = cache[key].value /\ q.age = cache[key].age
           \/ /\ key \notin DOMAIN cache /\ ~q.failed /\ q.cache = CachePut(key, rows)
              /\ q.rows = rows /\ q.age = 0
           \/ /\ key \notin DOMAIN cache /\ q.failed /\ q.cache = cache
              /\ q.rows = none /\ q.age = 0
BY DEF Reads, CacheHit

\* What is in the cache after one answer more.
LEMMA PutIs ==
    ASSUME NEW key, NEW value, NEW k \in DOMAIN CachePut(key, value)
    PROVE  \/ k \in DOMAIN cache /\ CachePut(key, value)[k] = cache[k]
           \/ /\ k = key /\ CachePut(key, value)[k] = [value |-> value, age |-> 0]
              /\ CachePut(key, value)[k].value = value /\ CachePut(key, value)[k].age = 0
<1>1. CASE CacheEnabled
  <2>1. CachePut(key, value) = [j \in DOMAIN cache \cup {key} |-> IF j = key THEN Entry(value) ELSE cache[j]]
    BY <1>1, Zenon DEF CachePut
  <2>2. Entry(value) = [value |-> value, age |-> 0]
    BY DEF Entry
  <2>3. k \in DOMAIN cache \cup {key} /\ CachePut(key, value)[k] = (IF k = key THEN Entry(value) ELSE cache[k])
    BY <2>1
  <2>. QED
    BY <2>2, <2>3
<1>2. CASE ~CacheEnabled
  <2>1. CachePut(key, value) = cache
    BY <1>2 DEF CachePut
  <2>. QED
    BY <2>1
<1>. QED
  BY <1>1, <1>2

\* A read leaves a cache of well-typed answers, ...
LEMMA ReadTyped ==
    ASSUME CacheTyped(cache), NEW key, NEW rows, NEW none, NEW q \in Reads(key, rows, none)
    PROVE  CacheTyped(q.cache)
<1>1. q.cache = cache \/ q.cache = CachePut(key, rows)
  BY ReadIs
<1>2. CacheTyped(CachePut(key, rows))
  <2>. SUFFICES ASSUME NEW k \in DOMAIN CachePut(key, rows)
                PROVE  LET c == CachePut(key, rows)
                       IN  c[k] = [value |-> c[k].value, age |-> c[k].age] /\ c[k].age \in 0 .. CacheTTL
    BY DEF CacheTyped
  <2>1. CASE k \in DOMAIN cache /\ CachePut(key, rows)[k] = cache[k]
    BY <2>1 DEF CacheTyped
  <2>2. CASE CachePut(key, rows)[k] = [value |-> rows, age |-> 0]
    BY <2>2, CacheAssumption
  <2>. QED
    BY <2>1, <2>2, PutIs
<1>. QED
  BY <1>1, <1>2

\* ... and so do two reads.
LEMMA BothTyped ==
    ASSUME NEW q, NEW r, CacheTyped(q.cache), CacheTyped(r.cache)
    PROVE  CacheTyped(CacheOfBoth(q, r))
BY Zenon DEF CacheTyped, CacheOfBoth

\* What is kept is kept as it is, only older.
LEMMA CacheAges ==
    ASSUME FrameElapses, CacheTyped(cache)
    PROVE  /\ \A k \in DOMAIN cache' : /\ k \in DOMAIN cache
                                       /\ cache[k].age < CacheTTL
                                       /\ cache'[k].value = cache[k].value
                                       /\ cache'[k].age = cache[k].age + 1
           /\ CacheTyped(cache')
<1>1. cache' = [k \in {k \in DOMAIN cache : cache[k].age < CacheTTL} |-> [cache[k] EXCEPT !.age = @ + 1]]
  BY Zenon DEF FrameElapses, AgedCache
<1>2. ASSUME NEW k \in DOMAIN cache'
      PROVE  k \in DOMAIN cache /\ cache[k].age < CacheTTL /\ cache'[k] = [cache[k] EXCEPT !.age = @ + 1]
  BY <1>1
<1>3. ASSUME NEW k \in DOMAIN cache'
      PROVE  /\ cache'[k].value = cache[k].value /\ cache'[k].age = cache[k].age + 1
             /\ cache'[k] = [value |-> cache'[k].value, age |-> cache'[k].age]
  BY <1>2 DEF CacheTyped
<1>4. \A k \in DOMAIN cache' : cache'[k].age \in 0 .. CacheTTL
  BY <1>2, <1>3, CacheAssumption DEF CacheTyped
<1>. QED
  BY <1>2, <1>3, <1>4 DEF CacheTyped

-----------------------------------------------------------------------------
(* The thesis lines *)

\* The trades of one group, and what some trades come to.
GroupIn(trades, w, m, s) ==
    {i \in DOMAIN trades : trades[i].wallet = w /\ trades[i].market = m /\ trades[i].side = s}

\* What some trades come to.
UsdIn(trades, rows) == Total([i \in rows |-> trades[i].usd], rows)

\* A line does not say more than its trades.
LineBacked(trades, l) ==
    /\ l.usd \in Nat
    /\ Cardinality(GroupIn(trades, l.wallet, l.market, l.side)) >= 2
    /\ l.usd <= UsdIn(trades, GroupIn(trades, l.wallet, l.market, l.side))

\* There is one line for a wallet, market and side.
OneLineEach(some) == \A l, k \in some : SameLine(l, k) => l = k

\* The lines a reader answers for a wallet in an event.
LinesHold(trades, ev, w, some) ==
    /\ OneLineEach(some)
    /\ \A l \in some : LineBacked(trades, l) /\ EventOf[l.market] = ev /\ l.wallet = w

\* The kept answers are such lines.
KeptLinesHold(trades, kept) ==
    \A ev, w : <<"wtl", ev, w>> \in DOMAIN kept =>
                   LinesHold(trades, ev, w, kept[<<"wtl", ev, w>>].value)

\* A wallet's trades in an event, ...
EventTrades(trades, w, ev) ==
    {i \in DOMAIN trades : trades[i].wallet = w /\ EventOf[trades[i].market] = ev}

\* ... those on one side, ...
SideTrades(trades, w, ev, s) == {i \in EventTrades(trades, w, ev) : trades[i].side = s}

\* ... what some lines come to on a side, ...
LinesUsd(some, s) == Total([l \in some |-> l.usd], {l \in some : l.side = s})

\* ... and the groups of at least two trades.
GroupsTold(trades, w, ev) ==
    {g \in {<<trades[i].market, trades[i].side>> : i \in EventTrades(trades, w, ev)} :
         Cardinality(GroupIn(trades, w, g[1], g[2])) >= 2}

\* A wallet did buy into an event, by enough money and in enough groups.
ThesisHolds(trades, w, ev, s) ==
    /\ UsdIn(trades, SideTrades(trades, w, ev, s)) >= LiquidityFloor
    /\ Cardinality(GroupsTold(trades, w, ev)) >= MinBreadth

\* ThesisWasTraded, said by means of ThesisHolds.
LEMMA ThesisMeans ==
    /\ ThesisWasTraded <=> ((row # NoRow /\ row.by = "thesisaccum" /\ row.fired) =>
                               ThesisHolds(tape, row.on[1], row.on[2], row.on[3]))
    /\ ThesisWasTraded' <=> ((row' # NoRow /\ row'.by = "thesisaccum" /\ row'.fired) =>
                               ThesisHolds(tape', row'.on[1], row'.on[2], row'.on[3]))
BY Zenon DEF ThesisWasTraded, ThesisHolds, EventTrades, SideTrades, GroupsTold, GroupOf, GroupIn, Usd, UsdIn

\* thesisaccum: each line is backed by its trades, each kept answer too, and what
\* fired was traded.
LinesInv ==
    lane = "thesis" =>
        /\ tape \in Seq(TapeRows("thesis"))
        /\ OneLineEach(lines) /\ \A l \in lines : LineBacked(tape, l)
        /\ KeptLinesHold(tape, cache) /\ CacheTyped(cache)
        /\ row # NoRow => row.by = "thesisaccum" /\ ThesisWasTraded

\* What some trades come to.
LEMMA UsdNat ==
    ASSUME NEW t, NEW rows, IsFiniteSet(rows), \A i \in rows : t[i].usd \in Nat
    PROVE  UsdIn(t, rows) \in Nat
<1>. DEFINE v == [i \in rows |-> t[i].usd]
<1>1. \A i \in rows : v[i] \in Nat
  OBVIOUS
<1>. HIDE DEF v
<1>2. Total(v, rows) \in Nat
  BY <1>1, TotalNat
<1>. QED
  BY <1>2 DEF UsdIn, v

\* More trades come to no less.
LEMMA UsdGrows ==
    ASSUME NEW t, NEW u, NEW rows, NEW all, IsFiniteSet(all), rows \subseteq all,
           \A i \in rows : u[i].usd = t[i].usd, \A i \in all : u[i].usd \in Nat
    PROVE  UsdIn(t, rows) \in Nat /\ UsdIn(u, all) \in Nat /\ UsdIn(t, rows) <= UsdIn(u, all)
<1>. DEFINE v == [i \in rows |-> t[i].usd]
            x == [i \in all |-> u[i].usd]
<1>1. /\ \A i \in rows : v[i] \in Int /\ v[i] \in Nat /\ x[i] = v[i]
      /\ \A i \in all : x[i] \in Nat
  OBVIOUS
<1>2. IsFiniteSet(rows)
  BY FS_Subset
<1>. HIDE DEF v, x
<1>3. Total(v, rows) = Total(x, rows)
  BY <1>1, <1>2, TotalSame
<1>4. Total(x, rows) <= Total(x, all)
  BY <1>1, TotalMono
<1>5. Total(v, rows) \in Nat /\ Total(x, all) \in Nat
  BY <1>1, <1>2, TotalNat
<1>6. Total(v, rows) = UsdIn(t, rows) /\ Total(x, all) = UsdIn(u, all)
  BY DEF UsdIn, v, x
<1>. QED
  BY <1>3, <1>4, <1>5, <1>6

\* Trades in two groups come to the sum of both.
LEMMA UsdSplit ==
    ASSUME NEW t, NEW a, IsFiniteSet(a), NEW b, IsFiniteSet(b), a \cap b = {},
           \A i \in a \cup b : t[i].usd \in Nat
    PROVE  UsdIn(t, a \cup b) = UsdIn(t, a) + UsdIn(t, b)
<1>. DEFINE v == [i \in a \cup b |-> t[i].usd]
            x == [i \in a |-> t[i].usd]
            y == [i \in b |-> t[i].usd]
<1>1. /\ \A i \in a \cup b : v[i] \in Int
      /\ \A i \in a : x[i] \in Int /\ v[i] = x[i]
      /\ \A i \in b : y[i] \in Int /\ v[i] = y[i]
  OBVIOUS
<1>. HIDE DEF v, x, y
<1>2. Total(v, a \cup b) = Total(v, a) + Total(v, b)
  BY <1>1, TotalSplit
<1>3. Total(x, a) = Total(v, a) /\ Total(y, b) = Total(v, b)
  BY <1>1, TotalSame
<1>4. Total(v, a \cup b) = UsdIn(t, a \cup b) /\ Total(x, a) = UsdIn(t, a) /\ Total(y, b) = UsdIn(t, b)
  BY DEF UsdIn, v, x, y
<1>. QED
  BY <1>2, <1>3, <1>4

\* A line stays backed as trades come and grow older.
LEMMA LineStaysBacked ==
    ASSUME NEW t, NEW u, IsFiniteSet(DOMAIN u), DOMAIN t \subseteq DOMAIN u,
           \A i \in DOMAIN u : u[i].usd \in Nat,
           \A i \in DOMAIN t : /\ u[i].wallet = t[i].wallet /\ u[i].market = t[i].market
                               /\ u[i].side = t[i].side /\ u[i].usd = t[i].usd,
           NEW l, LineBacked(t, l)
    PROVE  LineBacked(u, l)
<1>. DEFINE G == GroupIn(t, l.wallet, l.market, l.side)
            H == GroupIn(u, l.wallet, l.market, l.side)
<1>1. G \subseteq H /\ H \subseteq DOMAIN u /\ G \subseteq DOMAIN t
  BY DEF GroupIn
<1>2. l.usd \in Nat /\ Cardinality(G) >= 2 /\ l.usd <= UsdIn(t, G)
  BY DEF LineBacked
<1>. HIDE DEF G, H
<1>3. IsFiniteSet(H) /\ IsFiniteSet(G)
  <2>1. IsFiniteSet(H)
    BY <1>1, FS_Subset
  <2>. QED
    BY <1>1, <2>1, FS_Subset
<1>4. Cardinality(G) <= Cardinality(H) /\ Cardinality(G) \in Nat /\ Cardinality(H) \in Nat
  BY <1>1, <1>3, FS_Subset, FS_CardinalityType
<1>5. UsdIn(t, G) \in Nat /\ UsdIn(u, H) \in Nat /\ UsdIn(t, G) <= UsdIn(u, H)
  BY <1>1, <1>3, UsdGrows
<1>6. Cardinality(H) >= 2 /\ l.usd <= UsdIn(u, H)
  BY <1>2, <1>4, <1>5
<1>. QED
  BY <1>2, <1>6 DEF LineBacked, H

\* Finitely many trades are in finitely many groups.
LEMMA PairsFinite ==
    ASSUME NEW t, NEW rows, IsFiniteSet(rows)
    PROVE  IsFiniteSet({<<t[i].market, t[i].side>> : i \in rows})
<1>. DEFINE h == [i \in rows |-> <<t[i].market, t[i].side>>]
<1>1. h = [i \in rows |-> h[i]]
  OBVIOUS
<1>2. {h[i] : i \in rows} = {<<t[i].market, t[i].side>> : i \in rows}
  OBVIOUS
<1>. HIDE DEF h
<1>3. IsFiniteSet({h[i] : i \in rows})
  BY <1>1, ImageFinite
<1>. QED
  BY <1>2, <1>3

\* The lines of a wallet in an event do not say more than its trades there,
\* and there are no more of them than there are groups of two trades.
LEMMA LinesAddUp ==
    ASSUME NEW t, IsFiniteSet(DOMAIN t), \A i \in DOMAIN t : t[i].usd \in Nat,
           NEW ev, NEW w, NEW some, LinesHold(t, ev, w, some), NEW s
    PROVE  /\ IsFiniteSet(some)
           /\ LinesUsd(some, s) <= UsdIn(t, SideTrades(t, w, ev, s))
           /\ Cardinality(some) <= Cardinality(GroupsTold(t, w, ev))
<1>. DEFINE mine == EventTrades(t, w, ev)
            Group(l) == GroupIn(t, l.wallet, l.market, l.side)
            pairs == {<<t[i].market, t[i].side>> : i \in mine}
            told == {g \in pairs : Cardinality(GroupIn(t, w, g[1], g[2])) >= 2}
            f == [l \in some |-> <<l.market, l.side>>]
            v == [l \in some |-> l.usd]
<1>0. mine = {i \in DOMAIN t : t[i].wallet = w /\ EventOf[t[i].market] = ev}
  BY DEF EventTrades
<1>. HIDE DEF mine
<1>1. IsFiniteSet(mine) /\ mine \subseteq DOMAIN t
  BY <1>0, FS_Subset
<1>2. \A l \in some : /\ l.wallet = w /\ EventOf[l.market] = ev /\ l.usd \in Nat
                      /\ Cardinality(Group(l)) >= 2 /\ l.usd <= UsdIn(t, Group(l))
  BY DEF LinesHold, LineBacked
<1>3. \A l \in some : /\ Group(l) \subseteq {i \in mine : t[i].side = l.side}
                      /\ \A i \in Group(l) : t[i].market = l.market /\ t[i].side = l.side
  BY <1>0, <1>2, Zenon DEF GroupIn
<1>4. \A l \in some : \A k \in some : l # k => Group(l) \cap Group(k) = {}
  <2>. SUFFICES ASSUME NEW l \in some, NEW k \in some, l # k, NEW i \in Group(l), i \in Group(k)
                PROVE  FALSE
    OBVIOUS
  <2>1. l.market = k.market /\ l.side = k.side /\ l.wallet = k.wallet
    BY <1>2, <1>3
  <2>. QED
    BY <2>1 DEF LinesHold, OneLineEach, SameLine
<1>5. \A l \in some : IsFiniteSet(Group(l)) /\ Group(l) # {}
  <2>. SUFFICES ASSUME NEW l \in some PROVE IsFiniteSet(Group(l)) /\ Group(l) # {}
    OBVIOUS
  <2>1. Group(l) \in SUBSET mine
    BY <1>3
  <2>2. Cardinality(Group(l)) >= 2
    BY <1>2
  <2>. HIDE DEF Group
  <2>3. IsFiniteSet(Group(l))
    BY <1>1, <2>1, FS_Subset
  <2>. QED
    BY <2>2, <2>3, FS_EmptySet
<1>6. f \in Injection(some, told)
  <2>1. ASSUME NEW l \in some PROVE f[l] \in told
    <3>1. PICK i \in Group(l) : TRUE
      BY <1>5
    <3>2. i \in mine /\ t[i].market = l.market /\ t[i].side = l.side
      BY <1>3
    <3>3. <<l.market, l.side>> \in pairs
      BY <3>2
    <3>. QED
      BY <1>2, <3>3
  <2>2. ASSUME NEW l \in some, NEW k \in some, f[l] = f[k] PROVE l = k
    BY <1>2, <2>2 DEF LinesHold, OneLineEach, SameLine
  <2>. QED
    BY <2>1, <2>2 DEF Injection, IsInjective
<1>7. IsFiniteSet(told)
  <2>2. IsFiniteSet(pairs)
    BY <1>1, PairsFinite
  <2>3. told \in SUBSET pairs
    OBVIOUS
  <2>. HIDE DEF told, pairs
  <2>. QED
    BY <2>2, <2>3, FS_Subset
<1>8. IsFiniteSet(some) /\ Cardinality(some) <= Cardinality(told)
  <2>. HIDE DEF f, told
  <2>. QED
    BY <1>6, <1>7, FS_Injection
<1>9. Total(v, {l \in some : l.side = s}) <= UsdIn(t, {i \in mine : t[i].side = s})
  <2>. DEFINE A == {l \in some : l.side = s}
              U(T) == UNION {Group(l) : l \in T}
              F == {T \in SUBSET A : IsFiniteSet(U(T)) /\ Total(v, T) <= UsdIn(t, U(T))}
  <2>1. /\ A \subseteq some /\ IsFiniteSet(A)
        /\ \A T \in SUBSET A : U(T) \subseteq {i \in mine : t[i].side = s}
    <3>1. A \in SUBSET some
      OBVIOUS
    <3>2. IsFiniteSet(A)
      BY <1>8, <3>1, FS_Subset
    <3>. QED
      BY <1>3, <3>2
  <2>2. {} \in F
    <3>1. U({}) = {} /\ {} \in SUBSET A
      OBVIOUS
    <3>2. UsdIn(t, {}) = 0 /\ Total(v, {}) = 0
      BY TotalEmpty DEF UsdIn
    <3>3. IsFiniteSet({})
      BY FS_EmptySet
    <3>. HIDE DEF U, A, v
    <3>. QED
      BY <3>1, <3>2, <3>3
  <2>3. ASSUME NEW T \in SUBSET A, NEW x \in A \ T, T \in F PROVE T \cup {x} \in F
    <3>1. /\ U(T \cup {x}) = U(T) \cup Group(x)
          /\ U(T) \cap Group(x) = {} /\ IsFiniteSet(U(T)) /\ Total(v, T) <= UsdIn(t, U(T))
      <4>1. x \in some /\ T \subseteq some /\ x \notin T
        OBVIOUS
      <4>2. \A k \in T : Group(k) \cap Group(x) = {}
        BY <1>4, <4>1
      <4>3. IsFiniteSet(U(T)) /\ Total(v, T) <= UsdIn(t, U(T))
        BY <2>3, Zenon DEF F
      <4>. HIDE DEF Group, F
      <4>. QED
        BY <4>2, <4>3, Zenon
    <3>2. U(T) \subseteq DOMAIN t /\ Group(x) \subseteq DOMAIN t /\ x \in some /\ T \subseteq some
      BY <1>1, <1>3, <2>1
    <3>3. IsFiniteSet(T) /\ IsFiniteSet(Group(x)) /\ x \notin T
      BY <1>5, <2>1, <3>2, FS_Subset
    <3>4. \A y \in some : v[y] \in Nat /\ v[y] = y.usd
      BY <1>2
    <3>5. x.usd <= UsdIn(t, Group(x))
      BY <1>2, <3>2
    <3>. HIDE DEF U, Group, v
    <3>6. Total(v, T \cup {x}) = Total(v, T) + v[x] /\ Total(v, T) \in Int /\ v[x] \in Int
      <4>1. \A y \in T \cup {x} : v[y] \in Int
        BY <3>2, <3>4
      <4>. QED
        BY <3>3, <4>1, TotalAdd, TotalInt
    <3>7. UsdIn(t, U(T) \cup Group(x)) = UsdIn(t, U(T)) + UsdIn(t, Group(x))
      BY <3>1, <3>2, <3>3, UsdSplit
    <3>8. UsdIn(t, U(T)) \in Nat /\ UsdIn(t, Group(x)) \in Nat
      BY <3>1, <3>2, <3>3, UsdNat
    <3>9. Total(v, T \cup {x}) <= UsdIn(t, U(T \cup {x}))
      <4>1. v[x] <= UsdIn(t, Group(x)) /\ Total(v, T) <= UsdIn(t, U(T))
        BY <3>1, <3>2, <3>4, <3>5
      <4>2. Total(v, T \cup {x}) <= UsdIn(t, U(T)) + UsdIn(t, Group(x))
        BY <3>6, <3>8, <4>1
      <4>. QED
        BY <3>1, <3>7, <4>2, Zenon
    <3>10. IsFiniteSet(U(T \cup {x}))
      BY <3>1, <3>3, FS_Union, ZenonT(60)
    <3>. QED
      BY <3>9, <3>10
  <2>. HIDE DEF F
  <2>4. A \in F
    BY <2>1, <2>2, <2>3, EveryFinite, Zenon
  <2>5. Total(v, A) <= UsdIn(t, U(A)) /\ IsFiniteSet(U(A)) /\ U(A) \subseteq {i \in mine : t[i].side = s}
    BY <2>1, <2>4, Zenon DEF F
  <2>6. IsFiniteSet({i \in mine : t[i].side = s}) /\ {i \in mine : t[i].side = s} \subseteq DOMAIN t
    BY <1>1, FS_Subset
  <2>. HIDE DEF U
  <2>7. /\ UsdIn(t, U(A)) \in Nat /\ UsdIn(t, {i \in mine : t[i].side = s}) \in Nat
        /\ UsdIn(t, U(A)) <= UsdIn(t, {i \in mine : t[i].side = s})
    BY <2>5, <2>6, UsdGrows
  <2>8. Total(v, A) \in Int
    <3>1. \A y \in A : v[y] \in Int
      BY <1>2
    <3>. HIDE DEF A, v
    <3>. QED
      BY <2>1, <3>1, TotalInt
  <2>. HIDE DEF v
  <2>. QED
    BY <2>5, <2>7, <2>8
<1>. QED
  BY <1>8, <1>9, Zenon DEF GroupsTold, LinesUsd, SideTrades, mine

\* A batch says of each group what its trades within the lookback come to.
LEMMA AggregateBacked ==
    ASSUME IsFiniteSet(DOMAIN tape), \A i \in DOMAIN tape : tape[i].usd \in Nat,
           NEW g \in Groups
    PROVE  LineBacked(tape, Line(g))
<1>. DEFINE K(k) == GroupOf(k[1], k[2], k[3])
<1>1. PICK k \in Backers \X Markets \X TradeSides :
          /\ Cardinality(InLookback(K(k))) >= 2
          /\ g = [wallet |-> k[1], market |-> k[2], side |-> k[3],
                  usd |-> Usd(InLookback(K(k))), newest |-> Max(InLookback(K(k)))]
  BY Zenon DEF Groups
<1>2. /\ Line(g).wallet = k[1] /\ Line(g).market = k[2] /\ Line(g).side = k[3]
      /\ Line(g).usd = Usd(InLookback(K(k)))
  BY <1>1 DEF Line
<1>3. InLookback(K(k)) \subseteq K(k) /\ K(k) \subseteq DOMAIN tape
  BY DEF InLookback, GroupOf
<1>4. K(k) = GroupIn(tape, k[1], k[2], k[3])
  BY DEF GroupOf, GroupIn
<1>5. Usd(InLookback(K(k))) = UsdIn(tape, InLookback(K(k)))
  BY Zenon DEF Usd, UsdIn
<1>. DEFINE all == K(k)
            late == InLookback(K(k))
<1>. HIDE DEF K
<1>6. IsFiniteSet(all) /\ IsFiniteSet(late)
  BY <1>3, FS_Subset
<1>7. Cardinality(late) <= Cardinality(all) /\ Cardinality(late) \in Nat /\ Cardinality(all) \in Nat
  BY <1>3, <1>6, FS_Subset, FS_CardinalityType
<1>8. UsdIn(tape, late) \in Nat /\ UsdIn(tape, late) <= UsdIn(tape, all)
  <2>1. /\ IsFiniteSet(all) /\ late \subseteq all /\ \A i \in late : tape[i].usd = tape[i].usd
        /\ \A i \in all : tape[i].usd \in Nat
    BY <1>3, <1>6
  <2>. HIDE DEF all, late
  <2>. QED
    BY <2>1, UsdGrows
<1>9. Cardinality(all) >= 2
  BY <1>1, <1>7
<1>. QED
  BY <1>2, <1>4, <1>5, <1>8, <1>9, Zenon DEF LineBacked

\* Two groups have two lines.
LEMMA GroupsDiffer ==
    ASSUME NEW g \in Groups, NEW h \in Groups, SameLine(Line(g), Line(h))
    PROVE  Line(g) = Line(h)
<1>. DEFINE K(k) == GroupOf(k[1], k[2], k[3])
            RowAt(k) == [wallet |-> k[1], market |-> k[2], side |-> k[3],
                       usd |-> Usd(InLookback(K(k))), newest |-> Max(InLookback(K(k)))]
<1>1. PICK k \in Backers \X Markets \X TradeSides : g = RowAt(k)
  BY Zenon DEF Groups
<1>2. PICK l \in Backers \X Markets \X TradeSides : h = RowAt(l)
  BY Zenon DEF Groups
<1>3. k[1] = l[1] /\ k[2] = l[2] /\ k[3] = l[3]
  BY <1>1, <1>2 DEF SameLine, Line
<1>4. k = <<k[1], k[2], k[3]>> /\ l = <<l[1], l[2], l[3]>>
  OBVIOUS
<1>5. k = l
  BY <1>3, <1>4
<1>. QED
  BY <1>1, <1>2, <1>5

\* After a batch there is one line for a group, and each is backed.
LEMMA LinesMaterialise ==
    ASSUME IsFiniteSet(DOMAIN tape), \A i \in DOMAIN tape : tape[i].usd \in Nat,
           OneLineEach(lines), \A l \in lines : LineBacked(tape, l), MaterialiseLines
    PROVE  OneLineEach(lines') /\ \A l \in lines' : LineBacked(tape, l)
<1>1. PICK written \in SUBSET Aggregates : lines' = LinesWith(written)
  BY DEF MaterialiseLines
<1>2. written \subseteq Groups
  BY Zenon DEF Aggregates
<1>3. \A l \in lines' : \/ l \in lines /\ \A g \in written : ~SameLine(l, g)
                        \/ \E g \in written : l = Line(g)
  BY <1>1, Zenon DEF LinesWith
<1>4. \A l \in lines' : LineBacked(tape, l)
  BY <1>2, <1>3, AggregateBacked
<1>5. \A l : \A g : /\ SameLine(l, Line(g)) <=> SameLine(l, g)
                    /\ SameLine(Line(g), l) => SameLine(l, g)
  BY DEF SameLine, Line
<1>6. ASSUME NEW l \in lines', NEW k \in lines', SameLine(l, k) PROVE l = k
  <2>1. CASE l \in lines /\ k \in lines
    BY <1>6, <2>1 DEF OneLineEach
  <2>2. CASE \E g, h \in written : l = Line(g) /\ k = Line(h)
    BY <1>2, <1>6, <2>2, GroupsDiffer
  <2>3. CASE l \in lines /\ (\A g \in written : ~SameLine(l, g)) /\ \E h \in written : k = Line(h)
    BY <1>5, <1>6, <2>3
  <2>4. CASE k \in lines /\ (\A g \in written : ~SameLine(k, g)) /\ \E h \in written : l = Line(h)
    BY <1>5, <1>6, <2>4
  <2>. QED
    BY <1>3, <2>1, <2>2, <2>3, <2>4
<1>. QED
  BY <1>4, <1>6 DEF OneLineEach

\* The lines a reader may answer with.
LEMMA LinesAnswered ==
    ASSUME OneLineEach(lines), \A l \in lines : LineBacked(tape, l), KeptLinesHold(tape, cache),
           NEW ev, NEW w, NEW q \in WalletThesisLinesForEvent(ev, w)
    PROVE  /\ LinesHold(tape, ev, w, q.rows)
           /\ KeptLinesHold(tape, q.cache)
<1>. DEFINE key == <<"wtl", ev, w>>
<1>1. LinesHold(tape, ev, w, LinesOf(ev, w)) /\ LinesHold(tape, ev, w, {})
  BY DEF LinesHold, LinesOf, OneLineEach
<1>2. CASE CacheHit(key)
  <2>1. q.rows = cache[key].value /\ q.cache = cache
    BY <1>2 DEF WalletThesisLinesForEvent, Reads
  <2>. QED
    BY <1>2, <2>1, Zenon DEF KeptLinesHold, CacheHit
<1>3. CASE ~CacheHit(key)
  <2>1. \/ q.rows = LinesOf(ev, w) /\ q.cache = CachePut(key, LinesOf(ev, w))
        \/ q.rows = {} /\ q.cache = cache
    BY <1>3 DEF WalletThesisLinesForEvent, Reads
  <2>2. KeptLinesHold(tape, CachePut(key, LinesOf(ev, w)))
    <3>. DEFINE new == CachePut(key, LinesOf(ev, w))
    <3>1. CASE ~CacheEnabled
      BY <3>1 DEF CachePut
    <3>2. CASE CacheEnabled
      <4>1. new = [k \in DOMAIN cache \cup {key} |-> IF k = key THEN Entry(LinesOf(ev, w)) ELSE cache[k]]
        BY <3>2, Zenon DEF CachePut
      <4>. SUFFICES ASSUME NEW e, NEW x, <<"wtl", e, x>> \in DOMAIN new
                    PROVE  LinesHold(tape, e, x, new[<<"wtl", e, x>>].value)
        BY DEF KeptLinesHold
      <4>2. CASE <<"wtl", e, x>> = key
        <5>1. e = ev /\ x = w
          BY <4>2
        <5>2. new[key].value = LinesOf(ev, w)
          BY <4>1 DEF Entry
        <5>. QED
          BY <1>1, <5>1, <5>2
      <4>3. CASE <<"wtl", e, x>> # key
        BY <4>1, <4>3 DEF KeptLinesHold
      <4>. QED
        BY <4>2, <4>3
    <3>. QED
      BY <3>1, <3>2
  <2>. QED
    BY <1>1, <2>1, <2>2
<1>. QED
  BY <1>2, <1>3

\* Reading the links leaves the kept lines as they are.
LEMMA LinksAnswered ==
    ASSUME KeptLinesHold(tape, cache), NEW ev, NEW r \in MarketLinksByEvent(ev)
    PROVE  KeptLinesHold(tape, r.cache)
<1>. DEFINE key == <<"ml", ev>>
<1>1. \/ r.cache = cache
      \/ r.cache = [k \in DOMAIN cache \cup {key} |-> IF k = key THEN Entry(LinksOf(ev)) ELSE cache[k]]
  BY DEF MarketLinksByEvent, Reads, CachePut
<1>2. \A e, w : <<"wtl", e, w>> # key
  OBVIOUS
<1>. QED
  BY <1>1, <1>2, Zenon DEF KeptLinesHold

\* A thesis that fires is told of enough money and of enough groups.
LEMMA LevelMeans ==
    ASSUME NEW told, IsFiniteSet(told), \A l \in told : l.usd \in Nat, NEW s, ThesisLevel(told, s) # "none"
    PROVE  /\ Cardinality(told) >= MinBreadth
           /\ LinesUsd(told, s) \in Nat /\ LinesUsd(told, s) >= LiquidityFloor
<1>. DEFINE v == [l \in told |-> l.usd]
            A == {l \in told : l.side = s}
<1>1. ~(Cardinality(told) < MinBreadth) /\ ~(Total(v, A) < LiquidityFloor)
  BY Zenon DEF ThesisLevel
<1>2. Cardinality(told) \in Nat
  BY FS_CardinalityType
<1>3. Total(v, A) \in Nat
  <2>1. A \in SUBSET told /\ \A l \in told : v[l] \in Nat
    OBVIOUS
  <2>. HIDE DEF A, v
  <2>2. IsFiniteSet(A)
    BY <2>1, FS_Subset
  <2>. QED
    BY <2>1, <2>2, TotalNat
<1>4. Total(v, A) = LinesUsd(told, s)
  BY Zenon DEF LinesUsd
<1>. HIDE DEF v, A
<1>. QED
  BY <1>1, <1>2, <1>3, <1>4, ThesisAssumption

\* Every step of thesisaccum's lane keeps its invariant.
LEMMA LinesStep ==
    ASSUME lane \in Lanes, lane = "thesis", LinesInv, LinesNext
    PROVE  lane' = lane /\ LinesInv'
<1>0. /\ tape \in Seq(TapeRows("thesis")) /\ IsFiniteSet(DOMAIN tape)
      /\ \A i \in DOMAIN tape : tape[i].usd \in Nat
      /\ OneLineEach(lines) /\ (\A l \in lines : LineBacked(tape, l))
      /\ KeptLinesHold(tape, cache) /\ CacheTyped(cache)
      /\ "thesis" \in {"cohort", "thesis", "tail", "lag"} \cap Lanes
  <2>1. tape \in Seq(TapeRows("thesis"))
    BY DEF LinesInv
  <2>2. \A i \in DOMAIN tape : tape[i] \in TapeRows("thesis")
    BY <2>1
  <2>. QED
    BY <2>1, <2>2, ListDomain DEF LinesInv, TapeRows
<1>1. ASSUME tape' \in Seq(TapeRows("thesis")), DOMAIN tape \subseteq DOMAIN tape',
             \A i \in DOMAIN tape : /\ tape'[i].wallet = tape[i].wallet /\ tape'[i].market = tape[i].market
                                    /\ tape'[i].side = tape[i].side /\ tape'[i].usd = tape[i].usd,
             lines' = lines, row' = NoRow,
             CacheTyped(cache'),
             \A k \in DOMAIN cache' : k \in DOMAIN cache /\ cache'[k].value = cache[k].value
      PROVE  LinesInv'
  <2>1. IsFiniteSet(DOMAIN tape') /\ \A i \in DOMAIN tape' : tape'[i].usd \in Nat
    <3>1. \A i \in DOMAIN tape' : tape'[i] \in TapeRows("thesis")
      BY <1>1
    <3>. QED
      BY <1>1, <3>1, ListDomain DEF TapeRows
  <2>2. \A l : LineBacked(tape, l) => LineBacked(tape', l)
    BY <1>1, <2>1, LineStaysBacked
  <2>3. KeptLinesHold(tape', cache')
    <3>. SUFFICES ASSUME NEW e, NEW x, <<"wtl", e, x>> \in DOMAIN cache'
                  PROVE  LinesHold(tape', e, x, cache'[<<"wtl", e, x>>].value)
      BY Zenon DEF KeptLinesHold
    <3>1. /\ <<"wtl", e, x>> \in DOMAIN cache
          /\ cache'[<<"wtl", e, x>>].value = cache[<<"wtl", e, x>>].value
      BY <1>1
    <3>2. LinesHold(tape, e, x, cache[<<"wtl", e, x>>].value)
      BY <1>0, <3>1, Zenon DEF KeptLinesHold
    <3>. QED
      BY <2>2, <3>1, <3>2 DEF LinesHold
  <2>4. OneLineEach(lines') /\ \A l \in lines' : LineBacked(tape', l)
    BY <1>0, <1>1, <2>2
  <2>. QED
    BY <1>1, <2>3, <2>4, ThesisMeans DEF LinesInv
<1>2. ASSUME NEW t \in Prints["thesis"], Traded(t), UNCHANGED <<links, lines>>
      PROVE lane' = lane /\ LinesInv'
  <2>1. /\ tape' \in Seq(TapeRows("thesis")) /\ DOMAIN tape \subseteq DOMAIN tape'
        /\ \A i \in DOMAIN tape : tape'[i] = tape[i]
        /\ row' = NoRow /\ lane' = lane /\ cache' = cache
    BY <1>0, <1>2, TradedTyped
  <2>. QED
    BY <1>0, <1>1, <1>2, <2>1
<1>3. ASSUME BuildLinks, UNCHANGED lines PROVE lane' = lane /\ LinesInv'
  BY <1>0, <1>1, <1>3 DEF BuildLinks, Background
<1>4. ASSUME MaterialiseLines PROVE lane' = lane /\ LinesInv'
  <2>1. tape' = tape /\ cache' = cache /\ row' = NoRow /\ lane' = lane
    BY <1>4 DEF MaterialiseLines, Background
  <2>2. OneLineEach(lines') /\ \A l \in lines' : LineBacked(tape, l)
    BY <1>0, <1>4, LinesMaterialise
  <2>. QED
    BY <1>0, <2>1, <2>2, ThesisMeans DEF LinesInv
<1>5. ASSUME NEW t \in Prints["thesis"], AskThesis(t.wallet, t.market, t.side)
      PROVE  lane' = lane /\ LinesInv'
  <2>. DEFINE ev == EventOf[t.market]
              w == t.wallet
              s == t.side
  <2>1. PICK r \in MarketLinksByEvent(ev) :
           \/ Concludes(r, Verdict("thesisaccum", FALSE, r.failed, <<w, ev, s>>))
           \/ \E q \in WalletThesisLinesForEvent(ev, w) :
                     Concludes([q EXCEPT !.cache = CacheOfBoth(r, q)],
                               Verdict("thesisaccum",
                                       q.rows # {} /\ ThesisLevel(q.rows, s) # "none",
                                       q.failed, <<w, ev, s>>))
    BY <1>5, Zenon DEF AskThesis
  <2>2. KeptLinesHold(tape, r.cache) /\ CacheTyped(r.cache)
    BY <1>0, LinksAnswered, ReadTyped DEF MarketLinksByEvent
  <2>3. CASE Concludes(r, Verdict("thesisaccum", FALSE, r.failed, <<w, ev, s>>))
    <3>1. lane' = lane /\ tape' = tape /\ lines' = lines /\ cache' = r.cache
          /\ row'.by = "thesisaccum" /\ ~row'.fired
      BY <1>5, <2>3 DEF Concludes, Verdict, AskThesis
    <3>2. ThesisWasTraded'
      BY <3>1, ThesisMeans, Zenon
    <3>. QED
      BY <1>0, <2>2, <3>1, <3>2 DEF LinesInv
  <2>4. ASSUME NEW q \in WalletThesisLinesForEvent(ev, w),
               Concludes([q EXCEPT !.cache = CacheOfBoth(r, q)],
                               Verdict("thesisaccum",
                                       q.rows # {} /\ ThesisLevel(q.rows, s) # "none",
                                       q.failed, <<w, ev, s>>))
        PROVE  lane' = lane /\ LinesInv'
    <3>1. LinesHold(tape, ev, w, q.rows) /\ KeptLinesHold(tape, q.cache)
      BY <1>0, LinesAnswered
    <3>2. [q EXCEPT !.cache = CacheOfBoth(r, q)].cache = CacheOfBoth(r, q)
      BY DEF WalletThesisLinesForEvent, Reads
    <3>3. lane' = lane /\ tape' = tape /\ lines' = lines /\ cache' = CacheOfBoth(r, q)
      BY <1>5, <2>4, <3>2 DEF Concludes, AskThesis
    <3>4. /\ row'.by = "thesisaccum" /\ row'.on = <<w, ev, s>>
          /\ row'.fired <=> (q.rows # {} /\ ThesisLevel(q.rows, s) # "none")
      BY <2>4, Zenon DEF Concludes, Verdict
    <3>5. KeptLinesHold(tape, CacheOfBoth(r, q)) /\ CacheTyped(CacheOfBoth(r, q))
      <4>1. KeptLinesHold(tape, CacheOfBoth(r, q))
        BY <2>2, <3>1, Zenon DEF KeptLinesHold, CacheOfBoth
      <4>2. CacheTyped(q.cache)
        BY <1>0, ReadTyped DEF WalletThesisLinesForEvent
      <4>. QED
        BY <2>2, <4>1, <4>2, BothTyped
    <3>6. ASSUME row'.fired PROVE ThesisHolds(tape, w, ev, s)
      <4>. DEFINE mine == EventTrades(tape, w, ev)
                  groups == {<<tape[i].market, tape[i].side>> : i \in mine}
                  sum == LinesUsd(q.rows, s)
                  there == UsdIn(tape, SideTrades(tape, w, ev, s))
                  told == GroupsTold(tape, w, ev)
      <4>1. /\ IsFiniteSet(q.rows) /\ sum <= there /\ Cardinality(q.rows) <= Cardinality(told)
        <5>2. IsFiniteSet(DOMAIN tape) /\ \A i \in DOMAIN tape : tape[i].usd \in Nat
          BY <1>0
        <5>3. LinesHold(tape, ev, w, q.rows)
          BY <3>1
        <5>. HIDE DEF ev, w, s
        <5>. QED
          BY <5>2, <5>3, LinesAddUp, Zenon
      <4>2. \A l \in q.rows : l.usd \in Nat
        BY <3>1 DEF LinesHold, LineBacked
      <4>3. Cardinality(q.rows) >= MinBreadth /\ sum >= LiquidityFloor /\ sum \in Nat
        BY <3>4, <3>6, <4>1, <4>2, LevelMeans
      <4>4. Cardinality(q.rows) \in Nat
        BY <4>1, FS_CardinalityType
      <4>5. there \in Nat
        <5>. DEFINE I == SideTrades(tape, w, ev, s)
        <5>1. I \in SUBSET DOMAIN tape
          BY DEF EventTrades, SideTrades
        <5>. HIDE DEF I
        <5>2. IsFiniteSet(I) /\ \A i \in I : tape[i].usd \in Nat
          BY <1>0, <5>1, FS_Subset
        <5>3. UsdIn(tape, I) \in Nat
          BY <5>2, UsdNat
        <5>. QED
          BY <5>3 DEF I
      <4>6. Cardinality(told) \in Nat
        <5>1. mine \in SUBSET DOMAIN tape /\ told \in SUBSET groups
          BY DEF EventTrades, GroupsTold
        <5>. HIDE DEF mine, told
        <5>2. IsFiniteSet(mine)
          BY <1>0, <5>1, FS_Subset
        <5>3. IsFiniteSet(groups)
          BY <5>2, PairsFinite
        <5>. HIDE DEF groups
        <5>. QED
          BY <5>1, <5>3, FS_Subset, FS_CardinalityType
      <4>. HIDE DEF there, sum, told
      <4>7. there >= LiquidityFloor /\ Cardinality(told) >= MinBreadth
        BY <4>1, <4>3, <4>4, <4>5, <4>6, ThesisAssumption
      <4>. QED
        BY <4>7, Zenon DEF ThesisHolds, there, told
    <3>7. ThesisWasTraded'
      <4>1. row'.on[1] = w /\ row'.on[2] = ev /\ row'.on[3] = s
        BY <3>4
      <4>. QED
        BY <3>3, <3>6, <4>1, ThesisMeans, Zenon
    <3>. QED
      BY <1>0, <3>3, <3>4, <3>5, <3>7 DEF LinesInv
  <2>. QED
    BY <2>1, <2>3, <2>4, Zenon
<1>6. ASSUME LinesElapse PROVE lane' = lane /\ LinesInv'
  <2>1. FrameElapses /\ lines' = lines
    BY <1>6 DEF LinesElapse
  <2>2. /\ tape' \in Seq(TapeRows("thesis")) /\ DOMAIN tape' = DOMAIN tape
        /\ \A i \in DOMAIN tape : /\ tape'[i].wallet = tape[i].wallet
                                  /\ tape'[i].market = tape[i].market
                                  /\ tape'[i].side = tape[i].side
                                  /\ tape'[i].usd = tape[i].usd
        /\ row' = NoRow /\ lane' = lane
    BY <1>0, <2>1, ElapsedTyped, Zenon
  <2>3. /\ \A k \in DOMAIN cache' : k \in DOMAIN cache /\ cache'[k].value = cache[k].value
        /\ CacheTyped(cache')
    BY <1>0, <2>1, CacheAges
  <2>. QED
    BY <1>1, <2>1, <2>2, <2>3
<1>. QED
  BY <1>2, <1>3, <1>4, <1>5, <1>6 DEF LinesNext

-----------------------------------------------------------------------------
(* The risk scores *)

\* One write of a batch, which may be lost, ...
ScoredUnless(missed, table, m) == IF m \in missed THEN table ELSE Scored(table, m)

\* ... and the whole batch.
BatchOn(missed, base, list) ==
    FoldLeft(LAMBDA table, m : IF m \in missed THEN table ELSE Scored(table, m), base, list)

\* What every write keeps, the batch keeps.
LEMMA BatchKeeps ==
    ASSUME NEW X, NEW n \in Nat, NEW list, DOMAIN list = 1 .. n, NEW base \in X, NEW missed,
           \A table \in X : \A i \in 1 .. n : ScoredUnless(missed, table, list[i]) \in X
    PROVE  BatchOn(missed, base, list) \in X
<1>. DEFINE Eq(g) == g = [U \in SUBSET (1 .. n) |->
                             IF U = {} THEN base
                             ELSE ScoredUnless(missed, g[U \ {Max(U)}], list[Max(U)])]
            w == CHOOSE g : Eq(g)
            advance == [p \in (1 .. n) \X X |-> ScoredUnless(missed, p[2], list[p[1]])]
<1>1. \E g : Eq(g)
  <2>1. advance \in [(1 .. n) \X X -> X]
    OBVIOUS
  <2>. HIDE DEF advance
  <2>0. PICK g : FoldsTo(g, n, X, base, advance)
    BY <2>1, FoldExists
  <2>2. /\ g \in [SUBSET (1 .. n) -> X]
        /\ g = [U \in SUBSET (1 .. n) |-> IF U = {} THEN base ELSE advance[<<Max(U), g[U \ {Max(U)}]>>]]
    BY <2>0, Zenon DEF FoldsTo
  <2>3. ASSUME NEW U \in SUBSET (1 .. n), U # {}
        PROVE  advance[<<Max(U), g[U \ {Max(U)}]>>] = ScoredUnless(missed, g[U \ {Max(U)}], list[Max(U)])
    <3>0. IsFiniteSet(1 .. n)
      BY FS_Interval
    <3>a. IsFiniteSet(U)
      BY <3>0, FS_Subset, Zenon
    <3>1. IsFiniteSet(U) /\ U \subseteq Int
      BY <3>a
    <3>2. Max(U) \in 1 .. n
      BY <2>3, <3>1, MaxIs, Zenon
    <3>3. g[U \ {Max(U)}] \in X
      BY <2>2, Zenon
    <3>. QED
      BY <3>2, <3>3 DEF advance
  <2>. QED
    BY <2>2, <2>3, ZenonT(60)
<1>2. BatchOn(missed, base, list) = w[1 .. n]
  BY Zenon DEF BatchOn, FoldLeft, MapThenFoldSet, ScoredUnless
<1>3. Eq(w)
  BY <1>1, Zenon
<1>. HIDE DEF w
<1>. DEFINE F == {i \in Nat : i <= n => w[1 .. i] \in X}
<1>4. 0 \in F
  <2>1. 1 .. 0 = {} /\ {} \in SUBSET (1 .. n)
    OBVIOUS
  <2>2. w[{}] = base
    BY <1>3, <2>1
  <2>. QED
    BY <2>1, <2>2
<1>5. ASSUME NEW i \in Nat, i \in F PROVE i + 1 \in F
  <2>. SUFFICES ASSUME i + 1 <= n PROVE w[1 .. i + 1] \in X
    OBVIOUS
  <2>1. Max(1 .. i + 1) = i + 1 /\ (1 .. i + 1) \ {i + 1} = 1 .. (i + 1) - 1 /\ 1 .. i + 1 # {}
    BY IntervalFacts
  <2>2. 1 .. i + 1 \in SUBSET (1 .. n) /\ 1 .. (i + 1) - 1 = 1 .. i /\ i + 1 \in 1 .. n
    OBVIOUS
  <2>3. w[1 .. i] \in X
    BY <1>5
  <2>4. w[1 .. i + 1] = ScoredUnless(missed, w[1 .. i], list[i + 1])
    BY <1>3, <2>1, <2>2, Zenon
  <2>. QED
    BY <2>2, <2>3, <2>4
<1>. HIDE DEF F
<1>6. Nat \subseteq F
  BY <1>4, <1>5, EveryNumber, Zenon
<1>7. w[1 .. n] \in X
  BY <1>6 DEF F
<1>. QED
  BY <1>2, <1>7

\* The rows of the scores, and the tables a batch may leave: every row of
\* them is one of before, or new.
ScoreRows == [market : Markets, version : Nat, age : Nat]

\* The tables a batch may leave: every row of them is one of before, or new.
ScoredFrom(old) ==
    {table \in Seq(ScoreRows) :
         \A i \in DOMAIN table : table[i].age = 0 \/ \E j \in DOMAIN old : table[i] = old[j]}

\* One write leaves such a table.
LEMMA ScoredStays ==
    ASSUME version \in Nat, NEW old, NEW table \in ScoredFrom(old), NEW m \in Markets
    PROVE  Scored(table, m) \in ScoredFrom(old)
<1>. DEFINE mine == {i \in DOMAIN table : table[i].market = m /\ table[i].version = version}
            r == [market |-> m, version |-> version, age |-> 0]
<1>0. /\ table \in Seq(ScoreRows) /\ DOMAIN table = 1 .. Len(table) /\ Len(table) \in Nat
      /\ \A i \in DOMAIN table : table[i].age = 0 \/ \E j \in DOMAIN old : table[i] = old[j]
  BY DEF ScoredFrom
<1>1. CASE mine = {}
  <2>1. Scored(table, m) = Append(table, r)
    BY <1>1, Zenon DEF Scored
  <2>2. r \in ScoreRows /\ r.age = 0
    BY DEF ScoreRows
  <2>. HIDE DEF r
  <2>3. Append(table, r) \in Seq(ScoreRows)
    BY <1>0, <2>2
  <2>4. \A i \in DOMAIN Append(table, r) : Append(table, r)[i] = r \/ (i \in DOMAIN table /\ Append(table, r)[i] = table[i])
    BY <1>0
  <2>5. \A i \in DOMAIN Append(table, r) :
            Append(table, r)[i].age = 0 \/ \E j \in DOMAIN old : Append(table, r)[i] = old[j]
    BY <1>0, <2>2, <2>4
  <2>. QED
    BY <2>1, <2>3, <2>5, Zenon DEF ScoredFrom
<1>2. CASE mine # {}
  <2>. DEFINE k == Min(mine)
              rest == SubSeq(table, 1, k - 1) \o SubSeq(table, k + 1, Len(table))
  <2>1. Scored(table, m) = Append(rest, table[k])
    BY <1>2, Zenon DEF Scored, RemoveAt
  <2>2. k \in DOMAIN table /\ k \in 1 .. Len(table)
    <3>1. mine \in SUBSET (1 .. Len(table))
      BY <1>0
    <3>. HIDE DEF mine
    <3>2. IsFiniteSet(1 .. Len(table)) /\ \A i \in 1 .. Len(table) : i \in Int
      <4>1. Len(table) \in Nat
        BY <1>0
      <4>. DEFINE n == Len(table)
      <4>. HIDE DEF n
      <4>2. n \in Nat
        BY <4>1 DEF n
      <4>3. IsFiniteSet(1 .. n)
        BY <4>2, FS_Interval
      <4>4. \A i \in 1 .. n : i \in Int
        BY <4>2
      <4>. QED
        BY <4>3, <4>4 DEF n
    <3>3. IsFiniteSet(mine)
      BY <3>1, <3>2, FS_Subset, Zenon
    <3>4. mine \subseteq Int
      BY <3>1, <3>2, Zenon
    <3>5. k \in mine
      BY <1>2, <3>3, <3>4, MinIs, Zenon
    <3>. HIDE DEF k
    <3>. QED
      BY <1>0, <3>1, <3>5
  <2>. HIDE DEF k
  <2>3. /\ SubSeq(table, 1, k - 1) \in Seq(ScoreRows)
        /\ SubSeq(table, k + 1, Len(table)) \in Seq(ScoreRows)
    BY <1>0, <2>2
  <2>4. /\ \A i \in DOMAIN SubSeq(table, 1, k - 1) :
               \E j \in DOMAIN table : SubSeq(table, 1, k - 1)[i] = table[j]
        /\ \A i \in DOMAIN SubSeq(table, k + 1, Len(table)) :
               \E j \in DOMAIN table : SubSeq(table, k + 1, Len(table))[i] = table[j]
    <3>1. ASSUME NEW i \in DOMAIN SubSeq(table, 1, k - 1)
          PROVE  \E j \in DOMAIN table : SubSeq(table, 1, k - 1)[i] = table[j]
      <4>1. i \in 1 .. k - 1
        BY <1>0, <2>2
      <4>2. SubSeq(table, 1, k - 1)[i] = table[i] /\ i \in DOMAIN table
        BY <1>0, <2>2, <4>1
      <4>. QED
        BY <4>2, Zenon
    <3>2. ASSUME NEW i \in DOMAIN SubSeq(table, k + 1, Len(table))
          PROVE  \E j \in DOMAIN table : SubSeq(table, k + 1, Len(table))[i] = table[j]
      <4>1. i \in 1 .. Len(table) - k
        BY <1>0, <2>2
      <4>2. SubSeq(table, k + 1, Len(table))[i] = table[i + k] /\ i + k \in DOMAIN table
        BY <1>0, <2>2, <4>1
      <4>. QED
        BY <4>2, Zenon
    <3>. QED
      BY <3>1, <3>2, Zenon
  <2>. DEFINE a == SubSeq(table, 1, k - 1)
              b == SubSeq(table, k + 1, Len(table))
              x == table[k]
  <2>5. x \in ScoreRows
    BY <1>0, <2>2
  <2>. HIDE DEF a, b, x
  <2>6. /\ Append(a \o b, x) \in Seq(ScoreRows)
        /\ \A i \in DOMAIN Append(a \o b, x) :
               \/ Append(a \o b, x)[i] = x
               \/ \E j \in DOMAIN a : Append(a \o b, x)[i] = a[j]
               \/ \E j \in DOMAIN b : Append(a \o b, x)[i] = b[j]
    <3>1. a \in Seq(ScoreRows) /\ b \in Seq(ScoreRows)
      BY <2>3 DEF a, b
    <3>2. a \o b \in Seq(ScoreRows) /\ Len(a \o b) = Len(a) + Len(b) /\ Len(a) \in Nat /\ Len(b) \in Nat
          /\ DOMAIN a = 1 .. Len(a) /\ DOMAIN b = 1 .. Len(b)
      BY <3>1
    <3>3. \A i \in 1 .. Len(a) + Len(b) : (a \o b)[i] = IF i <= Len(a) THEN a[i] ELSE b[i - Len(a)]
      BY <3>1
    <3>. DEFINE c == a \o b
    <3>4. c \in Seq(ScoreRows) /\ Len(c) = Len(a) + Len(b)
      BY <3>2
    <3>. HIDE DEF c
    <3>5. /\ Append(c, x) \in Seq(ScoreRows)
          /\ \A i \in DOMAIN Append(c, x) : Append(c, x)[i] = x \/ (i \in 1 .. Len(c) /\ Append(c, x)[i] = c[i])
      BY <2>5, <3>4
    <3>6. ASSUME NEW i \in 1 .. Len(c)
          PROVE  (\E j \in DOMAIN a : c[i] = a[j]) \/ (\E j \in DOMAIN b : c[i] = b[j])
      <4>1. c[i] = IF i <= Len(a) THEN a[i] ELSE b[i - Len(a)]
        BY <3>3, <3>4 DEF c
      <4>2. CASE i <= Len(a)
        BY <3>2, <3>4, <4>1, <4>2
      <4>3. CASE ~(i <= Len(a))
        <5>1. i - Len(a) \in DOMAIN b /\ c[i] = b[i - Len(a)]
          BY <3>2, <3>4, <4>1, <4>3
        <5>. QED
          BY <5>1
      <4>. QED
        BY <4>2, <4>3
    <3>. QED
      BY <3>5, <3>6, Zenon DEF c
  <2>7. Scored(table, m) = Append(a \o b, x)
    BY <2>1 DEF a, b, x
  <2>8. \A i \in DOMAIN Append(a \o b, x) : \E j \in DOMAIN table : Append(a \o b, x)[i] = table[j]
    <3>1. /\ \A j \in DOMAIN a : \E l \in DOMAIN table : a[j] = table[l]
          /\ \A j \in DOMAIN b : \E l \in DOMAIN table : b[j] = table[l]
          /\ \E l \in DOMAIN table : x = table[l]
      BY <2>2, <2>4, Zenon DEF a, b, x
    <3>2. ASSUME NEW i \in DOMAIN Append(a \o b, x)
          PROVE  \E j \in DOMAIN table : Append(a \o b, x)[i] = table[j]
      <4>1. \/ Append(a \o b, x)[i] = x
            \/ \E j \in DOMAIN a : Append(a \o b, x)[i] = a[j]
            \/ \E j \in DOMAIN b : Append(a \o b, x)[i] = b[j]
        BY <2>6, <3>2
      <4>. DEFINE y == Append(a \o b, x)[i]
      <4>. HIDE DEF y
      <4>2. \E j \in DOMAIN table : y = table[j]
        BY <3>1, <4>1 DEF y
      <4>. QED
        BY <4>2 DEF y
    <3>. QED
      BY <3>2
  <2>. DEFINE result == Append(a \o b, x)
  <2>9. \A i \in DOMAIN result : result[i].age = 0 \/ \E j \in DOMAIN old : result[i] = old[j]
    <3>. HIDE DEF result
    <3>1. \A i \in DOMAIN result : \E j \in DOMAIN table : result[i] = table[j]
      BY <2>8 DEF result
    <3>. QED
      BY <1>0, <3>1, ZenonT(60)
  <2>. QED
    BY <2>6, <2>7, <2>9, ZenonT(60) DEF ScoredFrom
<1>. QED
  BY <1>1, <1>2

\* A kept score is the one the text has; a kept `none` was true when it was kept:
\* every score of the market is younger than the answer.
TailKept(table, kept) ==
    \A m : <<"rs", m>> \in DOMAIN kept =>
        \/ kept[<<"rs", m>>].value = {StoredAmbiguity(m)}
        \/ /\ kept[<<"rs", m>>].value = {}
           /\ \A i \in DOMAIN table : table[i].market = m => table[i].age <= kept[<<"rs", m>>].age

\* cheaptail: the scores, the kept answers, and that what fired is clear.
TailInv ==
    lane = "tail" =>
        /\ scores \in Seq(ScoreRows) /\ version \in Nat /\ live \subseteq Markets
        /\ CacheTyped(cache) /\ TailKept(scores, cache)
        /\ row # NoRow => row.by = "cheaptail" /\ TailIsClear

\* The score of a text is a number.
LEMMA AmbiguityInt ==
    ASSUME NEW found, IsFiniteSet(found), \A k \in found : k.weight \in Nat, NEW named
    PROVE  AmbiguityOf(found, named) \in Int
<1>. DEFINE v == [k \in found |-> k.weight]
            Hits(category) == Cardinality({k \in found : k.category = category})
            bonus == (CASE Hits("procedural") >= 3 -> 10
                        [] Hits("procedural") = 2 -> 5
                        [] OTHER -> 0)
                     + (IF Hits("wording") >= 3 THEN 5 ELSE 0)
            score == Total(v, found) + bonus - (IF named THEN 5 ELSE 0)
<1>1. Total(v, found) \in Int
  <2>1. \A k \in found : v[k] \in Int
    OBVIOUS
  <2>. HIDE DEF v
  <2>. QED
    BY <2>1, TotalInt
<1>2. bonus \in Int
  <2>. DEFINE a == CASE Hits("procedural") >= 3 -> 10
                     [] Hits("procedural") = 2 -> 5
                     [] OTHER -> 0
              b == IF Hits("wording") >= 3 THEN 5 ELSE 0
  <2>. HIDE DEF Hits
  <2>1. a \in Int /\ b \in Int
    OBVIOUS
  <2>. HIDE DEF a, b
  <2>2. a + b \in Int
    BY <2>1
  <2>. QED
    BY <2>2 DEF a, b
<1>. HIDE DEF bonus, v
<1>3. score \in Int
  BY <1>1, <1>2
<1>4. AmbiguityOf(found, named) = Max({0, Min({100, score})})
  BY Zenon DEF AmbiguityOf, bonus, v
<1>. HIDE DEF score
<1>5. Min({100, score}) \in Int
  BY <1>3, MinOfTwo
<1>6. Max({0, Min({100, score})}) \in Int
  <2>. DEFINE y == Min({100, score})
  <2>. HIDE DEF y
  <2>1. y \in Int /\ 0 \in Int
    BY <1>5 DEF y
  <2>2. Max({0, y}) = (IF 0 >= y THEN 0 ELSE y)
    BY <2>1, MinOfTwo
  <2>3. Max({0, y}) \in Int
    BY <2>1, <2>2
  <2>. QED
    BY <2>3 DEF y
<1>. QED
  BY <1>4, <1>6

\* The stored score and the score of a title are numbers.
LEMMA ScoresInt ==
    ASSUME NEW m \in Markets, NEW ruled
    PROVE  StoredAmbiguity(m) \in Int /\ TitleAmbiguity(m, ruled) \in Int
<1>1. /\ IsFiniteSet(TitleOf[m]) /\ \A k \in TitleOf[m] : k.weight \in Nat
      /\ IsFiniteSet(TitleOf[m] \cup RulesOf[m]) /\ \A k \in TitleOf[m] \cup RulesOf[m] : k.weight \in Nat
  BY ScoresAssumption, FS_Union, Zenon
<1>. QED
  BY <1>1, AmbiguityInt DEF StoredAmbiguity, TitleAmbiguity

\* A batch is of markets.
LEMMA CandidatesAre ==
    ASSUME live \subseteq Markets, scores \in Seq(ScoreRows)
    PROVE  Candidates \in Seq(Markets)
<1>. DEFINE scored == {scores[i].market : i \in DOMAIN scores}
            before == {p \in live \X live : p[1] > p[2]}
            S == live \ scored
            fresh == InOrder(S, before)
            list == [i \in DOMAIN scores |-> scores[i].market]
            again == Kept(list, {i \in DOMAIN scores : scores[i].market \in live})
            all == fresh \o again
<1>1. fresh \in Seq(Markets)
  <2>1. IsFiniteSet(S) /\ S \subseteq Markets
    BY MarketsAssumption, FS_Subset, Zenon
  <2>2. ASSUME NEW T \in SUBSET S, T # {} PROVE \E x \in T : \A y \in T : <<y, x>> \notin before
    <3>1. IsFiniteSet(T)
      BY <2>1, FS_Subset
    <3>2. T \subseteq Int
      <4>1. Markets \subseteq Int
        BY MarketsAssumption
      <4>. HIDE DEF S
      <4>. QED
        BY <2>1, <4>1, Zenon
    <3>3. Max(T) \in T /\ \A y \in T : Max(T) >= y
      BY <2>2, <3>1, <3>2, MaxIs, Zenon
    <3>4. ASSUME NEW y \in T PROVE <<y, Max(T)>> \notin before
      <4>. DEFINE z == Max(T)
      <4>1. z >= y /\ z \in Int /\ y \in Int
        BY <3>2, <3>3, Zenon
      <4>. HIDE DEF z
      <4>. SUFFICES ASSUME <<y, z>> \in before PROVE FALSE
        BY DEF z
      <4>2. y > z
        OBVIOUS
      <4>. QED
        BY <4>1, <4>2
    <3>. QED
      BY <3>3, <3>4
  <2>. HIDE DEF S, before
  <2>3. Cardinality(S) \in Nat /\ fresh \in [1 .. Cardinality(S) -> S]
    BY <2>1, <2>2, InOrderIs, Zenon
  <2>. QED
    BY <2>1, <2>3
<1>2. again \in Seq(Markets)
  <2>. DEFINE pos == {i \in DOMAIN scores : scores[i].market \in live}
  <2>1. list \in Seq(Markets) /\ DOMAIN list = DOMAIN scores
    <3>1. \A i \in DOMAIN scores : scores[i] \in ScoreRows
      OBVIOUS
    <3>2. \A i \in DOMAIN scores : scores[i].market \in Markets
      BY <3>1 DEF ScoreRows
    <3>3. DOMAIN scores = 1 .. Len(scores) /\ Len(scores) \in Nat
      OBVIOUS
    <3>. QED
      BY <3>2, <3>3
  <2>2. pos \in SUBSET (DOMAIN list)
    BY <2>1
  <2>. HIDE DEF list, pos
  <2>3. Kept(list, pos) \in Seq(Markets)
    BY <2>1, <2>2, KeptType
  <2>. QED
    BY <2>3 DEF pos, list
<1>3. Candidates = SubSeq(all, 1, Min({ScoreBatch, Len(all)}))
  BY Zenon DEF Candidates
<1>. HIDE DEF fresh, again
<1>4. all \in Seq(Markets) /\ Len(all) \in Nat
  BY <1>1, <1>2
<1>5. ScoreBatch \in Int /\ ScoreBatch \in Nat
  BY ScoresAssumption
<1>. HIDE DEF all
<1>6. Min({ScoreBatch, Len(all)}) \in 0 .. Len(all)
  BY <1>4, <1>5, MinOfTwo
<1>. DEFINE k == Min({ScoreBatch, Len(all)})
<1>. HIDE DEF k
<1>7. k \in 0 .. Len(all)
  BY <1>6 DEF k
<1>8. SubSeq(all, 1, k) \in Seq(Markets)
  BY <1>4, <1>7
<1>. QED
  BY <1>3, <1>8, Zenon DEF k

\* A tick of the risk worker leaves such a table.
LEMMA TicksScored ==
    ASSUME live \subseteq Markets, scores \in Seq(ScoreRows), version \in Nat, NEW missed, ScoreTick(missed)
    PROVE  scores' \in ScoredFrom(scores)
<1>1. scores' = BatchOn(missed, scores, Candidates)
  BY Zenon DEF ScoreTick, BatchOn
<1>2. Candidates \in Seq(Markets)
  BY CandidatesAre
<1>. DEFINE list == Candidates
            n == Len(list)
<1>. HIDE DEF list
<1>3. n \in Nat /\ DOMAIN list = 1 .. n /\ \A i \in 1 .. n : list[i] \in Markets
  BY <1>2 DEF list
<1>4. scores \in ScoredFrom(scores)
  BY DEF ScoredFrom
<1>. DEFINE X == ScoredFrom(scores)
<1>5. \A table \in X : \A i \in 1 .. n : ScoredUnless(missed, table, list[i]) \in X
  BY <1>3, ScoredStays DEF ScoredUnless
<1>. HIDE DEF n, X
<1>6. BatchOn(missed, scores, list) \in X
  BY <1>3, <1>4, <1>5, BatchKeeps DEF X
<1>. QED
  BY <1>1, <1>6 DEF X, list

\* Every step of cheaptail's lane keeps its invariant.
LEMMA TailStep ==
    ASSUME lane \in Lanes, lane = "tail", TailInv, ScoresNext
    PROVE  lane' = lane /\ TailInv'
<1>0. /\ scores \in Seq(ScoreRows) /\ version \in Nat /\ live \subseteq Markets
      /\ CacheTyped(cache) /\ TailKept(scores, cache)
      /\ DOMAIN scores = 1 .. Len(scores) /\ Len(scores) \in Nat
      /\ \A i \in DOMAIN scores : scores[i] \in ScoreRows
      /\ Listed["tail"] \subseteq Markets
  BY MarketsAssumption DEF TailInv
<1>1. ASSUME NEW m \in Listed["tail"], Relisted(m), UNCHANGED scoreVars PROVE lane' = lane /\ TailInv'
  <2>1. live' \subseteq Markets /\ row' = NoRow /\ lane' = lane /\ cache' = cache
    BY <1>0, <1>1 DEF Relisted
  <2>. QED
    BY <1>0, <1>1, <2>1 DEF TailInv, scoreVars
<1>2. ASSUME NEW missed \in SUBSET live, ScoreTick(missed) PROVE lane' = lane /\ TailInv'
  <2>1. row' = NoRow /\ lane' = lane /\ cache' = cache /\ live' = live /\ version' = version
    BY <1>2, Zenon DEF ScoreTick, Background
  <2>2. scores' \in ScoredFrom(scores)
    BY <1>0, <1>2, TicksScored
  <2>3. /\ scores' \in Seq(ScoreRows)
        /\ \A i \in DOMAIN scores' : scores'[i].age = 0 \/ \E j \in DOMAIN scores : scores'[i] = scores[j]
    BY <2>2 DEF ScoredFrom
  <2>4. TailKept(scores', cache)
    <3>. SUFFICES ASSUME NEW m, <<"rs", m>> \in DOMAIN cache, cache[<<"rs", m>>].value = {},
                         \A i \in DOMAIN scores : scores[i].market = m => scores[i].age <= cache[<<"rs", m>>].age,
                         NEW i \in DOMAIN scores', scores'[i].market = m
                  PROVE  scores'[i].age <= cache[<<"rs", m>>].age
      BY <1>0, Zenon DEF TailKept
    <3>1. cache[<<"rs", m>>].age \in Nat
      BY <1>0, CacheAssumption DEF CacheTyped
    <3>. QED
      BY <2>3, <3>1
  <2>. QED
    BY <1>0, <2>1, <2>3, <2>4 DEF TailInv
<1>3. ASSUME NewVersion PROVE lane' = lane /\ TailInv'
  <2>1. /\ row' = NoRow /\ lane' = lane /\ cache' = cache /\ live' = live /\ scores' = scores
        /\ version' \in Nat
    BY <1>0, <1>3 DEF NewVersion, Background
  <2>. QED
    BY <1>0, <2>1 DEF TailInv
<1>4. ASSUME NEW t \in Prints["tail"], CatalystComesOrGoes(EventOf[t.market]) PROVE lane' = lane /\ TailInv'
  <2>1. /\ row' = NoRow /\ lane' = lane /\ cache' = cache /\ live' = live /\ scores' = scores
        /\ version' = version
    BY <1>4 DEF CatalystComesOrGoes, Background
  <2>. QED
    BY <1>0, <2>1 DEF TailInv
<1>5. ASSUME NEW t \in Prints["tail"], NEW ruled \in BOOLEAN, NEW large \in BOOLEAN, AskTail(t.market, ruled, large)
      PROVE  lane' = lane /\ TailInv'
  <2>. DEFINE m == t.market
              key == <<"rs", m>>
              named == TitleAmbiguity(m, ruled)
  <2>0. m \in Markets
    BY PrintsAssumption
  <2>. HIDE DEF m
  <2>1. PICK c \in CatalystsByEvent(EventOf[m]) : \E r \in RiskScoreForCondition(m) :
           Concludes([r EXCEPT !.cache = CacheOfBoth(r, c)],
                     Verdict("cheaptail",
                             TailFires(Max({named} \cup r.rows), c.rows # {}, large),
                             r.failed, m))
    BY <1>5, Zenon DEF AskTail, m
  <2>2. PICK r \in RiskScoreForCondition(m) :
           Concludes([r EXCEPT !.cache = CacheOfBoth(r, c)],
                     Verdict("cheaptail",
                             TailFires(Max({named} \cup r.rows), c.rows # {}, large),
                             r.failed, m))
    BY <2>1, Zenon
  <2>3. [r EXCEPT !.cache = CacheOfBoth(r, c)].cache = CacheOfBoth(r, c)
    BY DEF RiskScoreForCondition, Reads
  <2>4. /\ lane' = lane /\ live' = live /\ cache' = CacheOfBoth(r, c) /\ scores' = scores /\ version' = version
        /\ row'.by = "cheaptail" /\ row'.failed = r.failed /\ row'.on = m
        /\ row'.fired <=> TailFires(Max({named} \cup r.rows), c.rows # {}, large)
    BY <1>5, <2>2, <2>3 DEF Concludes, Verdict, AskTail, scoreVars
  <2>5. CacheTyped(r.cache) /\ CacheTyped(c.cache)
    BY <1>0, ReadTyped DEF RiskScoreForCondition, CatalystsByEvent
  <2>6. \/ key \in DOMAIN cache /\ ~r.failed /\ r.cache = cache /\ r.rows = cache[key].value
        \/ key \notin DOMAIN cache /\ ~r.failed /\ r.cache = CachePut(key, ActiveScore(m)) /\ r.rows = ActiveScore(m)
        \/ key \notin DOMAIN cache /\ r.failed /\ r.cache = cache
    BY ReadIs DEF RiskScoreForCondition
  <2>7. \/ ActiveScore(m) = {StoredAmbiguity(m)}
        \/ ActiveScore(m) = {} /\ \A i \in DOMAIN scores : scores[i].market # m
    BY DEF ActiveScore
  <2>8. TailKept(scores, r.cache)
    <3>1. ASSUME NEW k, <<"rs", k>> \in DOMAIN CachePut(key, ActiveScore(m))
          PROVE  LET kept == CachePut(key, ActiveScore(m)) IN
                 \/ kept[<<"rs", k>>].value = {StoredAmbiguity(k)}
                 \/ /\ kept[<<"rs", k>>].value = {}
                    /\ \A i \in DOMAIN scores : scores[i].market = k => scores[i].age <= kept[<<"rs", k>>].age
      <4>. DEFINE kept == CachePut(key, ActiveScore(m))
      <4>1. CASE <<"rs", k>> \in DOMAIN cache /\ kept[<<"rs", k>>] = cache[<<"rs", k>>]
        BY <1>0, <4>1, Zenon DEF TailKept
      <4>2. CASE <<"rs", k>> = key /\ kept[<<"rs", k>>].value = ActiveScore(m) /\ kept[<<"rs", k>>].age = 0
        <5>1. k = m
          BY <4>2
        <5>. QED
          BY <2>7, <4>2, <5>1
      <4>3. \/ <<"rs", k>> \in DOMAIN cache /\ kept[<<"rs", k>>] = cache[<<"rs", k>>]
            \/ <<"rs", k>> = key /\ kept[<<"rs", k>>].value = ActiveScore(m) /\ kept[<<"rs", k>>].age = 0
        <5>. HIDE DEF key
        <5>. QED
          BY <3>1, PutIs
      <4>. QED
        BY <4>1, <4>2, <4>3
    <3>2. TailKept(scores, CachePut(key, ActiveScore(m)))
      BY <3>1, Zenon DEF TailKept
    <3>. QED
      BY <1>0, <2>6, <3>2
  <2>9. TailKept(scores, c.cache)
    <3>. DEFINE ckey == <<"c", EventOf[m]>>
    <3>1. \/ c.cache = cache
          \/ c.cache = CachePut(ckey, CatalystsOf(EventOf[m]))
      BY ReadIs DEF CatalystsByEvent
    <3>2. \A k \in DOMAIN CachePut(ckey, CatalystsOf(EventOf[m])) :
              k # ckey => k \in DOMAIN cache /\ CachePut(ckey, CatalystsOf(EventOf[m]))[k] = cache[k]
      BY PutIs, ZenonT(60)
    <3>3. \A k : <<"rs", k>> # ckey
      OBVIOUS
    <3>4. TailKept(scores, CachePut(ckey, CatalystsOf(EventOf[m])))
      BY <1>0, <3>2, <3>3, Zenon DEF TailKept
    <3>. QED
      BY <1>0, <3>1, <3>4
  <2>10. TailKept(scores, CacheOfBoth(r, c)) /\ CacheTyped(CacheOfBoth(r, c))
    <3>1. \A k \in DOMAIN CacheOfBoth(r, c) : \/ k \in DOMAIN r.cache /\ CacheOfBoth(r, c)[k] = r.cache[k]
                                              \/ k \in DOMAIN c.cache /\ CacheOfBoth(r, c)[k] = c.cache[k]
      BY Zenon DEF CacheOfBoth
    <3>2. TailKept(scores, CacheOfBoth(r, c))
      <4>. SUFFICES ASSUME NEW k, <<"rs", k>> \in DOMAIN CacheOfBoth(r, c)
                    PROVE  LET kept == CacheOfBoth(r, c) IN
                           \/ kept[<<"rs", k>>].value = {StoredAmbiguity(k)}
                           \/ /\ kept[<<"rs", k>>].value = {}
                              /\ \A i \in DOMAIN scores : scores[i].market = k => scores[i].age <= kept[<<"rs", k>>].age
        BY Zenon DEF TailKept
      <4>1. CASE <<"rs", k>> \in DOMAIN r.cache /\ CacheOfBoth(r, c)[<<"rs", k>>] = r.cache[<<"rs", k>>]
        BY <2>8, <4>1 DEF TailKept
      <4>2. CASE <<"rs", k>> \in DOMAIN c.cache /\ CacheOfBoth(r, c)[<<"rs", k>>] = c.cache[<<"rs", k>>]
        BY <2>9, <4>2 DEF TailKept
      <4>. QED
        BY <3>1, <4>1, <4>2, Zenon
    <3>. QED
      BY <2>5, <3>2, BothTyped
  <2>11. ASSUME row'.fired, ~row'.failed
         PROVE  \/ StoredAmbiguity(m) < AmbiguityCutoff
                \/ \A i \in DOMAIN scores : scores[i].market = m => scores[i].age <= CacheTTL
    <3>1. Max({named} \cup r.rows) < AmbiguityCutoff /\ ~r.failed
      BY <2>4, <2>11 DEF TailFires
    <3>2. \/ r.rows = {StoredAmbiguity(m)}
          \/ \A i \in DOMAIN scores : scores[i].market = m => scores[i].age <= CacheTTL
      <4>1. CASE key \in DOMAIN cache /\ r.rows = cache[key].value
        <5>1. cache[key].age \in 0 .. CacheTTL
          BY <1>0, <4>1 DEF CacheTyped
        <5>2. \/ cache[key].value = {StoredAmbiguity(m)}
              \/ \A i \in DOMAIN scores : scores[i].market = m => scores[i].age <= cache[key].age
          BY <1>0, <4>1, Zenon DEF TailKept
        <5>3. \A i \in DOMAIN scores : scores[i].age \in Nat
          BY <1>0 DEF ScoreRows
        <5>. QED
          BY <4>1, <5>1, <5>2, <5>3, CacheAssumption
      <4>2. CASE r.rows = ActiveScore(m)
        BY <2>7, <4>2
      <4>. QED
        BY <2>6, <3>1, <4>1, <4>2
    <3>3. ASSUME r.rows = {StoredAmbiguity(m)} PROVE StoredAmbiguity(m) < AmbiguityCutoff
      <4>1. named \in Int /\ StoredAmbiguity(m) \in Int
        BY <2>0, ScoresInt
      <4>. DEFINE x == StoredAmbiguity(m)
      <4>. HIDE DEF x, named
      <4>2. {named} \cup r.rows = {named, x}
        BY <3>3 DEF x
      <4>3. Max({named, x}) = (IF named >= x THEN named ELSE x)
        BY <4>1, MinOfTwo DEF x
      <4>4. Max({named, x}) < AmbiguityCutoff
        BY <3>1, <4>2, Zenon
      <4>5. x < AmbiguityCutoff
        BY <4>1, <4>3, <4>4, ScoresAssumption DEF x
      <4>. QED
        BY <4>5 DEF x
    <3>. QED
      BY <3>2, <3>3
  <2>12. TailIsClear'
    <3>1. \A k : StoredAmbiguity(k)' = StoredAmbiguity(k)
      BY DEF StoredAmbiguity, AmbiguityOf
    <3>. QED
      BY <2>4, <2>11 DEF TailIsClear
  <2>. QED
    BY <1>0, <2>4, <2>10, <2>12 DEF TailInv
<1>6. ASSUME ScoresElapse PROVE lane' = lane /\ TailInv'
  <2>1. /\ FrameElapses /\ version' = version
        /\ scores' = [i \in DOMAIN scores |-> [scores[i] EXCEPT !.age = Older(@, CacheTTL + 1)]]
    BY <1>6 DEF ScoresElapse
  <2>2. row' = NoRow /\ lane' = lane /\ live' = live
    BY <2>1 DEF FrameElapses
  <2>3. /\ CacheTyped(cache')
        /\ \A k \in DOMAIN cache' : /\ k \in DOMAIN cache /\ cache'[k].value = cache[k].value
                                    /\ cache'[k].age = cache[k].age + 1
    BY <1>0, <2>1, CacheAges
  <2>4. ASSUME NEW i \in DOMAIN scores
        PROVE  scores'[i] \in ScoreRows /\ scores'[i].market = scores[i].market /\ scores'[i].age <= scores[i].age + 1
    <3>1. scores[i] \in ScoreRows /\ scores'[i] = [scores[i] EXCEPT !.age = Older(@, CacheTTL + 1)]
      BY <1>0, <2>1
    <3>2. Older(scores[i].age, CacheTTL + 1) \in Nat
      BY <3>1, CacheAssumption DEF ScoreRows, Older
    <3>3. Older(scores[i].age, CacheTTL + 1) <= scores[i].age + 1
      BY <3>1, CacheAssumption DEF ScoreRows, Older
    <3>. QED
      BY <3>1, <3>2, <3>3 DEF ScoreRows
  <2>5. scores' \in Seq(ScoreRows) /\ DOMAIN scores' = DOMAIN scores
    <3>1. DOMAIN scores' = 1 .. Len(scores) /\ Len(scores) \in Nat /\ scores' = [i \in 1 .. Len(scores) |-> scores'[i]]
      BY <1>0, <2>1
    <3>2. \A i \in 1 .. Len(scores) : scores'[i] \in ScoreRows
      BY <1>0, <2>4
    <3>. QED
      BY <1>0, <3>1, <3>2
  <2>6. TailKept(scores', cache')
    <3>. SUFFICES ASSUME NEW m, <<"rs", m>> \in DOMAIN cache', cache'[<<"rs", m>>].value # {StoredAmbiguity(m)}
                  PROVE  /\ cache'[<<"rs", m>>].value = {}
                         /\ \A i \in DOMAIN scores' : scores'[i].market = m => scores'[i].age <= cache'[<<"rs", m>>].age
      BY Zenon DEF TailKept
    <3>1. /\ <<"rs", m>> \in DOMAIN cache /\ cache'[<<"rs", m>>].value = cache[<<"rs", m>>].value
          /\ cache'[<<"rs", m>>].age = cache[<<"rs", m>>].age + 1
      BY <2>3
    <3>2. /\ cache[<<"rs", m>>].value = {}
          /\ \A i \in DOMAIN scores : scores[i].market = m => scores[i].age <= cache[<<"rs", m>>].age
      BY <1>0, <3>1, Zenon DEF TailKept
    <3>3. cache[<<"rs", m>>].age \in Nat
      BY <1>0, <3>1, CacheAssumption DEF CacheTyped
    <3>4. \A i \in DOMAIN scores : scores[i].age \in Nat /\ scores'[i].age \in Nat
      BY <1>0, <2>4 DEF ScoreRows
    <3>5. ASSUME NEW i \in DOMAIN scores', scores'[i].market = m
          PROVE  scores'[i].age <= cache'[<<"rs", m>>].age
      <4>1. i \in DOMAIN scores /\ scores[i].market = m /\ scores'[i].age <= scores[i].age + 1
        BY <2>4, <2>5, <3>5
      <4>2. scores[i].age <= cache[<<"rs", m>>].age
        BY <3>2, <4>1
      <4>. QED
        BY <3>1, <3>3, <3>4, <4>1, <4>2
    <3>. QED
      BY <3>1, <3>2, <3>5
  <2>. QED
    BY <1>0, <2>1, <2>2, <2>3, <2>5, <2>6 DEF TailInv
<1>. QED
  BY <1>1, <1>2, <1>3, <1>4, <1>5, <1>6 DEF ScoresNext

-----------------------------------------------------------------------------
(* The repricing windows *)

\* repricinglag: every window is about no condition, and so no reader is told of one.
LagInv ==
    lane = "lag" =>
        /\ CacheTyped(cache)
        /\ \A w \in closed : w.condition = NoCondition
        /\ \A m : m # NoCondition /\ <<"rw", m>> \in DOMAIN cache => cache[<<"rw", m>>].value = {}
        /\ row # NoRow => row.by = "repricinglag" /\ ~row.fired

\* A window is closed for no condition, whatever the peers did.
LEMMA ClosingIsOfNone == Closing(NoCondition).condition = NoCondition
<1>. DEFINE ClosedAs(status, observed, moved) ==
               [condition |-> NoCondition, status |-> status, observed |-> observed, peer |-> moved]
            a == FirstPrice(NoCondition)
            p == PeerMedian(NoCondition)
            x == CHOOSE y \in a : TRUE
<1>1. Closing(NoCondition) =
          CASE a = {} -> ClosedAs("stale_missing_price", 0, 0)
            [] a # {} /\ p.n = 0 -> ClosedAs("stale_missing_peers", 2 * x, 0)
            [] OTHER -> ClosedAs(IF p.twice - 2 * x >= 2 * LagFloor
                               THEN "closed_lag_detected" ELSE "closed_no_lag", 2 * x, p.twice)
  BY Zenon DEF Closing
<1>. HIDE DEF a, p, x
<1>2. \E status, observed, moved : Closing(NoCondition) = ClosedAs(status, observed, moved)
  <2>1. CASE a = {}
    BY <1>1, <2>1, Zenon
  <2>2. CASE a # {} /\ p.n = 0
    BY <1>1, <2>2, Zenon
  <2>3. CASE a # {} /\ p.n # 0
    BY <1>1, <2>3, Zenon
  <2>. QED
    BY <2>1, <2>2, <2>3
<1>. QED
  BY <1>2

\* Every step of repricinglag's lane keeps its invariant.
LEMMA LagStep ==
    ASSUME lane \in Lanes, lane = "lag", LagInv, WindowsNext
    PROVE  lane' = lane /\ LagInv'
<1>0. /\ CacheTyped(cache) /\ \A w \in closed : w.condition = NoCondition
      /\ \A m : m # NoCondition /\ <<"rw", m>> \in DOMAIN cache => cache[<<"rw", m>>].value = {}
  BY DEF LagInv
<1>1. ASSUME NEW t \in Prints["lag"], Traded(t), UNCHANGED <<links, triggers, open, closed>>
      PROVE  lane' = lane /\ LagInv'
  <2>1. row' = NoRow /\ lane' = lane /\ cache' = cache
    BY <1>1 DEF Traded
  <2>. QED
    BY <1>0, <1>1, <2>1 DEF LagInv
<1>2. ASSUME NEW missed, NEW stuck, WindowsTick(missed, stuck) PROVE lane' = lane /\ LagInv'
  <2>1. row' = NoRow /\ lane' = lane /\ cache' = cache
    BY <1>2 DEF WindowsTick, Background
  <2>2. closed' \subseteq closed \cup {Closing(NoCondition)}
    BY <1>2, Zenon DEF WindowsTick, SinkCondition
  <2>. QED
    BY <1>0, <2>1, <2>2, ClosingIsOfNone DEF LagInv
<1>3. ASSUME NEW c, NEW lead, Announced(c, lead) PROVE lane' = lane /\ LagInv'
  <2>1. row' = NoRow /\ lane' = lane /\ cache' = cache /\ closed' = closed
    BY <1>3 DEF Announced, Background
  <2>. QED
    BY <1>0, <2>1 DEF LagInv
<1>4. ASSUME NEW c, Over(c) PROVE lane' = lane /\ LagInv'
  <2>1. row' = NoRow /\ lane' = lane /\ cache' = cache /\ closed' = closed
    BY <1>4 DEF Over, Background
  <2>. QED
    BY <1>0, <2>1 DEF LagInv
<1>5. ASSUME NEW t \in Prints["lag"], AskLag(t.market) PROVE lane' = lane /\ LagInv'
  <2>. DEFINE m == t.market
              key == <<"rw", m>>
  <2>1. PICK r \in ClosedRepricingWindowsForCondition(m) :
           Concludes(r, Verdict("repricinglag",
                                r.rows # {} /\ LET w == CHOOSE w \in r.rows : TRUE
                                               IN  LagFires(w.observed, {w.peer}),
                                r.failed, m))
    BY <1>5, Zenon DEF AskLag
  <2>2. m # NoCondition /\ ClosedWindows(m) = {}
    BY <1>0, LagAssumption DEF NoCondition, ClosedWindows
  <2>3. r.rows = {} /\ (r.cache = cache \/ r.cache = CachePut(key, {}))
    BY <1>0, <2>2, ReadIs DEF ClosedRepricingWindowsForCondition
  <2>4. row'.by = "repricinglag" /\ ~row'.fired /\ lane' = lane /\ cache' = r.cache
    BY <2>1, <2>3, Zenon DEF Concludes, Verdict
  <2>5. CacheTyped(r.cache)
    BY <1>0, ReadTyped DEF ClosedRepricingWindowsForCondition
  <2>6. ASSUME NEW k, k # NoCondition, <<"rw", k>> \in DOMAIN r.cache
        PROVE  r.cache[<<"rw", k>>].value = {}
    <3>1. CASE r.cache = cache
      BY <1>0, <2>6, <3>1
    <3>2. CASE r.cache = CachePut(key, {})
      <4>1. \/ <<"rw", k>> \in DOMAIN cache /\ r.cache[<<"rw", k>>] = cache[<<"rw", k>>]
            \/ r.cache[<<"rw", k>>].value = {}
        <5>. HIDE DEF key
        <5>. QED
          BY <2>6, <3>2, PutIs
      <4>. QED
        BY <1>0, <2>6, <4>1
    <3>. QED
      BY <2>3, <3>1, <3>2
  <2>7. closed' = closed
    BY <1>5 DEF AskLag
  <2>. QED
    BY <1>0, <2>4, <2>5, <2>6, <2>7 DEF LagInv
<1>6. ASSUME WindowsElapse PROVE lane' = lane /\ LagInv'
  <2>1. FrameElapses /\ closed' = closed
    BY <1>6 DEF WindowsElapse
  <2>2. row' = NoRow /\ lane' = lane
    BY <2>1 DEF FrameElapses
  <2>3. /\ CacheTyped(cache')
        /\ \A k \in DOMAIN cache' : k \in DOMAIN cache /\ cache'[k].value = cache[k].value
    BY <1>0, <2>1, CacheAges
  <2>. QED
    BY <1>0, <2>1, <2>2, <2>3 DEF LagInv
<1>. QED
  BY <1>1, <1>2, <1>3, <1>4, <1>5, <1>6, Zenon DEF WindowsNext

-----------------------------------------------------------------------------
(* The book bars *)

\* The rows of the bars: how the depth has changed is not set.
BarRows ==
    [bid : Depths, ask : Depths, mid : BOOLEAN, bidDelta : {Unset}, askDelta : {Unset},
     spreadZ : {Unset}, midDelta : Int, age : Nat]

\* bookvacuum: no bar says how its depth has changed, and no kept answer does.
BarsInv ==
    lane = "bars" =>
        /\ book \in [bid : Depths, ask : Depths] /\ bars \in Seq(BarRows)
        /\ CacheTyped(cache)
        /\ <<"bfb">> \in DOMAIN cache => cache[<<"bfb">>].value \in Seq(BarRows)
        /\ row # NoRow => row.by = "bookvacuum" /\ ~row.fired

\* On a bar that does not say so no vacuum is detected.
LEMMA NoVacuum ==
    ASSUME NEW bar \in BarRows
    PROVE  ~VacuumDetected(bar)
<1>1. bar.askDelta = 0 /\ bar.bidDelta = 0
  BY DEF BarRows, Unset
<1>2. ~(-bar.askDelta >= MinCollapse) /\ ~(-bar.bidDelta >= MinCollapse)
  BY <1>1, BarsAssumption
<1>. QED
  BY <1>2, Zenon DEF VacuumDetected

\* A bar that is built is such a row.
LEMMA BarTyped ==
    ASSUME book \in [bid : Depths, ask : Depths]
    PROVE  BarRow(BuildBar) \in BarRows
<1>1. book.bid \in Nat /\ book.ask \in Nat /\ book.bid \in Depths /\ book.ask \in Depths
  BY BarsAssumption, Zenon
<1>. DEFINE sum == book.bid + book.ask
            high == (book.bid - book.ask) * 100
<1>2. sum \in Nat /\ high \in Int
  BY <1>1
<1>. HIDE DEF sum, high
<1>3. (IF sum = 0 THEN 0 ELSE high \div sum) \in Int
  BY <1>2
<1>4. BuildBar.bid = book.bid /\ BuildBar.ask = book.ask /\ BuildBar.mid \in BOOLEAN /\ BuildBar.imbalance \in Int
  BY <1>3 DEF BuildBar, sum, high
<1>. QED
  BY <1>1, <1>4 DEF BarRow, BarRows

\* Every step of bookvacuum's lane keeps its invariant.
LEMMA BarsStep ==
    ASSUME lane \in Lanes, lane = "bars", BarsInv, BarsNext
    PROVE  lane' = lane /\ BarsInv'
<1>0. /\ book \in [bid : Depths, ask : Depths] /\ bars \in Seq(BarRows)
      /\ CacheTyped(cache)
      /\ <<"bfb">> \in DOMAIN cache => cache[<<"bfb">>].value \in Seq(BarRows)
      /\ DOMAIN bars = 1 .. Len(bars) /\ Len(bars) \in Nat
  BY DEF BarsInv
<1>1. ASSUME NEW bid \in Depths, NEW ask \in Depths, BookMoves([bid |-> bid, ask |-> ask])
      PROVE  lane' = lane /\ BarsInv'
  <2>1. /\ row' = NoRow /\ lane' = lane /\ cache' = cache /\ bars' = bars
        /\ book' \in [bid : Depths, ask : Depths]
    BY <1>1 DEF BookMoves, Background
  <2>. QED
    BY <1>0, <2>1 DEF BarsInv
<1>2. ASSUME BarTick PROVE lane' = lane /\ BarsInv'
  <2>. DEFINE r == BarRow(BuildBar)
              pos == {i \in DOMAIN bars : bars[i].age > 0}
              kept == Kept(bars, pos)
  <2>1. row' = NoRow /\ lane' = lane /\ cache' = cache /\ book' = book /\ bars' = <<r>> \o kept
    BY <1>2 DEF BarTick, Background, BarsWith
  <2>2. r \in BarRows
    BY <1>0, BarTyped
  <2>3. kept \in Seq(BarRows)
    <3>1. pos \in SUBSET (DOMAIN bars)
      OBVIOUS
    <3>. HIDE DEF pos
    <3>. QED
      BY <1>0, <3>1, KeptType
  <2>. HIDE DEF r, kept
  <2>4. <<r>> \o kept \in Seq(BarRows)
    BY <2>2, <2>3
  <2>. QED
    BY <1>0, <2>1, <2>4 DEF BarsInv
<1>3. RecentBars \in Seq(BarRows)
  <2>. DEFINE pos == {i \in DOMAIN bars : bars[i].age <= BarLookback}
  <2>1. pos \in SUBSET (DOMAIN bars)
    OBVIOUS
  <2>. HIDE DEF pos
  <2>2. Kept(bars, pos) \in Seq(BarRows)
    BY <1>0, <2>1, KeptType
  <2>. QED
    BY <2>2 DEF RecentBars, pos
<1>4. ASSUME AskVacuum PROVE lane' = lane /\ BarsInv'
  <2>1. PICK r \in RecentBookFeatureBars :
           Concludes(r, Verdict("bookvacuum",
                                /\ Len(r.rows) >= 2
                                /\ r.rows[1].age + r.age <= BarMaxAge
                                /\ VacuumDetected(r.rows[1]),
                                r.failed, r.rows))
    BY <1>4, Zenon DEF AskVacuum
  <2>2. /\ r.rows \in Seq(BarRows)
        /\ r.cache = cache \/ r.cache = CachePut(<<"bfb">>, RecentBars)
    <3>1. << >> \in Seq(BarRows)
      OBVIOUS
    <3>. DEFINE key == <<"bfb">>
    <3>. HIDE DEF key
    <3>2. \/ key \in DOMAIN cache /\ r.cache = cache /\ r.rows = cache[key].value
          \/ r.cache = CachePut(key, RecentBars) /\ r.rows = RecentBars
          \/ r.cache = cache /\ r.rows = << >>
      <4>1. r \in Reads(key, RecentBars, << >>)
        BY DEF RecentBookFeatureBars, key
      <4>. QED
        BY <4>1, ReadIs
    <3>. QED
      BY <1>0, <1>3, <3>1, <3>2, Zenon DEF key
  <2>3. ASSUME Len(r.rows) >= 2 PROVE ~VacuumDetected(r.rows[1])
    <3>1. r.rows[1] \in BarRows
      BY <2>2, <2>3
    <3>. QED
      BY <3>1, NoVacuum
  <2>4. row'.by = "bookvacuum" /\ ~row'.fired /\ lane' = lane /\ cache' = r.cache
    BY <2>1, <2>3 DEF Concludes, Verdict
  <2>5. CacheTyped(r.cache)
    BY <1>0, ReadTyped DEF RecentBookFeatureBars
  <2>6. ASSUME <<"bfb">> \in DOMAIN r.cache PROVE r.cache[<<"bfb">>].value \in Seq(BarRows)
    <3>1. CASE r.cache = cache
      BY <1>0, <2>6, <3>1
    <3>2. CASE r.cache = CachePut(<<"bfb">>, RecentBars)
      <4>1. \/ <<"bfb">> \in DOMAIN cache /\ r.cache[<<"bfb">>] = cache[<<"bfb">>]
            \/ r.cache[<<"bfb">>].value = RecentBars
        <5>. DEFINE key == <<"bfb">>
        <5>1. key \in DOMAIN CachePut(key, RecentBars)
          BY <2>6, <3>2
        <5>. HIDE DEF key
        <5>2. \/ key \in DOMAIN cache /\ CachePut(key, RecentBars)[key] = cache[key]
              \/ CachePut(key, RecentBars)[key].value = RecentBars
          BY <5>1, PutIs
        <5>. QED
          BY <3>2, <5>2 DEF key
      <4>. QED
        BY <1>0, <1>3, <4>1
    <3>. QED
      BY <2>2, <3>1, <3>2
  <2>7. bars' = bars /\ book' = book
    BY <1>4 DEF AskVacuum, barVars
  <2>. QED
    BY <1>0, <2>4, <2>5, <2>6, <2>7 DEF BarsInv
<1>5. ASSUME BarsElapse PROVE lane' = lane /\ BarsInv'
  <2>1. /\ FrameElapses /\ book' = book
        /\ bars' = [i \in DOMAIN RecentBars |-> [RecentBars[i] EXCEPT !.age = @ + 1]]
    BY <1>5 DEF BarsElapse
  <2>2. row' = NoRow /\ lane' = lane
    BY <2>1 DEF FrameElapses
  <2>3. /\ CacheTyped(cache')
        /\ \A k \in DOMAIN cache' : k \in DOMAIN cache /\ cache'[k].value = cache[k].value
    BY <1>0, <2>1, CacheAges
  <2>4. bars' \in Seq(BarRows)
    <3>. DEFINE list == RecentBars
    <3>1. list \in Seq(BarRows) /\ bars' = [i \in DOMAIN list |-> [list[i] EXCEPT !.age = @ + 1]]
      BY <1>3, <2>1
    <3>. HIDE DEF list
    <3>2. DOMAIN list = 1 .. Len(list) /\ Len(list) \in Nat /\ \A i \in DOMAIN list : list[i] \in BarRows
      BY <3>1
    <3>3. \A i \in DOMAIN list : [list[i] EXCEPT !.age = @ + 1] \in BarRows
      BY <3>2 DEF BarRows
    <3>4. bars' \in [1 .. Len(list) -> BarRows]
      BY <3>1, <3>2, <3>3
    <3>. QED
      BY <3>2, <3>4
  <2>. QED
    BY <1>0, <2>1, <2>2, <2>3, <2>4 DEF BarsInv
<1>. QED
  BY <1>1, <1>2, <1>4, <1>5, Zenon DEF BarsNext

-----------------------------------------------------------------------------
(* The holder snapshots *)

\* The snapshots of a wallet: nobody holds nothing.
SnapRows == [rank : Nat, shares : Nat \ {0}, oi : Nat, age : Nat]

\* holderdelta: the snapshots, the kept answers, and leavers make no buyer.
HoldersInv ==
    lane = "holders" =>
        /\ holding \in [Holders -> Nat] /\ DOMAIN snaps = Watched
        /\ \A w \in Watched : snaps[w] \in Seq(SnapRows)
        /\ CacheTyped(cache)
        /\ \A w \in Watched : <<"hsp", w>> \in DOMAIN cache => cache[<<"hsp", w>>].value \in Seq(SnapRows)
        /\ row # NoRow => row.by = "holderdelta" /\ LeaversMakeNoBuyer

\* The API's answer is a list of wallets that hold something.
LEMMA HoldersListed ==
    ASSUME holding \in [Holders -> Nat]
    PROVE  ListHolders \in Seq({w \in Holders : holding[w] > 0})
<1>. DEFINE held == {w \in Holders : holding[w] > 0}
            before == {p \in held \X held : \/ holding[p[1]] > holding[p[2]]
                                            \/ holding[p[1]] = holding[p[2]] /\ p[1] < p[2]}
            list == InOrder(held, before)
            k == Min({FetchTopK, Len(list)})
<1>1. ListHolders = SubSeq(list, 1, k)
  BY Zenon DEF ListHolders
<1>2. IsFiniteSet(held) /\ held \subseteq Holders /\ \A w \in held : w \in Int /\ holding[w] \in Int
  <2>1. held \in SUBSET Holders
    OBVIOUS
  <2>2. \A w \in held : w \in Int /\ holding[w] \in Int
    BY HoldersAssumption
  <2>. HIDE DEF held
  <2>3. IsFiniteSet(held)
    BY <2>1, HoldersAssumption, FS_Subset, Zenon
  <2>. QED
    BY <2>1, <2>2, <2>3
<1>3. ASSUME NEW T \in SUBSET held, T # {} PROVE \E x \in T : \A y \in T : <<y, x>> \notin before
  <2>. DEFINE f == [w \in T |-> -holding[w]]
  <2>1. IsFiniteSet(T)
    <3>. HIDE DEF held
    <3>. QED
      BY <1>2, FS_Subset
  <2>2. \A w \in T : w \in Int /\ holding[w] \in Int /\ f[w] = -holding[w] /\ f[w] \in Int
    BY <1>2
  <2>3. PICK top \in T : \A y \in T : f[top] <= f[y]
    <3>. HIDE DEF f
    <3>. QED
      BY <1>3, <2>1, <2>2, LeastOf
  <2>4. \A y \in T : holding[top] >= holding[y]
    BY <2>2, <2>3
  <2>. DEFINE best == {w \in T : holding[w] = holding[top]}
  <2>5. best \in SUBSET T /\ best # {} /\ best \subseteq Int
    BY <2>2
  <2>. HIDE DEF best, f
  <2>6. IsFiniteSet(best)
    BY <2>1, <2>5, FS_Subset, Zenon
  <2>7. Min(best) \in best /\ \A y \in best : Min(best) <= y
    BY <2>5, <2>6, MinIs, Zenon
  <2>. DEFINE x == Min(best)
  <2>8. x \in T /\ holding[x] = holding[top] /\ \A y \in T : holding[y] = holding[top] => x <= y
    BY <2>7 DEF best
  <2>. HIDE DEF x
  <2>9. ASSUME NEW y \in T, <<y, x>> \in before PROVE FALSE
    <3>1. holding[y] > holding[x] \/ (holding[y] = holding[x] /\ y < x)
      BY <2>9
    <3>. QED
      BY <2>2, <2>4, <2>8, <3>1
  <2>. QED
    BY <2>8, <2>9
<1>. HIDE DEF held, before
<1>4. Cardinality(held) \in Nat /\ list \in [1 .. Cardinality(held) -> held]
  BY <1>2, <1>3, InOrderIs, Zenon
<1>. HIDE DEF list
<1>5. list \in Seq(held) /\ Len(list) \in Nat
  BY <1>4
<1>6. FetchTopK \in Int /\ FetchTopK \in Nat
  BY HoldersAssumption
<1>7. k \in 0 .. Len(list)
  BY <1>5, <1>6, MinOfTwo
<1>. HIDE DEF k
<1>8. SubSeq(list, 1, k) \in Seq(held)
  BY <1>5, <1>7
<1>. QED
  BY <1>1, <1>8, Zenon DEF held

\* A fetch lists snapshots of holders.
LEMMA HoldersFetched ==
    ASSUME holding \in [Holders -> Nat]
    PROVE  FetchHolders \in Seq([wallet : Holders, snap : SnapRows])
<1>. DEFINE list == ListHolders
            oi == OpenInterest(list)
            R == [wallet : Holders, snap : SnapRows]
            full == [i \in DOMAIN list |->
                        [wallet |-> list[i],
                         snap |-> [rank |-> i, shares |-> holding[list[i]], oi |-> oi, age |-> 0]]]
<1>1. list \in Seq({w \in Holders : holding[w] > 0})
  BY HoldersListed
<1>2. FetchHolders = << >> \/ FetchHolders = full
  BY Zenon DEF FetchHolders
<1>. HIDE DEF list
<1>3. DOMAIN list = 1 .. Len(list) /\ Len(list) \in Nat
      /\ \A i \in DOMAIN list : list[i] \in Holders /\ holding[list[i]] > 0 /\ holding[list[i]] \in Nat
  BY <1>1
<1>4. oi \in Nat
  <2>. DEFINE v == [i \in DOMAIN list |-> holding[list[i]]]
  <2>1. \A i \in DOMAIN list : v[i] \in Nat
    BY <1>3
  <2>2. IsFiniteSet(DOMAIN list)
    BY <1>3, FS_Interval
  <2>. HIDE DEF v
  <2>3. Total(v, DOMAIN list) \in Nat
    BY <2>1, <2>2, TotalNat
  <2>. QED
    BY <2>3 DEF OpenInterest, v
<1>. HIDE DEF oi
<1>5. ASSUME NEW i \in DOMAIN list PROVE full[i] \in R
  <2>1. i \in Nat /\ list[i] \in Holders /\ holding[list[i]] \in Nat \ {0}
    BY <1>3
  <2>2. [rank |-> i, shares |-> holding[list[i]], oi |-> oi, age |-> 0] \in SnapRows
    BY <1>4, <2>1 DEF SnapRows
  <2>. HIDE DEF SnapRows
  <2>. QED
    BY <2>1, <2>2
<1>6. full \in [1 .. Len(list) -> R]
  BY <1>3, <1>5
<1>. HIDE DEF full, R
<1>7. full \in Seq(R) /\ << >> \in Seq(R)
  BY <1>3, <1>6
<1>. QED
  BY <1>2, <1>7, Zenon DEF R

\* A wallet's snapshots stay such rows when the first n of a fetch are stored.
LEMMA StoredTyped ==
    ASSUME holding \in [Holders -> Nat], NEW w \in Watched, snaps[w] \in Seq(SnapRows),
           NEW n \in 0 .. Len(FetchHolders)
    PROVE  Stored(w, n) \in Seq(SnapRows)
<1>. DEFINE mine == {i \in 1 .. n : FetchHolders[i].wallet = w}
            pos == {i \in DOMAIN snaps[w] : snaps[w][i].age > 0}
            kept == Kept(snaps[w], pos)
            new == FetchHolders[Min(mine)].snap
            k == Min({1, Len(kept)})
<1>1. FetchHolders \in Seq([wallet : Holders, snap : SnapRows])
  BY HoldersFetched
<1>2. Stored(w, n) = IF mine = {} THEN snaps[w] ELSE <<new>> \o SubSeq(kept, 1, k)
  BY Zenon DEF Stored
<1>3. kept \in Seq(SnapRows)
  <2>1. pos \in SUBSET DOMAIN snaps[w]
    OBVIOUS
  <2>. HIDE DEF pos
  <2>. QED
    BY <2>1, KeptType
<1>4. ASSUME mine # {} PROVE new \in SnapRows
  <2>1. mine \in SUBSET (1 .. n) /\ mine \subseteq Int
    OBVIOUS
  <2>2. n \in Nat /\ 1 .. n \subseteq 1 .. Len(FetchHolders)
    BY <1>1
  <2>. HIDE DEF mine
  <2>3. IsFiniteSet(1 .. n)
    BY <2>2, FS_Interval
  <2>4. IsFiniteSet(mine)
    BY <2>1, <2>3, FS_Subset, Zenon
  <2>5. Min(mine) \in mine
    BY <1>4, <2>1, <2>4, MinIs, Zenon
  <2>. DEFINE i == Min(mine)
  <2>6. i \in 1 .. Len(FetchHolders)
    BY <2>1, <2>2, <2>5, Zenon
  <2>. HIDE DEF i
  <2>. DEFINE R == [wallet : Holders, snap : SnapRows]
              list == FetchHolders
  <2>a. list \in Seq(R) /\ i \in 1 .. Len(list)
    BY <1>1, <2>6
  <2>. HIDE DEF R, list
  <2>b. list[i] \in R
    BY <2>a
  <2>7. FetchHolders[i] \in [wallet : Holders, snap : SnapRows]
    BY <2>b DEF R, list
  <2>. QED
    BY <2>7 DEF i
<1>. HIDE DEF kept, new
<1>5. k \in 0 .. Len(kept)
  <2>1. Len(kept) \in Nat /\ 1 \in Int
    BY <1>3
  <2>. QED
    BY <2>1, MinOfTwo
<1>. HIDE DEF k
<1>6. SubSeq(kept, 1, k) \in Seq(SnapRows)
  BY <1>3, <1>5
<1>. QED
  BY <1>2, <1>4, <1>6

\* holderdelta tells no growth where there was none.
LEMMA NoArtifact ==
    ASSUME NEW cur \in SnapRows, NEW prev \in SnapRows, ~Artifact(cur, prev)
    PROVE  cur.shares > prev.shares \/ 20 * cur.oi >= 19 * prev.oi
<1>. DEFINE a == cur.shares
            b == prev.shares
            c == cur.oi
            d == prev.oi
<1>1. a \in Nat \ {0} /\ b \in Nat \ {0} /\ c \in Nat /\ d \in Nat
  BY DEF SnapRows
<1>2. ~(d > 0 /\ 20 * (d - c) > d /\ 2 * (a - b) * d < (d - c) * b)
  BY DEF Artifact
<1>. HIDE DEF a, b, c, d
<1>3. ASSUME a <= b, 20 * c < 19 * d PROVE FALSE
  <2>1. d > 0 /\ 20 * (d - c) > d /\ d - c > 0
    BY <1>1, <1>3
  <2>2. (d - c) * b > 0
    BY <1>1, <2>1
  <2>3. 2 * (a - b) * d <= 0
    <3>. DEFINE x == b - a
    <3>1. x \in Nat /\ a - b = -x
      BY <1>1, <1>3
    <3>. HIDE DEF x
    <3>2. x * d \in Nat
      BY <1>1, <3>1
    <3>3. 2 * (a - b) * d = -(2 * (x * d))
      BY <1>1, <3>1
    <3>. QED
      BY <3>2, <3>3
  <2>4. 2 * (a - b) * d \in Int /\ (d - c) * b \in Int
    BY <1>1
  <2>. QED
    BY <1>2, <2>1, <2>2, <2>3, <2>4
<1>. QED
  BY <1>1, <1>3 DEF a, b, c, d

\* Every step of holderdelta's lane keeps its invariant.
LEMMA HoldersStep ==
    ASSUME lane \in Lanes, lane = "holders", HoldersInv, HoldersNext
    PROVE  lane' = lane /\ HoldersInv'
<1>0. /\ holding \in [Holders -> Nat] /\ DOMAIN snaps = Watched
      /\ \A w \in Watched : snaps[w] \in Seq(SnapRows)
      /\ CacheTyped(cache)
      /\ \A w \in Watched : <<"hsp", w>> \in DOMAIN cache => cache[<<"hsp", w>>].value \in Seq(SnapRows)
  BY DEF HoldersInv
<1>1. ASSUME NEW w \in Holders, NEW n \in 0 .. MaxAmount, Holds(w, n) PROVE lane' = lane /\ HoldersInv'
  <2>1. /\ row' = NoRow /\ lane' = lane /\ cache' = cache /\ snaps' = snaps
        /\ holding' \in [Holders -> Nat]
    BY <1>0, <1>1, HoldersAssumption DEF Holds, Background
  <2>. QED
    BY <1>0, <2>1 DEF HoldersInv
<1>2. ASSUME SyncHolders PROVE lane' = lane /\ HoldersInv'
  <2>1. row' = NoRow /\ lane' = lane /\ cache' = cache /\ holding' = holding
    BY <1>2 DEF SyncHolders, Background
  <2>2. PICK n \in 0 .. Len(FetchHolders) : snaps' = [w \in Watched |-> Stored(w, n)]
    BY <1>2 DEF SyncHolders
  <2>3. \A w \in Watched : Stored(w, n) \in Seq(SnapRows)
    BY <1>0, StoredTyped
  <2>. QED
    BY <1>0, <2>1, <2>2, <2>3 DEF HoldersInv
<1>3. ASSUME NEW w \in Watched, AskHolders(w) PROVE lane' = lane /\ HoldersInv'
  <2>. DEFINE key == <<"hsp", w>>
  <2>1. PICK r \in HolderSnapshotPairForWallet(w) :
           Concludes(r, Verdict("holderdelta",
                                /\ Len(r.rows) = 2
                                /\ r.rows[1].age + r.age <= FreshMax
                                /\ DeltaFires(r.rows[1], r.rows[2]),
                                r.failed, r.rows))
    BY <1>3, Zenon DEF AskHolders
  <2>2. \/ key \in DOMAIN cache /\ r.cache = cache /\ r.rows = cache[key].value
        \/ r.cache = CachePut(key, snaps[w]) /\ r.rows = snaps[w]
        \/ r.cache = cache /\ r.rows = << >>
    BY ReadIs DEF HolderSnapshotPairForWallet
  <2>3. r.rows \in Seq(SnapRows)
    <3>1. << >> \in Seq(SnapRows)
      OBVIOUS
    <3>. QED
      BY <1>0, <2>2, <3>1, Zenon
  <2>4. /\ row'.by = "holderdelta" /\ row'.on = r.rows /\ lane' = lane /\ cache' = r.cache
        /\ row'.fired => Len(r.rows) = 2 /\ DeltaFires(r.rows[1], r.rows[2])
    BY <2>1 DEF Concludes, Verdict
  <2>5. CacheTyped(r.cache)
    BY <1>0, ReadTyped DEF HolderSnapshotPairForWallet
  <2>6. ASSUME NEW k \in Watched, <<"hsp", k>> \in DOMAIN r.cache
        PROVE  r.cache[<<"hsp", k>>].value \in Seq(SnapRows)
    <3>1. CASE r.cache = cache
      BY <1>0, <2>6, <3>1
    <3>2. CASE r.cache = CachePut(key, snaps[w])
      <4>1. \/ <<"hsp", k>> \in DOMAIN cache /\ r.cache[<<"hsp", k>>] = cache[<<"hsp", k>>]
            \/ r.cache[<<"hsp", k>>].value = snaps[w]
        <5>. HIDE DEF key
        <5>. QED
          BY <2>6, <3>2, PutIs
      <4>. QED
        BY <1>0, <2>6, <4>1
    <3>. QED
      BY <2>2, <3>1, <3>2
  <2>7. ASSUME row'.fired
        PROVE  row'.on[1].shares > row'.on[2].shares \/ 20 * row'.on[1].oi >= 19 * row'.on[2].oi
    <3>1. r.rows[1] \in SnapRows /\ r.rows[2] \in SnapRows
      BY <2>3, <2>4, <2>7
    <3>2. ~Artifact(r.rows[1], r.rows[2])
      BY <2>4, <2>7 DEF DeltaFires
    <3>. QED
      BY <2>4, <3>1, <3>2, NoArtifact
  <2>8. holding' = holding /\ snaps' = snaps
    BY <1>3 DEF AskHolders, holderVars
  <2>9. LeaversMakeNoBuyer'
    BY <2>4, <2>7 DEF LeaversMakeNoBuyer
  <2>. QED
    BY <1>0, <2>4, <2>5, <2>6, <2>8, <2>9 DEF HoldersInv
<1>4. ASSUME HoldersElapse PROVE lane' = lane /\ HoldersInv'
  <2>1. /\ FrameElapses /\ holding' = holding
        /\ snaps' = [w \in Watched |->
                     [i \in DOMAIN snaps[w] |-> [snaps[w][i] EXCEPT !.age = Older(@, FreshMax + 1)]]]
    BY <1>4 DEF HoldersElapse
  <2>2. row' = NoRow /\ lane' = lane
    BY <2>1 DEF FrameElapses
  <2>3. /\ CacheTyped(cache')
        /\ \A k \in DOMAIN cache' : k \in DOMAIN cache /\ cache'[k].value = cache[k].value
    BY <1>0, <2>1, CacheAges
  <2>4. ASSUME NEW w \in Watched PROVE snaps'[w] \in Seq(SnapRows)
    <3>. DEFINE list == snaps[w]
    <3>1. list \in Seq(SnapRows) /\ snaps'[w] = [i \in DOMAIN list |-> [list[i] EXCEPT !.age = Older(@, FreshMax + 1)]]
      BY <1>0, <2>1
    <3>. HIDE DEF list
    <3>2. DOMAIN list = 1 .. Len(list) /\ Len(list) \in Nat /\ \A i \in DOMAIN list : list[i] \in SnapRows
      BY <3>1
    <3>3. \A i \in DOMAIN list : Older(list[i].age, FreshMax + 1) \in Nat
      BY <3>2, HoldersAssumption DEF SnapRows, Older
    <3>4. \A i \in DOMAIN list : [list[i] EXCEPT !.age = Older(@, FreshMax + 1)] \in SnapRows
      BY <3>2, <3>3 DEF SnapRows
    <3>5. snaps'[w] \in [1 .. Len(list) -> SnapRows]
      BY <3>1, <3>2, <3>4
    <3>. QED
      BY <3>2, <3>5
  <2>. QED
    BY <1>0, <2>1, <2>2, <2>3, <2>4 DEF HoldersInv
<1>. QED
  BY <1>1, <1>2, <1>3, <1>4, Zenon DEF HoldersNext

-----------------------------------------------------------------------------
(* The conflicts *)

\* A list of n entries.
IsList(q, n) == n \in Nat /\ q = [i \in 1 .. n |-> q[i]]

\* The places and the length of such a list.
LEMMA ListShape ==
    ASSUME NEW n, NEW q, IsList(q, n)
    PROVE  DOMAIN q = 1 .. n /\ Len(q) = n /\ n \in Nat
<1>. DEFINE S == {q[i] : i \in 1 .. n}
<1>1. n \in Nat /\ q = [i \in 1 .. n |-> q[i]]
  BY DEF IsList
<1>2. q \in [1 .. n -> S]
  BY <1>1
<1>. HIDE DEF S
<1>3. q \in Seq(S)
  BY <1>1, <1>2
<1>. QED
  BY <1>1, <1>2, <1>3

\* One entry in front of a list.
Prepends(p, n, q, x) ==
    /\ IsList(p, n + 1) /\ p[1] = x
    /\ \A i \in 1 .. n : p[i + 1] = q[i]

\* The model puts one in front with a concatenation.
LEMMA ListPrepended ==
    ASSUME NEW n, NEW q, IsList(q, n), NEW x
    PROVE  Prepends(<<x>> \o q, n, q, x)
<1>. DEFINE S == {q[i] : i \in 1 .. n} \cup {x}
            p == <<x>> \o q
<1>1. n \in Nat /\ q = [i \in 1 .. n |-> q[i]]
  BY DEF IsList
<1>2. q \in [1 .. n -> S] /\ x \in S
  BY <1>1
<1>. HIDE DEF S
<1>3. q \in Seq(S) /\ Len(q) = n /\ <<x>> \in Seq(S)
  BY <1>1, <1>2
<1>4. /\ p \in Seq(S) /\ Len(p) = n + 1 /\ p[1] = x
      /\ \A i \in 1 .. n : p[i + 1] = q[i]
  BY <1>1, <1>3
<1>5. p = [i \in 1 .. n + 1 |-> p[i]]
  <2>1. DOMAIN p = 1 .. n + 1 /\ p = [i \in DOMAIN p |-> p[i]]
    <3>. HIDE DEF p
    <3>. QED
      BY <1>4
  <2>. QED
    BY <2>1, Zenon
<1>. HIDE DEF p
<1>6. IsList(p, n + 1)
  BY <1>1, <1>5 DEF IsList
<1>. QED
  BY <1>4, <1>6, Zenon DEF p, Prepends

\* The first entries of a list are kept as they are.
LEMMA FirstKept ==
    ASSUME NEW list, NEW m \in Nat
    PROVE  Kept(list, 1 .. m) = [n \in 1 .. m |-> list[n]]
<1>1. Cardinality(1 .. m) = m
  <2>1. Cardinality(1 .. m) = IF 1 > m THEN 0 ELSE m - 1 + 1
    BY FS_Interval
  <2>. QED
    BY <2>1
<1>2. ASSUME NEW n \in 1 .. m
      PROVE  (CHOOSE i \in 1 .. m : Cardinality({j \in 1 .. m : j <= i}) = n) = n
  <2>1. ASSUME NEW i \in 1 .. m PROVE Cardinality({j \in 1 .. m : j <= i}) = i
    <3>1. {j \in 1 .. m : j <= i} = 1 .. i
      OBVIOUS
    <3>2. i \in Nat /\ Cardinality(1 .. i) = IF 1 > i THEN 0 ELSE i - 1 + 1
      BY FS_Interval
    <3>3. Cardinality(1 .. i) = i
      BY <3>2
    <3>. QED
      BY <3>1, <3>3, Zenon
  <2>2. \A i \in 1 .. m : Cardinality({j \in 1 .. m : j <= i}) = n <=> i = n
    BY <2>1
  <2>. QED
    BY <2>2
<1>3. Kept(list, 1 .. m) = [n \in 1 .. m |-> list[CHOOSE i \in 1 .. m : Cardinality({j \in 1 .. m : j <= i}) = n]]
  BY <1>1, Zenon DEF Kept
<1>. QED
  BY <1>2, <1>3, Zenon

\* The shadow rows of the market, the youngest first.
DecidedHolds(list, n) ==
    /\ IsList(list, n)
    /\ \A i \in 1 .. n : /\ list[i].side \in AlertSides /\ list[i].age \in Nat
                         /\ list[i] = [side |-> list[i].side, score |-> list[i].score, age |-> list[i].age]
    /\ \A i, j \in 1 .. n : i < j => list[i].age <= list[j].age

\* What an answer of age `a` says of the rows: each side it names stood in
\* the window, and each row that stood in it then is named or cut off.
AnswerHolds(list, n, sides, a) ==
    /\ \A s \in sides : s \in AlertSides /\ \E i \in 1 .. n : list[i].side = s /\ list[i].age <= ConflictWindow + a
    /\ \/ \A i \in 1 .. n : list[i].age \in a + 1 .. ConflictWindow + a => list[i].side \in sides
       \/ n > MaxRows /\ list[MaxRows + 1].age <= ConflictWindow + a

\* What is kept is an answer of its age.
ConflictKept(list, n, kept) ==
    <<"rd">> \in DOMAIN kept => AnswerHolds(list, n, SidesOf(kept[<<"rd">>].value), kept[<<"rd">>].age)

\* conflictresolve: the rows, the kept answer, and a conflict is noticed.
ConflictInv ==
    lane = "conflict" =>
        /\ DecidedHolds(decided, Len(decided))
        /\ CacheTyped(cache) /\ ConflictKept(decided, Len(decided), cache)
        /\ row # NoRow => row.by = "conflictresolve" /\ ConflictIsNoticed

\* The rows up to some age are the first ones.
FirstAre(list, n, c, m) == m \in 0 .. n /\ {i \in 1 .. n : list[i].age <= c} = 1 .. m

\* There are such first ones for every age.
LEMMA YoungFirst ==
    ASSUME NEW list, NEW n, DecidedHolds(list, n), NEW c \in Int
    PROVE  \E m : FirstAre(list, n, c, m)
<1>. DEFINE pos == {i \in 1 .. n : list[i].age <= c}
<1>1. n \in Nat /\ \A i \in 1 .. n : list[i].age \in Nat
  BY DEF DecidedHolds, IsList
<1>2. CASE pos = {}
  <2>1. 0 \in 0 .. n /\ pos = 1 .. 0
    BY <1>1, <1>2
  <2>. QED
    BY <2>1 DEF FirstAre
<1>3. CASE pos # {}
  <2>1. pos \in SUBSET (1 .. n) /\ pos \subseteq Int
    OBVIOUS
  <2>2. IsFiniteSet(1 .. n)
    BY <1>1, FS_Interval
  <2>3. Max(pos) \in pos /\ \A y \in pos : Max(pos) >= y
    <3>. HIDE DEF pos
    <3>1. IsFiniteSet(pos)
      BY <2>1, <2>2, FS_Subset, Zenon
    <3>. QED
      BY <1>3, <2>1, <3>1, MaxIs, Zenon
  <2>. DEFINE m == Max(pos)
  <2>4. m \in 1 .. n /\ list[m].age <= c
    BY <2>3
  <2>5. \A y \in pos : m >= y
    BY <2>3
  <2>. HIDE DEF m
  <2>6. ASSUME NEW i \in 1 .. m PROVE i \in pos
    <3>1. i \in 1 .. n /\ (i = m \/ i < m)
      BY <1>1, <2>4
    <3>2. list[i].age <= list[m].age
      BY <1>1, <2>4, <3>1 DEF DecidedHolds
    <3>3. list[i].age <= c
      BY <1>1, <2>4, <3>1, <3>2
    <3>. QED
      BY <3>1, <3>3
  <2>7. pos = 1 .. m
    <3>1. \A i \in pos : i \in 1 .. m
      BY <2>4, <2>5
    <3>. HIDE DEF pos
    <3>. QED
      BY <2>6, <3>1, Zenon
  <2>8. m \in 0 .. n
    BY <2>4
  <2>. QED
    BY <2>7, <2>8 DEF FirstAre
<1>. QED
  BY <1>2, <1>3

\* A fresh answer says what the rows say.
LEMMA AnswerFresh ==
    ASSUME DecidedHolds(decided, Len(decided))
    PROVE  AnswerHolds(decided, Len(decided), SidesOf(RecentDecisions), 0)
<1>. DEFINE n == Len(decided)
<1>1. /\ DOMAIN decided = 1 .. n /\ n \in Nat
      /\ \A i \in 1 .. n : decided[i].side \in AlertSides /\ decided[i].age \in Nat
  BY ListShape, Zenon DEF DecidedHolds
<1>a. PICK m : FirstAre(decided, n, ConflictWindow, m)
  <2>1. ConflictWindow \in Int
    BY ConflictAssumption
  <2>. QED
    BY <2>1, YoungFirst, Zenon
<1>2. m \in 0 .. n /\ {i \in 1 .. n : decided[i].age <= ConflictWindow} = 1 .. m
  BY <1>a DEF FirstAre
<1>4. /\ MaxRows \in Nat \ {0} /\ ConflictWindow \in Nat
      /\ m \in Nat /\ m <= n /\ \A i \in 1 .. m : i \in 1 .. n
  <2>1. m \in Nat /\ m <= n
    BY <1>1, <1>2
  <2>2. \A i \in 1 .. m : i \in 1 .. n
    BY <1>1, <2>1
  <2>. QED
    BY <2>1, <2>2, MaxRowsAssumption, ConflictAssumption
<1>. DEFINE list == [i \in 1 .. m |-> decided[i]]
            k == IF m < MaxRows THEN m ELSE MaxRows
<1>3. Kept(decided, {i \in DOMAIN decided : decided[i].age <= ConflictWindow}) = list
  <2>1. {i \in DOMAIN decided : decided[i].age <= ConflictWindow} = 1 .. m
    BY <1>1, <1>2, Zenon
  <2>2. Kept(decided, 1 .. m) = list
    BY <1>4, FirstKept
  <2>. QED
    BY <2>1, <2>2, Zenon
<1>5. DOMAIN list = 1 .. m /\ Len(list) = m /\ m \in Nat
  <2>1. IsList(list, m)
    BY <1>4 DEF IsList
  <2>. QED
    BY <2>1, ListShape
<1>6. RecentDecisions = SubSeq(list, 1, k)
  <2>. HIDE DEF list
  <2>. QED
    BY <1>3, <1>5, Zenon DEF RecentDecisions, Limited
<1>7. k \in 0 .. m /\ k <= MaxRows
  BY <1>4, <1>5
<1>8. SubSeq(list, 1, k) = [i \in 1 .. k |-> decided[i]]
  <2>1. SubSeq(list, 1, k) = [i \in 1 .. k |-> list[i]]
    <3>. HIDE DEF k, list
    <3>. QED
      BY <1>5, <1>7
  <2>2. \A i \in 1 .. k : list[i] = decided[i]
    <3>. HIDE DEF k
    <3>. QED
      BY <1>5, <1>7
  <2>. HIDE DEF k, list
  <2>. QED
    BY <2>1, <2>2
<1>9. SidesOf(RecentDecisions) = {decided[i].side : i \in 1 .. k}
  <2>. HIDE DEF k, list
  <2>. QED
    BY <1>6, <1>8, Zenon DEF SidesOf
<1>. HIDE DEF list
<1>10. ASSUME NEW s \in SidesOf(RecentDecisions)
       PROVE  s \in AlertSides /\ \E i \in 1 .. n : decided[i].side = s /\ decided[i].age <= ConflictWindow + 0
  <2>1. PICK i \in 1 .. k : s = decided[i].side
    BY <1>9
  <2>2. i \in 1 .. m /\ i \in 1 .. n
    <3>1. i \in 1 .. m
      BY <1>4, <1>7
    <3>. QED
      BY <1>4, <3>1
  <2>3. decided[i].age <= ConflictWindow + 0
    BY <1>1, <1>2, <1>4, <2>2
  <2>. QED
    BY <1>1, <2>1, <2>2, <2>3
<1>11. CASE m <= MaxRows
  <2>1. k = m
    BY <1>4, <1>5, <1>11
  <2>2. ASSUME NEW i \in 1 .. n, decided[i].age \in 0 + 1 .. ConflictWindow + 0
        PROVE  decided[i].side \in SidesOf(RecentDecisions)
    <3>1. decided[i].age <= ConflictWindow
      BY <1>1, <1>4, <2>2
    <3>2. i \in 1 .. m
      BY <1>2, <3>1
    <3>. QED
      BY <1>9, <2>1, <3>2
  <2>. HIDE DEF n
  <2>. QED
    BY <1>10, <2>2 DEF AnswerHolds, n
<1>12. CASE m > MaxRows
  <2>1. MaxRows + 1 \in 1 .. m /\ n > MaxRows
    <3>. HIDE DEF n
    <3>. QED
      BY <1>1, <1>4, <1>12 DEF n
  <2>2. decided[MaxRows + 1].age <= ConflictWindow + 0
    BY <1>1, <1>2, <1>4, <2>1
  <2>. HIDE DEF n
  <2>. QED
    BY <1>10, <2>1, <2>2 DEF AnswerHolds, n
<1>. QED
  BY <1>4, <1>5, <1>11, <1>12

\* One more row in front.
LEMMA ConflictGrows ==
    ASSUME NEW n, DecidedHolds(decided, n), NEW side \in AlertSides, NEW score, Decided(side, score)
    PROVE  /\ DecidedHolds(decided', n + 1) /\ Len(decided') = n + 1
           /\ \A i \in 1 .. n : decided'[i + 1] = decided[i]
           /\ \A sides, a : a \in Nat /\ AnswerHolds(decided, n, sides, a) => AnswerHolds(decided', n + 1, sides, a)
<1>. DEFINE x == [side |-> side, score |-> score, age |-> 0]
<1>1. decided' = <<x>> \o decided
  BY DEF Decided
<1>2. x.side \in AlertSides /\ x.age = 0 /\ x = [side |-> x.side, score |-> x.score, age |-> x.age]
  OBVIOUS
<1>. HIDE DEF x
<1>3. /\ IsList(decided', n + 1) /\ decided'[1] = x /\ n \in Nat
      /\ \A i \in 1 .. n : decided'[i + 1] = decided[i]
  <2>1. IsList(decided, n) /\ n \in Nat
    BY DEF DecidedHolds, IsList
  <2>2. Prepends(decided', n, decided, x)
    BY <1>1, <2>1, ListPrepended, Zenon
  <2>. QED
    BY <2>1, <2>2, Zenon DEF Prepends
<1>4. /\ \A i \in 1 .. n : /\ decided[i].side \in AlertSides /\ decided[i].age \in Nat
                           /\ decided[i] = [side |-> decided[i].side, score |-> decided[i].score, age |-> decided[i].age]
      /\ \A i, j \in 1 .. n : i < j => decided[i].age <= decided[j].age
  BY DEF DecidedHolds
<1>5. ASSUME NEW i \in 1 .. n + 1, i # 1
      PROVE  i - 1 \in 1 .. n /\ decided'[i] = decided[i - 1]
  <2>1. i - 1 \in 1 .. n /\ (i - 1) + 1 = i
    BY <1>3, <1>5
  <2>. QED
    BY <1>3, <2>1
<1>6. \A i \in 1 .. n + 1 :
          /\ decided'[i].side \in AlertSides /\ decided'[i].age \in Nat
          /\ decided'[i] = [side |-> decided'[i].side, score |-> decided'[i].score, age |-> decided'[i].age]
  BY <1>2, <1>3, <1>4, <1>5
<1>7. ASSUME NEW i \in 1 .. n + 1, NEW j \in 1 .. n + 1, i < j
      PROVE  decided'[i].age <= decided'[j].age
  <2>1. j # 1
    BY <1>3, <1>7
  <2>2. j - 1 \in 1 .. n /\ decided'[j] = decided[j - 1] /\ decided[j - 1].age \in Nat
    BY <1>4, <1>5, <2>1, Zenon
  <2>3. CASE i = 1
    BY <1>2, <1>3, <2>2, <2>3
  <2>4. CASE i # 1
    <3>1. i - 1 \in 1 .. n /\ decided'[i] = decided[i - 1] /\ i - 1 < j - 1
      BY <1>3, <1>5, <1>7, <2>4
    <3>. QED
      BY <1>4, <2>2, <3>1
  <2>. QED
    BY <2>3, <2>4
<1>8. DecidedHolds(decided', n + 1) /\ Len(decided') = n + 1
  BY <1>3, <1>6, <1>7, ListShape DEF DecidedHolds
<1>9. ASSUME NEW sides, NEW a \in Nat, AnswerHolds(decided, n, sides, a)
      PROVE  AnswerHolds(decided', n + 1, sides, a)
  <2>0. MaxRows \in Nat \ {0} /\ ConflictWindow \in Nat
    BY MaxRowsAssumption, ConflictAssumption
  <2>1. ASSUME NEW s \in sides
        PROVE  s \in AlertSides /\ \E i \in 1 .. n + 1 : decided'[i].side = s /\ decided'[i].age <= ConflictWindow + a
    <3>1. s \in AlertSides /\ \E i \in 1 .. n : decided[i].side = s /\ decided[i].age <= ConflictWindow + a
      BY <1>9 DEF AnswerHolds
    <3>2. PICK i \in 1 .. n : decided[i].side = s /\ decided[i].age <= ConflictWindow + a
      BY <3>1
    <3>3. i + 1 \in 1 .. n + 1
      BY <1>3
    <3>. QED
      BY <1>3, <3>1, <3>2, <3>3
  <2>2. CASE \A i \in 1 .. n : decided[i].age \in a + 1 .. ConflictWindow + a => decided[i].side \in sides
    <3>1. ASSUME NEW i \in 1 .. n + 1, decided'[i].age \in a + 1 .. ConflictWindow + a
          PROVE  decided'[i].side \in sides
      <4>1. i # 1
        BY <1>2, <1>3, <3>1
      <4>2. i - 1 \in 1 .. n /\ decided'[i] = decided[i - 1]
        BY <1>5, <4>1
      <4>. QED
        BY <2>2, <3>1, <4>2
    <3>. QED
      BY <2>1, <3>1 DEF AnswerHolds
  <2>3. CASE n > MaxRows /\ decided[MaxRows + 1].age <= ConflictWindow + a
    <3>1. MaxRows \in 1 .. n /\ MaxRows + 1 \in 1 .. n /\ n + 1 > MaxRows
      BY <1>3, <2>0, <2>3
    <3>a. decided'[MaxRows + 1] = decided[MaxRows]
      BY <1>3, <3>1
    <3>b. MaxRows < MaxRows + 1
      BY <2>0
    <3>c. decided[MaxRows].age <= decided[MaxRows + 1].age
      BY <1>4, <3>1, <3>b
    <3>2. decided'[MaxRows + 1] = decided[MaxRows] /\ decided[MaxRows].age <= decided[MaxRows + 1].age
          /\ decided[MaxRows].age \in Nat /\ decided[MaxRows + 1].age \in Nat
      BY <1>4, <3>1, <3>a, <3>c, Zenon
    <3>3. decided'[MaxRows + 1].age <= ConflictWindow + a
      BY <2>0, <2>3, <3>2
    <3>. QED
      BY <2>1, <3>1, <3>3 DEF AnswerHolds
  <2>. QED
    BY <1>9, <2>2, <2>3 DEF AnswerHolds
<1>. QED
  BY <1>3, <1>8, <1>9

\* What an answer of the conflict lane's reader says, and what is kept after it.
LEMMA ConflictRead ==
    ASSUME ConflictInv, lane = "conflict", NEW q \in RecentDecisionsForCondition
    PROVE  /\ CacheTyped(q.cache) /\ ConflictKept(decided, Len(decided), q.cache)
           /\ q.failed => SidesOf(q.rows) = {}
           /\ ~q.failed => \E a \in 0 .. CacheTTL : AnswerHolds(decided, Len(decided), SidesOf(q.rows), a)
<1>. DEFINE n == Len(decided)
            key == <<"rd">>
<1>1. DecidedHolds(decided, n) /\ CacheTyped(cache)
  BY DEF ConflictInv
<1>2. key \in DOMAIN cache => AnswerHolds(decided, n, SidesOf(cache[key].value), cache[key].age)
  BY DEF ConflictInv, ConflictKept
<1>3. q \in Reads(key, RecentDecisions, << >>)
  BY DEF RecentDecisionsForCondition
<1>4. \A kept : (key \in DOMAIN kept => AnswerHolds(decided, n, SidesOf(kept[key].value), kept[key].age))
                 => ConflictKept(decided, n, kept)
  BY DEF ConflictKept
<1>5. AnswerHolds(decided, n, SidesOf(RecentDecisions), 0)
  BY <1>1, AnswerFresh
<1>6. SidesOf(<< >>) = {}
  BY DEF SidesOf
<1>. HIDE DEF key, n
<1>7. CacheTyped(q.cache)
  BY <1>1, <1>3, ReadTyped
<1>8. CASE key \in DOMAIN cache /\ ~q.failed /\ q.cache = cache /\ q.rows = cache[key].value /\ q.age = cache[key].age
  <2>1. cache[key].age \in 0 .. CacheTTL
    BY <1>1, <1>8 DEF CacheTyped
  <2>. QED
    BY <1>2, <1>4, <1>7, <1>8, <2>1 DEF n
<1>9. CASE key \notin DOMAIN cache /\ ~q.failed /\ q.cache = CachePut(key, RecentDecisions)
           /\ q.rows = RecentDecisions /\ q.age = 0
  <2>1. ASSUME key \in DOMAIN q.cache
        PROVE  q.cache[key].value = RecentDecisions /\ q.cache[key].age = 0
    BY <1>9, <2>1, PutIs
  <2>2. ConflictKept(decided, n, q.cache)
    BY <1>4, <1>5, <2>1
  <2>3. 0 \in 0 .. CacheTTL
    BY CacheAssumption
  <2>. QED
    BY <1>5, <1>7, <1>9, <2>2, <2>3 DEF n
<1>10. CASE key \notin DOMAIN cache /\ q.failed /\ q.cache = cache /\ q.rows = << >> /\ q.age = 0
  BY <1>4, <1>6, <1>7, <1>10 DEF n
<1>. QED
  BY <1>3, <1>8, <1>9, <1>10, ReadIs

\* A unit of time, and what the rows and an answer become.
LEMMA ConflictAges ==
    ASSUME NEW n, DecidedHolds(decided, n), ConflictsElapse
    PROVE  /\ DecidedHolds(decided', Len(decided'))
           /\ \A sides, a : a \in 0 .. CacheTTL - 1 /\ AnswerHolds(decided, n, sides, a)
                            => AnswerHolds(decided', Len(decided'), sides, a + 1)
<1>. DEFINE c == ConflictWindow + CacheTTL
<1>1. /\ n \in Nat /\ IsList(decided, n)
      /\ \A i \in 1 .. n : /\ decided[i].side \in AlertSides /\ decided[i].age \in Nat
                           /\ decided[i] = [side |-> decided[i].side, score |-> decided[i].score, age |-> decided[i].age]
      /\ \A i, j \in 1 .. n : i < j => decided[i].age <= decided[j].age
  BY DEF DecidedHolds, IsList
<1>2. ConflictWindow \in Nat /\ CacheTTL \in Nat /\ MaxRows \in Nat \ {0}
  BY ConflictAssumption, CacheAssumption, MaxRowsAssumption
<1>3. PICK m : FirstAre(decided, n, c, m)
  <2>1. c \in Int
    BY <1>2
  <2>. HIDE DEF c
  <2>. QED
    BY <2>1, YoungFirst, Zenon
<1>4. m \in 0 .. n /\ {i \in 1 .. n : decided[i].age <= c} = 1 .. m
  BY <1>3 DEF FirstAre
<1>5. m \in Nat /\ m <= n /\ (\A i \in 1 .. m : i \in 1 .. n) /\ DOMAIN decided = 1 .. n
  <2>1. m \in Nat /\ m <= n
    BY <1>1, <1>4
  <2>2. \A i \in 1 .. m : i \in 1 .. n
    BY <1>1, <2>1
  <2>. QED
    BY <1>1, <2>1, <2>2, ListShape
<1>. DEFINE kept == [i \in 1 .. m |-> decided[i]]
<1>6. Kept(decided, {i \in DOMAIN decided : decided[i].age <= c}) = kept
  <2>1. {i \in DOMAIN decided : decided[i].age <= c} = 1 .. m
    BY <1>4, <1>5, Zenon
  <2>2. Kept(decided, 1 .. m) = kept
    BY <1>5, FirstKept, Zenon
  <2>. HIDE DEF c, kept
  <2>. QED
    BY <2>1, <2>2, Zenon
<1>7. decided' = [i \in 1 .. m |-> [decided[i] EXCEPT !.age = @ + 1]]
  <2>1. decided' = [i \in DOMAIN kept |-> [kept[i] EXCEPT !.age = @ + 1]]
    <3>. HIDE DEF kept
    <3>. QED
      BY <1>6, Zenon DEF ConflictsElapse, c
  <2>2. DOMAIN kept = 1 .. m /\ \A i \in 1 .. m : kept[i] = decided[i]
    OBVIOUS
  <2>. HIDE DEF kept
  <2>3. \A i \in 1 .. m : [kept[i] EXCEPT !.age = @ + 1] = [decided[i] EXCEPT !.age = @ + 1]
    BY <2>2, Zenon
  <2>. QED
    BY <2>1, <2>2, <2>3, Zenon
<1>8. \A i \in 1 .. m : /\ decided'[i].side = decided[i].side /\ decided'[i].age = decided[i].age + 1
                        /\ decided'[i] = [side |-> decided'[i].side, score |-> decided'[i].score, age |-> decided'[i].age]
  BY <1>1, <1>5, <1>7
<1>9. IsList(decided', m) /\ Len(decided') = m
  <2>1. IsList(decided', m)
    BY <1>5, <1>7 DEF IsList
  <2>. QED
    BY <2>1, ListShape
<1>10. DecidedHolds(decided', m)
  <2>1. \A i \in 1 .. m : decided'[i].side \in AlertSides /\ decided'[i].age \in Nat
    <3>. SUFFICES ASSUME NEW i \in 1 .. m PROVE decided'[i].side \in AlertSides /\ decided'[i].age \in Nat
      OBVIOUS
    <3>1. decided[i].side \in AlertSides /\ decided[i].age \in Nat
      <4>1. i \in 1 .. n
        BY <1>5
      <4>. QED
        BY <1>1, <4>1, Zenon
    <3>2. decided'[i].side = decided[i].side /\ decided'[i].age = decided[i].age + 1
      BY <1>8, Zenon
    <3>. QED
      BY <3>1, <3>2
  <2>2. ASSUME NEW i \in 1 .. m, NEW j \in 1 .. m, i < j PROVE decided'[i].age <= decided'[j].age
    <3>1. /\ decided[i].age <= decided[j].age /\ decided[i].age \in Nat /\ decided[j].age \in Nat
          /\ decided'[i].age = decided[i].age + 1 /\ decided'[j].age = decided[j].age + 1
      BY <1>1, <1>5, <1>8, <2>2, Zenon
    <3>. QED
      BY <3>1
  <2>. QED
    BY <1>8, <1>9, <2>1, <2>2 DEF DecidedHolds
<1>11. ASSUME NEW sides, NEW a \in 0 .. CacheTTL - 1, AnswerHolds(decided, n, sides, a)
       PROVE  AnswerHolds(decided', m, sides, a + 1)
  <2>0. a \in Nat /\ ConflictWindow + a <= c /\ ConflictWindow + (a + 1) = (ConflictWindow + a) + 1
    BY <1>2
  <2>a. ASSUME NEW i \in 1 .. n, decided[i].age <= ConflictWindow + a PROVE i \in 1 .. m
    <3>1. decided[i].age <= c
      <4>0. decided[i].age \in Nat
        BY <1>1, Zenon
      <4>1. decided[i].age \in Nat /\ a \in Int /\ c \in Int
        BY <1>2, <4>0
      <4>. HIDE DEF c
      <4>. QED
        BY <1>2, <2>0, <2>a, <4>1
    <3>. HIDE DEF c
    <3>. QED
      BY <1>4, <3>1
  <2>1. ASSUME NEW s \in sides
        PROVE  s \in AlertSides /\ \E i \in 1 .. m : decided'[i].side = s /\ decided'[i].age <= ConflictWindow + (a + 1)
    <3>1. s \in AlertSides /\ \E i \in 1 .. n : decided[i].side = s /\ decided[i].age <= ConflictWindow + a
      BY <1>11 DEF AnswerHolds
    <3>2. PICK i \in 1 .. n : decided[i].side = s /\ decided[i].age <= ConflictWindow + a
      BY <3>1
    <3>3. i \in 1 .. m
      BY <2>a, <3>2
    <3>4. decided'[i].side = s /\ decided'[i].age <= ConflictWindow + (a + 1)
      <4>1. decided[i].age \in Nat /\ decided'[i].side = decided[i].side /\ decided'[i].age = decided[i].age + 1
        BY <1>1, <1>8, <3>3, Zenon
      <4>. QED
        BY <1>2, <2>0, <3>2, <4>1
    <3>. QED
      BY <3>1, <3>3, <3>4
  <2>2. CASE \A i \in 1 .. n : decided[i].age \in a + 1 .. ConflictWindow + a => decided[i].side \in sides
    <3>1. ASSUME NEW i \in 1 .. m, decided'[i].age \in (a + 1) + 1 .. ConflictWindow + (a + 1)
          PROVE  decided'[i].side \in sides
      <4>1. i \in 1 .. n /\ decided[i].age \in Nat /\ decided'[i].age = decided[i].age + 1
        BY <1>1, <1>5, <1>8, Zenon
      <4>2. decided[i].age \in a + 1 .. ConflictWindow + a
        BY <1>2, <2>0, <3>1, <4>1
      <4>. QED
        BY <1>8, <2>2, <4>1, <4>2, Zenon
    <3>. QED
      BY <2>1, <3>1 DEF AnswerHolds
  <2>3. CASE n > MaxRows /\ decided[MaxRows + 1].age <= ConflictWindow + a
    <3>1. MaxRows + 1 \in 1 .. n
      BY <1>1, <1>2, <2>3
    <3>2. MaxRows + 1 \in 1 .. m
      BY <2>3, <2>a, <3>1
    <3>3. m > MaxRows
      BY <1>2, <1>5, <3>2
    <3>4. decided[MaxRows + 1].age \in Nat /\ decided'[MaxRows + 1].age = decided[MaxRows + 1].age + 1
      BY <1>1, <1>8, <3>1, <3>2, Zenon
    <3>5. decided'[MaxRows + 1].age <= ConflictWindow + (a + 1)
      BY <1>2, <2>0, <2>3, <3>4
    <3>. QED
      BY <2>1, <3>3, <3>5 DEF AnswerHolds
  <2>. QED
    BY <1>11, <2>2, <2>3 DEF AnswerHolds
<1>. QED
  BY <1>9, <1>10, <1>11

\* An answer without one of the sides means that no such row is old enough
\* to have to be in it, or that there were too many rows.
LEMMA SideMissing ==
    ASSUME NEW n, DecidedHolds(decided, n), NEW sides, NEW a \in 0 .. CacheTTL,
           AnswerHolds(decided, n, sides, a), sides # AlertSides
    PROVE  \/ n > MaxRows
           \/ \E s \in AlertSides : \A i \in 1 .. n :
                  ~(decided[i].side = s /\ decided[i].age \in CacheTTL + 1 .. ConflictWindow)
<1>1. sides \subseteq AlertSides
  BY DEF AnswerHolds
<1>2. PICK s \in AlertSides : s \notin sides
  BY <1>1
<1>3. \A i \in 1 .. n : decided[i].age \in Nat
  BY Zenon DEF DecidedHolds
<1>4. \/ n > MaxRows
      \/ \A i \in 1 .. n : decided[i].age \in a + 1 .. ConflictWindow + a => decided[i].side \in sides
  BY DEF AnswerHolds
<1>5. ASSUME NEW i \in 1 .. n, decided[i].age \in CacheTTL + 1 .. ConflictWindow
      PROVE  decided[i].age \in a + 1 .. ConflictWindow + a
  BY <1>3, <1>5, ConflictAssumption, CacheAssumption
<1>. QED
  BY <1>2, <1>4, <1>5

\* Every step of conflictresolve's lane keeps its invariant.
LEMMA ConflictStep ==
    ASSUME lane \in Lanes, lane = "conflict", ConflictInv, ConflictsNext
    PROVE  lane' = lane /\ ConflictInv'
<1>. DEFINE n == Len(decided)
<1>0. DecidedHolds(decided, n) /\ CacheTyped(cache) /\ ConflictKept(decided, n, cache)
  BY DEF ConflictInv
<1>a. \A kept : ConflictKept(decided, n, kept) /\ CacheTyped(kept) =>
          \A side \in AlertSides : \A score : Decided(side, score) => ConflictKept(decided', n + 1, kept)
  <2>. SUFFICES ASSUME NEW kept, ConflictKept(decided, n, kept), CacheTyped(kept),
                       NEW side \in AlertSides, NEW score, Decided(side, score), <<"rd">> \in DOMAIN kept
                PROVE  AnswerHolds(decided', n + 1, SidesOf(kept[<<"rd">>].value), kept[<<"rd">>].age)
    BY DEF ConflictKept
  <2>1. /\ AnswerHolds(decided, n, SidesOf(kept[<<"rd">>].value), kept[<<"rd">>].age)
        /\ kept[<<"rd">>].age \in Nat
    BY CacheAssumption DEF ConflictKept, CacheTyped
  <2>2. \A sides, a : a \in Nat /\ AnswerHolds(decided, n, sides, a) => AnswerHolds(decided', n + 1, sides, a)
    <3>. HIDE DEF n
    <3>. QED
      BY <1>0, ConflictGrows
  <2>. QED
    BY <2>1, <2>2, Zenon
<1>1. ASSUME NEW side \in AlertSides, NEW score \in Scores, Decides(side, score)
      PROVE  lane' = lane /\ ConflictInv'
  <2>1. Decided(side, score) /\ row' = NoRow /\ lane' = lane /\ cache' = cache
    BY <1>1 DEF Decides, Background
  <2>2. DecidedHolds(decided', n + 1) /\ Len(decided') = n + 1
    BY <1>0, <2>1, ConflictGrows
  <2>3. ConflictKept(decided', n + 1, cache)
    BY <1>0, <1>a, <2>1
  <2>. QED
    BY <1>0, <2>1, <2>2, <2>3 DEF ConflictInv
<1>2. ASSUME NEW s \in AlertSides, AskConflict(s) PROVE lane' = lane /\ ConflictInv'
  <2>. DEFINE Lead(q) == Resolve(Weight(q.rows, "BUY"), Weight(q.rows, "SELL"))
              Opposed(q) == SidesOf(q.rows) = AlertSides
  <2>1. PICK q \in RecentDecisionsForCondition :
            \/ /\ Opposed(q) /\ Decided(s, Lead(q).lead)
               /\ Concludes(q, Verdict("conflictresolve", TRUE, q.failed, Lead(q).action))
            \/ /\ Concludes(q, Verdict("conflictresolve", FALSE, q.failed \/ Opposed(q), "skipped"))
               /\ UNCHANGED decided
    BY <1>2, Zenon DEF AskConflict
  <2>2. /\ CacheTyped(q.cache) /\ ConflictKept(decided, n, q.cache)
        /\ q.failed => SidesOf(q.rows) = {}
        /\ ~q.failed => \E a \in 0 .. CacheTTL : AnswerHolds(decided, n, SidesOf(q.rows), a)
    BY ConflictRead
  <2>3. DOMAIN decided = 1 .. n /\ n \in Nat
    BY <1>0, ListShape DEF DecidedHolds
  <2>4. CASE /\ Opposed(q) /\ Decided(s, Lead(q).lead)
             /\ Concludes(q, Verdict("conflictresolve", TRUE, q.failed, Lead(q).action))
    <3>. DEFINE score == Lead(q).lead
    <3>1. /\ lane' = lane /\ cache' = q.cache /\ row'.by = "conflictresolve" /\ row'.fired
          /\ Decided(s, score) /\ Opposed(q)
      BY <2>4 DEF Concludes, Verdict
    <3>. HIDE DEF score
    <3>2. /\ DecidedHolds(decided', n + 1) /\ Len(decided') = n + 1
          /\ \A i \in 1 .. n : decided'[i + 1] = decided[i]
      BY <1>0, <3>1, ConflictGrows
    <3>3. ConflictKept(decided', n + 1, q.cache)
      BY <1>a, <2>2, <3>1
    <3>4. ~q.failed
      BY <2>2, <3>1 DEF AlertSides
    <3>5. PICK a \in 0 .. CacheTTL : AnswerHolds(decided, n, SidesOf(q.rows), a)
      BY <2>2, <3>4
    <3>6. ASSUME NEW side \in AlertSides
          PROVE  \E i \in DOMAIN decided' : decided'[i].side = side /\ decided'[i].age \in 0 .. ConflictWindow + CacheTTL
      <4>1. side \in SidesOf(q.rows)
        BY <3>1
      <4>2. PICK i \in 1 .. n : decided[i].side = side /\ decided[i].age <= ConflictWindow + a
        BY <3>5, <4>1 DEF AnswerHolds
      <4>3. decided[i].age \in Nat
        BY <1>0, Zenon DEF DecidedHolds
      <4>4. decided[i].age \in 0 .. ConflictWindow + CacheTTL
        BY <4>2, <4>3, ConflictAssumption, CacheAssumption
      <4>5. DOMAIN decided' = 1 .. n + 1
        BY <3>2, ListShape DEF DecidedHolds
      <4>6. i + 1 \in 1 .. n + 1
        BY <2>3
      <4>. QED
        BY <3>2, <4>2, <4>4, <4>5, <4>6, Zenon
    <3>7. ConflictIsNoticed'
      BY <3>1, <3>6 DEF ConflictIsNoticed
    <3>. QED
      BY <2>2, <3>1, <3>2, <3>3, <3>7 DEF ConflictInv
  <2>5. CASE /\ Concludes(q, Verdict("conflictresolve", FALSE, q.failed \/ Opposed(q), "skipped"))
             /\ UNCHANGED decided
    <3>1. /\ lane' = lane /\ cache' = q.cache /\ row'.by = "conflictresolve" /\ ~row'.fired
          /\ row'.failed = (q.failed \/ Opposed(q)) /\ decided' = decided
      BY <2>5 DEF Concludes, Verdict
    <3>2. ASSUME ~row'.failed
          PROVE  \/ n > MaxRows
                 \/ \E t \in AlertSides : \A i \in 1 .. n :
                        ~(decided[i].side = t /\ decided[i].age \in CacheTTL + 1 .. ConflictWindow)
      <4>1. ~q.failed /\ SidesOf(q.rows) # AlertSides
        BY <3>1, <3>2, Zenon
      <4>2. PICK a \in 0 .. CacheTTL : AnswerHolds(decided, n, SidesOf(q.rows), a)
        BY <2>2, <4>1
      <4>. HIDE DEF n
      <4>. QED
        BY <1>0, <4>1, <4>2, SideMissing
    <3>3. ConflictIsNoticed'
      BY <2>3, <3>1, <3>2 DEF ConflictIsNoticed
    <3>. QED
      BY <1>0, <2>2, <3>1, <3>3 DEF ConflictInv
  <2>. QED
    BY <2>1, <2>4, <2>5, Zenon
<1>3. ASSUME ConflictsElapse PROVE lane' = lane /\ ConflictInv'
  <2>1. FrameElapses
    BY <1>3 DEF ConflictsElapse
  <2>2. row' = NoRow /\ lane' = lane
    BY <2>1 DEF FrameElapses
  <2>3. /\ \A k \in DOMAIN cache' : /\ k \in DOMAIN cache /\ cache[k].age < CacheTTL
                                    /\ cache'[k].value = cache[k].value /\ cache'[k].age = cache[k].age + 1
        /\ CacheTyped(cache')
    BY <1>0, <2>1, CacheAges
  <2>4. /\ DecidedHolds(decided', Len(decided'))
        /\ \A sides, a : a \in 0 .. CacheTTL - 1 /\ AnswerHolds(decided, n, sides, a)
                         => AnswerHolds(decided', Len(decided'), sides, a + 1)
    BY <1>0, <1>3, ConflictAges
  <2>5. ConflictKept(decided', Len(decided'), cache')
    <3>. SUFFICES ASSUME <<"rd">> \in DOMAIN cache'
                  PROVE  AnswerHolds(decided', Len(decided'), SidesOf(cache'[<<"rd">>].value), cache'[<<"rd">>].age)
      BY DEF ConflictKept
    <3>1. /\ <<"rd">> \in DOMAIN cache /\ cache[<<"rd">>].age < CacheTTL
          /\ cache'[<<"rd">>].value = cache[<<"rd">>].value /\ cache'[<<"rd">>].age = cache[<<"rd">>].age + 1
      BY <2>3
    <3>2. AnswerHolds(decided, n, SidesOf(cache[<<"rd">>].value), cache[<<"rd">>].age)
      BY <1>0, <3>1 DEF ConflictKept
    <3>3. cache[<<"rd">>].age \in 0 .. CacheTTL - 1
      BY <1>0, <3>1, CacheAssumption DEF CacheTyped
    <3>. QED
      BY <2>4, <3>1, <3>2, <3>3, Zenon
  <2>. QED
    BY <2>2, <2>3, <2>4, <2>5 DEF ConflictInv
<1>. QED
  BY <1>1, <1>2, <1>3, Zenon DEF ConflictsNext

-----------------------------------------------------------------------------
(* The catalysts *)

\* What a row's status may be; the importer writes its own besides the named ones.
StatusOf == STRING \cup Statuses

\* The rows of the catalysts, ...
CatRow == [kind : STRING, title : STRING, status : StatusOf, due : Int, sure : Int, age : Nat]

\* ... the drafts the importer writes, ...
DraftRow == [kind : STRING, title : STRING, status : StatusOf, due : Int, sure : Int]

\* ... and what the reader of the strategy is told.
FactRow == [kind : STRING, lead : Int, sure : Int]

\* An order that goes by a number has a first row everywhere.
LEMMA RankOrders ==
    ASSUME NEW S, IsFiniteSet(S), NEW before, NEW f, \A x \in S : f[x] \in Int,
           \A x, y \in S : <<x, y>> \in before => f[x] < f[y]
    PROVE  \A T \in SUBSET S : T # {} => \E x \in T : \A y \in T : <<y, x>> \notin before
<1>. SUFFICES ASSUME NEW T \in SUBSET S, T # {} PROVE \E x \in T : \A y \in T : <<y, x>> \notin before
  OBVIOUS
<1>1. IsFiniteSet(T)
  BY FS_Subset
<1>2. PICK x \in T : \A y \in T : f[x] <= f[y]
  BY <1>1, LeastOf
<1>3. \A y \in T : f[x] \in Int /\ f[y] \in Int /\ f[x] <= f[y]
  BY <1>2
<1>. QED
  BY <1>3

\* The drafts of an answer, put right and in order.
LEMMA ParsedTyped ==
    ASSUME NEW answer \in SUBSET Drafts
    PROVE  Parsed(answer) \in Seq(DraftRow)
<1>. DEFINE formed == {d \in answer : WellFormed(d)}
            f == [d \in formed |-> Cleaned(d)]
            cleaned == {f[d] : d \in formed}
            before == {p \in cleaned \X cleaned : p[1].sure > p[2].sure}
<1>1. Furthest \in Nat /\ IsFiniteSet(Drafts) /\ Drafts \subseteq DraftRow
  <2>1. Furthest \in Nat /\ IsFiniteSet(Drafts)
        /\ Drafts \subseteq [kind : STRING, title : STRING, status : STRING, due : Int, sure : Int]
    BY CatalystAssumption
  <2>2. STRING \subseteq StatusOf
    BY Zenon DEF StatusOf
  <2>. HIDE DEF StatusOf
  <2>3. \A d \in [kind : STRING, title : STRING, status : STRING, due : Int, sure : Int] : d \in DraftRow
    BY <2>2, Zenon DEF DraftRow
  <2>. QED
    BY <2>1, <2>3, Zenon
<1>2. IsFiniteSet(formed) /\ formed \subseteq DraftRow
  <2>1. formed \subseteq Drafts /\ formed \subseteq DraftRow
    BY <1>1
  <2>. HIDE DEF formed
  <2>. QED
    BY <1>1, <2>1, FS_Subset
<1>3. ASSUME NEW d \in DraftRow PROVE Cleaned(d) \in DraftRow
  <2>. DEFINE status == IF d.status = "" THEN "expected" ELSE d.status
              due == IF d.due \in -Furthest .. Furthest THEN d.due ELSE NoDate
              sure == IF d.sure < Doubtful THEN Doubtful ELSE IF d.sure > Confident THEN Confident ELSE d.sure
  <2>1. status \in StatusOf /\ due \in Int /\ sure \in Int
    <3>1. d.status \in StatusOf /\ d.due \in Int /\ d.sure \in Int
      BY <1>3 DEF DraftRow
    <3>2. status \in StatusOf
      BY <3>1, Zenon DEF StatusOf, Statuses, LiveStatuses
    <3>3. due \in Int
      BY <1>1, <3>1 DEF NoDate
    <3>4. sure \in Int
      BY <3>1 DEF Doubtful, Confident
    <3>. QED
      BY <3>2, <3>3, <3>4, Zenon
  <2>2. Cleaned(d) = [d EXCEPT !.status = status, !.due = due, !.sure = sure]
    BY Zenon DEF Cleaned
  <2>. HIDE DEF status, due, sure
  <2>3. [d EXCEPT !.status = status] \in DraftRow
    BY <2>1 DEF DraftRow
  <2>4. [d EXCEPT !.status = status, !.due = due] \in DraftRow
    BY <2>1, <2>3, Zenon DEF DraftRow
  <2>5. [d EXCEPT !.status = status, !.due = due, !.sure = sure] \in DraftRow
    BY <2>1, <2>4, Zenon DEF DraftRow
  <2>. QED
    BY <2>2, <2>5
<1>4. cleaned \subseteq DraftRow /\ f = [d \in formed |-> f[d]]
  <2>. HIDE DEF formed
  <2>. QED
    BY <1>2, <1>3
<1>5. {Cleaned(d) : d \in formed} = cleaned
  <2>. HIDE DEF formed
  <2>. QED
    OBVIOUS
<1>. HIDE DEF f
<1>6. IsFiniteSet(cleaned)
  <2>. HIDE DEF formed
  <2>. QED
    BY <1>2, <1>4, ImageFinite
<1>7. Parsed(answer) = InOrder(cleaned, before)
  <2>. HIDE DEF cleaned
  <2>. QED
    BY <1>5, Zenon DEF Parsed
<1>. HIDE DEF cleaned
<1>8. \A T \in SUBSET cleaned : T # {} => \E x \in T : \A y \in T : <<y, x>> \notin before
  <2>. DEFINE g == [d \in cleaned |-> -d.sure]
  <2>1. \A d \in cleaned : d.sure \in Int
    BY <1>4 DEF DraftRow
  <2>2. \A d \in cleaned : g[d] \in Int
    BY <2>1
  <2>3. \A x, y \in cleaned : <<x, y>> \in before => g[x] < g[y]
    BY <2>1
  <2>. HIDE DEF g, before
  <2>. QED
    BY <1>6, <2>2, <2>3, RankOrders, Zenon
<1>. HIDE DEF before
<1>9. Cardinality(cleaned) \in Nat /\ InOrder(cleaned, before) \in [1 .. Cardinality(cleaned) -> cleaned]
  BY <1>6, <1>8, InOrderIs, Zenon
<1>10. InOrder(cleaned, before) \in [1 .. Cardinality(cleaned) -> DraftRow]
  BY <1>4, <1>9
<1>. QED
  BY <1>7, <1>9, <1>10

\* So are those that are written.
LEMMA WrittenTyped ==
    ASSUME NEW answer \in SUBSET Drafts, NEW failing
    PROVE  Written(Parsed(answer), failing) \in Seq(DraftRow)
<1>. DEFINE all == Parsed(answer)
            pos == {i \in DOMAIN all : all[i].sure >= Accepted /\ ~ \E f \in failing : SameRow(all[i], f)}
<1>1. all \in Seq(DraftRow)
  BY ParsedTyped
<1>2. Written(Parsed(answer), failing) = Kept(all, pos)
  BY DEF Written
<1>3. pos \in SUBSET (DOMAIN all)
  OBVIOUS
<1>. HIDE DEF all, pos
<1>. QED
  BY <1>1, <1>2, <1>3, KeptType

\* What every upsert keeps, the import keeps.
LEMMA ImportKeeps ==
    ASSUME NEW X, NEW n \in Nat, NEW list, DOMAIN list = 1 .. n, NEW base \in X,
           \A rows \in X : \A i \in 1 .. n : CatalystUpserted(rows, list[i]) \in X
    PROVE  FoldLeft(CatalystUpserted, base, list) \in X
<1>. DEFINE Eq(g) == g = [U \in SUBSET (1 .. n) |->
                             IF U = {} THEN base
                             ELSE CatalystUpserted(g[U \ {Max(U)}], list[Max(U)])]
            w == CHOOSE g : Eq(g)
            advance == [p \in (1 .. n) \X X |-> CatalystUpserted(p[2], list[p[1]])]
<1>1. \E g : Eq(g)
  <2>1. advance \in [(1 .. n) \X X -> X]
    OBVIOUS
  <2>. HIDE DEF advance
  <2>0. PICK g : FoldsTo(g, n, X, base, advance)
    BY <2>1, FoldExists
  <2>2. /\ g \in [SUBSET (1 .. n) -> X]
        /\ g = [U \in SUBSET (1 .. n) |-> IF U = {} THEN base ELSE advance[<<Max(U), g[U \ {Max(U)}]>>]]
    BY <2>0, Zenon DEF FoldsTo
  <2>3. ASSUME NEW U \in SUBSET (1 .. n), U # {}
        PROVE  advance[<<Max(U), g[U \ {Max(U)}]>>] = CatalystUpserted(g[U \ {Max(U)}], list[Max(U)])
    <3>0. IsFiniteSet(1 .. n)
      BY FS_Interval
    <3>a. IsFiniteSet(U)
      BY <3>0, FS_Subset, Zenon
    <3>1. IsFiniteSet(U) /\ U \subseteq Int
      BY <3>a
    <3>2. Max(U) \in 1 .. n
      BY <2>3, <3>1, MaxIs, Zenon
    <3>3. g[U \ {Max(U)}] \in X
      BY <2>2, Zenon
    <3>. QED
      BY <3>2, <3>3 DEF advance
  <2>. QED
    BY <2>2, <2>3, ZenonT(60)
<1>2. FoldLeft(CatalystUpserted, base, list) = w[1 .. n]
  BY Zenon DEF FoldLeft, MapThenFoldSet
<1>3. Eq(w)
  BY <1>1, Zenon
<1>. HIDE DEF w
<1>. DEFINE F == {i \in Nat : i <= n => w[1 .. i] \in X}
<1>4. 0 \in F
  <2>1. 1 .. 0 = {} /\ {} \in SUBSET (1 .. n)
    OBVIOUS
  <2>2. w[{}] = base
    BY <1>3, <2>1
  <2>. QED
    BY <2>1, <2>2
<1>5. ASSUME NEW i \in Nat, i \in F PROVE i + 1 \in F
  <2>. SUFFICES ASSUME i + 1 <= n PROVE w[1 .. i + 1] \in X
    OBVIOUS
  <2>1. Max(1 .. i + 1) = i + 1 /\ (1 .. i + 1) \ {i + 1} = 1 .. (i + 1) - 1 /\ 1 .. i + 1 # {}
    BY IntervalFacts
  <2>2. 1 .. i + 1 \in SUBSET (1 .. n) /\ 1 .. (i + 1) - 1 = 1 .. i /\ i + 1 \in 1 .. n
    OBVIOUS
  <2>3. w[1 .. i] \in X
    BY <1>5
  <2>4. w[1 .. i + 1] = CatalystUpserted(w[1 .. i], list[i + 1])
    BY <1>3, <2>1, <2>2, Zenon
  <2>. QED
    BY <2>2, <2>3, <2>4
<1>. HIDE DEF F
<1>6. Nat \subseteq F
  BY <1>4, <1>5, EveryNumber, Zenon
<1>7. w[1 .. n] \in X
  BY <1>6 DEF F
<1>. QED
  BY <1>2, <1>7

\* The tables an import may leave: every row of them is one of before, or new.
ImportedFrom(old) ==
    {rows \in SUBSET CatRow : IsFiniteSet(rows) /\ \A c \in rows : c.age = 0 \/ c \in old}

\* One upsert leaves such a table, ...
LEMMA UpsertedStays ==
    ASSUME NEW old, NEW rows \in ImportedFrom(old), NEW d \in DraftRow
    PROVE  CatalystUpserted(rows, d) \in ImportedFrom(old)
<1>. DEFINE mine == {c \in rows : SameRow(c, d)}
            x == [kind |-> d.kind, title |-> d.title, status |-> d.status, age |-> 0,
                  due |-> IF d.due = NoDate /\ mine # {} THEN (CHOOSE c \in mine : TRUE).due ELSE d.due,
                  sure |-> IF \E c \in mine : c.sure > d.sure THEN (CHOOSE c \in mine : TRUE).sure ELSE d.sure]
<1>1. rows \in SUBSET CatRow /\ IsFiniteSet(rows) /\ \A c \in rows : c.age = 0 \/ c \in old
  BY DEF ImportedFrom
<1>2. CatalystUpserted(rows, d) = (rows \ mine) \cup {x}
  BY Zenon DEF CatalystUpserted
<1>3. mine # {} => (CHOOSE c \in mine : TRUE) \in CatRow
  <2>. SUFFICES ASSUME mine # {} PROVE (CHOOSE c \in mine : TRUE) \in CatRow
    OBVIOUS
  <2>1. mine \subseteq CatRow
    BY <1>1
  <2>. HIDE DEF mine
  <2>2. (CHOOSE c \in mine : TRUE) \in mine
    OBVIOUS
  <2>. QED
    BY <2>1, <2>2
<1>4. mine \subseteq rows
  OBVIOUS
<1>. HIDE DEF mine
<1>5. x \in CatRow /\ x.age = 0
  <2>. DEFINE y == CHOOSE c \in mine : TRUE
  <2>1. mine # {} => y.due \in Int /\ y.sure \in Int
    BY <1>3 DEF CatRow
  <2>2. d.kind \in STRING /\ d.title \in STRING /\ d.status \in StatusOf /\ d.due \in Int /\ d.sure \in Int
    BY DEF DraftRow
  <2>3. (\E c \in mine : c.sure > d.sure) => mine # {}
    OBVIOUS
  <2>. HIDE DEF y
  <2>4. [kind |-> d.kind, title |-> d.title, status |-> d.status, age |-> 0,
         due |-> IF d.due = NoDate /\ mine # {} THEN y.due ELSE d.due,
         sure |-> IF \E c \in mine : c.sure > d.sure THEN y.sure ELSE d.sure] \in CatRow
    BY <2>1, <2>2, <2>3 DEF CatRow
  <2>. QED
    BY <2>4 DEF y
<1>. HIDE DEF x
<1>6. IsFiniteSet(rows \ mine)
  BY <1>1, FS_Subset
<1>7. IsFiniteSet((rows \ mine) \cup {x})
  BY <1>6, FS_AddElement, Zenon
<1>8. (rows \ mine) \cup {x} \in SUBSET CatRow /\ \A c \in (rows \ mine) \cup {x} : c.age = 0 \/ c \in old
  BY <1>1, <1>5
<1>. QED
  BY <1>2, <1>7, <1>8 DEF ImportedFrom

\* ... and so does the whole import.
LEMMA ImportLeaves ==
    ASSUME NEW old, old \in SUBSET CatRow, IsFiniteSet(old), NEW named \in Seq(DraftRow)
    PROVE  FoldLeft(CatalystUpserted, old, named) \in ImportedFrom(old)
<1>. DEFINE X == ImportedFrom(old)
<1>1. old \in X
  BY DEF ImportedFrom
<1>2. DOMAIN named = 1 .. Len(named) /\ Len(named) \in Nat /\ \A i \in 1 .. Len(named) : named[i] \in DraftRow
  OBVIOUS
<1>3. \A rows \in X : \A i \in 1 .. Len(named) : CatalystUpserted(rows, named[i]) \in X
  BY <1>2, UpsertedStays
<1>. HIDE DEF X
<1>4. FoldLeft(CatalystUpserted, old, named) \in X
  BY <1>1, <1>2, <1>3, ImportKeeps, Zenon
<1>. QED
  BY <1>4 DEF X

\* The catalysts and the kept answer about them are such rows.
CatalystTable == /\ catalysts \subseteq CatRow /\ IsFiniteSet(catalysts)
                 /\ CacheTyped(cache)
                 /\ <<"c">> \in DOMAIN cache => cache[<<"c">>].value \in Seq(FactRow)

\* catalystwindow: the tables, and that the catalysts that count are the ones that
\* should.
CatalystInv ==
    lane = "catalyst" =>
        /\ CatalystTable
        /\ row # NoRow => row.by \in {"importer", "blocker", "catalystwindow"} /\ CatalystsTellAhead

\* Marking rows stale leaves the others as they are.
LEMMA MarkedTyped ==
    ASSUME NEW rows, rows \subseteq CatRow, IsFiniteSet(rows), NEW up \in SUBSET rows
    PROVE  /\ Marked(rows, up) \subseteq CatRow /\ IsFiniteSet(Marked(rows, up))
           /\ \A c \in Marked(rows, up) : (c \in rows /\ c \notin up) \/ c.status = "stale"
<1>. DEFINE f == [c \in up |-> [c EXCEPT !.status = "stale", !.age = 0]]
            set == {f[c] : c \in up}
<1>1. Marked(rows, up) = (rows \ up) \cup set
  <2>1. {[c EXCEPT !.status = "stale", !.age = 0] : c \in up} = set
    OBVIOUS
  <2>. HIDE DEF f, set
  <2>. QED
    BY <2>1, Zenon DEF Marked
<1>2. \A c \in up : f[c] \in CatRow /\ f[c].status = "stale"
  <2>. SUFFICES ASSUME NEW c \in up PROVE f[c] \in CatRow /\ f[c].status = "stale"
    OBVIOUS
  <2>1. c \in CatRow /\ "stale" \in StatusOf
    BY DEF StatusOf, Statuses
  <2>. HIDE DEF StatusOf
  <2>2. [c EXCEPT !.status = "stale"] \in CatRow /\ [c EXCEPT !.status = "stale"].status = "stale"
    BY <2>1 DEF CatRow
  <2>3. /\ [c EXCEPT !.status = "stale", !.age = 0] \in CatRow
        /\ [c EXCEPT !.status = "stale", !.age = 0].status = "stale"
    BY <2>2, Zenon DEF CatRow
  <2>. QED
    BY <2>3, Zenon
<1>3. f = [c \in up |-> f[c]]
  OBVIOUS
<1>. HIDE DEF f
<1>4. IsFiniteSet(up) /\ IsFiniteSet(rows \ up)
  BY FS_Subset
<1>5. IsFiniteSet(set)
  BY <1>3, <1>4, ImageFinite
<1>6. \A c \in set : c \in CatRow /\ c.status = "stale"
  BY <1>2
<1>. HIDE DEF set
<1>7. IsFiniteSet((rows \ up) \cup set)
  BY <1>4, <1>5, FS_Union, Zenon
<1>. QED
  BY <1>1, <1>6, <1>7

\* An import keeps the tables, and what it leaves live has a cause.
LEMMA ImportStep ==
    ASSUME CatalystTable, NEW answer \in SUBSET Drafts, NEW listed \in BOOLEAN, NEW failing,
           ImportCycle(answer, listed, failing)
    PROVE  lane' = lane /\ CatalystTable' /\ row'.by = "importer" /\ CatalystsTellAhead'
<1>. DEFINE named == Written(Parsed(answer), failing)
            after == FoldLeft(CatalystUpserted, catalysts, named)
            given == {c \in GivenUp(Snapshot(listed), named) : ~ \E f \in failing : SameRow(c, f)}
            up == {c \in after : \E d \in given : SameRow(c, d)}
<1>1. /\ catalysts' = Marked(after, up)
      /\ row' = Verdict("importer", TRUE, ~listed \/ failing # {}, Plainly(named))
      /\ lane' = lane /\ cache' = cache
  BY Zenon DEF ImportCycle
<1>2. named \in Seq(DraftRow)
  BY WrittenTyped
<1>. HIDE DEF named
<1>3. after \in ImportedFrom(catalysts)
  BY <1>2, ImportLeaves DEF CatalystTable
<1>. HIDE DEF after
<1>4. after \subseteq CatRow /\ IsFiniteSet(after) /\ \A c \in after : c.age = 0 \/ c \in catalysts
  BY <1>3 DEF ImportedFrom
<1>5. up \in SUBSET after
  OBVIOUS
<1>. HIDE DEF up
<1>6. /\ catalysts' \subseteq CatRow /\ IsFiniteSet(catalysts')
      /\ \A c \in catalysts' : (c \in after /\ c \notin up) \/ c.status = "stale"
  BY <1>1, <1>4, <1>5, MarkedTyped
<1>7. CatalystTable'
  BY <1>1, <1>6 DEF CatalystTable
<1>8. row'.by = "importer" /\ row'.failed = (~listed \/ failing # {}) /\ row'.on = Plainly(named)
  BY <1>1 DEF Verdict
<1>9. ASSUME ~row'.failed, NEW c \in catalysts', c.status \in LiveStatuses, c.age > StaleAfter, Passed(c),
             PlainOf[c.title] \notin row'.on
      PROVE  FALSE
  <2>1. c \in after /\ c \notin up
    BY <1>6, <1>9 DEF LiveStatuses
  <2>2. c \in catalysts
    BY <1>4, <1>9, <2>1, CatalystAssumption
  <2>3. listed /\ failing = {}
    BY <1>8, <1>9, Zenon
  <2>4. c \in GivenUp(Snapshot(listed), named)
    BY <1>8, <1>9, <2>2, <2>3 DEF GivenUp, Snapshot
  <2>5. c \in given
    BY <2>3, <2>4, Zenon
  <2>. HIDE DEF given
  <2>6. c \in up
    BY <2>1, <2>5 DEF up, SameRow
  <2>. QED
    BY <2>1, <2>6
<1>10. LiveRowsHaveCause'
  <2>1. \A c \in catalysts' : c.age \in Int /\ StaleAfter \in Int
    BY <1>6, CatalystAssumption DEF CatRow
  <2>. QED
    BY <1>9, <2>1 DEF LiveRowsHaveCause, LiveRows, Passed
<1>11. AheadBeatsBehind' /\ BlockerIsTold'
  BY <1>8 DEF AheadBeatsBehind, BlockerIsTold
<1>. QED
  BY <1>1, <1>7, <1>8, <1>10, <1>11, Zenon DEF CatalystsTellAhead

-----------------------------------------------------------------------------
(* What blocks an alert *)

\* The live rows in the order of the blocker.
IsFirst(c, rows) ==
    /\ c \in rows
    /\ \A d \in rows : d.status = "active" => c.status = "active"
    /\ \A d \in rows : d.status = c.status => c.due <= d.due

\* The order of the live rows, and what its first row is.
LEMMA ActiveFirstIs ==
    ASSUME NEW rows, rows \subseteq CatRow, IsFiniteSet(rows), \A c \in rows : c.status \in LiveStatuses
    PROVE  /\ Cardinality(rows) \in Nat /\ ActiveFirst(rows) \in [1 .. Cardinality(rows) -> rows]
           /\ \A i \in 1 .. Cardinality(rows) : i > 1 => ~Before(ActiveFirst(rows)[i], ActiveFirst(rows)[1])
           /\ Cardinality(rows) > 0 => IsFirst(ActiveFirst(rows)[1], rows)
<1>. DEFINE before == {p \in rows \X rows : Before(p[1], p[2])}
            list == ActiveFirst(rows)
            n == Cardinality(rows)
<1>0. \A c \in rows : c.due \in Int
  BY DEF CatRow
<1>1. ASSUME NEW T \in SUBSET rows, T # {} PROVE \E x \in T : \A y \in T : ~Before(y, x)
  <2>. DEFINE A == {x \in T : x.status = "active"}
              f == [x \in rows |-> x.due]
  <2>0. \A U \in SUBSET rows : U # {} => \E x \in U : \A y \in U : x.due <= y.due
    <3>. SUFFICES ASSUME NEW U \in SUBSET rows, U # {} PROVE \E x \in U : \A y \in U : x.due <= y.due
      OBVIOUS
    <3>1. IsFiniteSet(U)
      BY FS_Subset
    <3>2. \A x \in U : f[x] \in Int /\ f[x] = x.due
      BY <1>0
    <3>. HIDE DEF f
    <3>3. \E x \in U : \A y \in U : f[x] <= f[y]
      BY <3>1, <3>2, LeastOf
    <3>. QED
      BY <3>2, <3>3
  <2>1. CASE A # {}
    <3>1. PICK x \in A : \A y \in A : x.due <= y.due
      BY <2>0, <2>1, Zenon
    <3>2. \A y \in T : ~Before(y, x)
      BY <1>0, <3>1 DEF Before
    <3>. QED
      BY <3>1, <3>2
  <2>2. CASE A = {}
    <3>1. PICK x \in T : \A y \in T : x.due <= y.due
      BY <1>1, <2>0
    <3>2. \A y \in T : ~Before(y, x)
      BY <1>0, <2>2, <3>1 DEF Before
    <3>. QED
      BY <3>1, <3>2
  <2>. QED
    BY <2>1, <2>2
<1>2. \A T \in SUBSET rows : T # {} => \E x \in T : \A y \in T : <<y, x>> \notin before
  BY <1>1
<1>3. list = InOrder(rows, before)
  BY DEF ActiveFirst
<1>. HIDE DEF before, list
<1>4. /\ n \in Nat /\ list \in [1 .. n -> rows]
      /\ \A i, j \in 1 .. n : i < j => list[i] # list[j] /\ <<list[j], list[i]>> \notin before
      /\ \A x \in rows : \E i \in 1 .. n : list[i] = x
  BY <1>2, <1>3, InOrderIs
<1>. HIDE DEF n
<1>5. ASSUME NEW i \in 1 .. n, i > 1 PROVE ~Before(list[i], list[1])
  <2>1. 1 \in 1 .. n /\ 1 < i
    BY <1>4, <1>5
  <2>2. <<list[i], list[1]>> \notin before /\ list[i] \in rows /\ list[1] \in rows
    BY <1>4, <2>1
  <2>. QED
    BY <2>2 DEF before
<1>6. ASSUME n > 0 PROVE IsFirst(list[1], rows)
  <2>1. 1 \in 1 .. n /\ list[1] \in rows
    BY <1>4, <1>6
  <2>2. ASSUME NEW d \in rows, d # list[1] PROVE ~Before(d, list[1])
    <3>1. PICK i \in 1 .. n : list[i] = d
      BY <1>4
    <3>2. i > 1
      BY <1>4, <2>2, <3>1
    <3>. QED
      BY <1>5, <3>1, <3>2
  <2>. DEFINE c == list[1]
  <2>. HIDE DEF c
  <2>3. c \in rows /\ c.due \in Int /\ \A d \in rows : d.due \in Int /\ (d = c \/ ~Before(d, c))
    BY <1>0, <2>1, <2>2 DEF c
  <2>4. IsFirst(c, rows)
    BY <2>3 DEF IsFirst, Before
  <2>. QED
    BY <2>4 DEF c
<1>. QED
  BY <1>4, <1>5, <1>6 DEF list, n

\* One row more is looked at.
NearerOf(best, c) == IF \A b \in best : Before(c, b) THEN {c} ELSE best

\* Walking the list, the blocker stays with its first row.
LEMMA PrimaryIs ==
    ASSUME NEW n \in Nat, NEW list, DOMAIN list = 1 .. n,
           \A i \in 1 .. n : i > 1 => ~Before(list[i], list[1])
    PROVE  Primary(list) = IF n = 0 THEN {} ELSE {list[1]}
<1>. DEFINE X == SUBSET {list[i] : i \in 1 .. n}
            Eq(g) == g = [U \in SUBSET (1 .. n) |->
                             IF U = {} THEN {} ELSE NearerOf(g[U \ {Max(U)}], list[Max(U)])]
            w == CHOOSE g : Eq(g)
            advance == [p \in (1 .. n) \X X |-> NearerOf(p[2], list[p[1]])]
<1>1. \E g : Eq(g)
  <2>1. advance \in [(1 .. n) \X X -> X] /\ {} \in X
    BY DEF NearerOf
  <2>. HIDE DEF advance, X
  <2>0. PICK g : FoldsTo(g, n, X, {}, advance)
    BY <2>1, FoldExists, Zenon
  <2>2. /\ g \in [SUBSET (1 .. n) -> X]
        /\ g = [U \in SUBSET (1 .. n) |-> IF U = {} THEN {} ELSE advance[<<Max(U), g[U \ {Max(U)}]>>]]
    BY <2>0, Zenon DEF FoldsTo
  <2>3. ASSUME NEW U \in SUBSET (1 .. n), U # {}
        PROVE  advance[<<Max(U), g[U \ {Max(U)}]>>] = NearerOf(g[U \ {Max(U)}], list[Max(U)])
    <3>0. IsFiniteSet(1 .. n)
      BY FS_Interval
    <3>a. IsFiniteSet(U)
      BY <3>0, FS_Subset, Zenon
    <3>1. IsFiniteSet(U) /\ U \subseteq Int
      BY <3>a
    <3>2. Max(U) \in 1 .. n
      BY <2>3, <3>1, MaxIs, Zenon
    <3>3. g[U \ {Max(U)}] \in X
      BY <2>2, Zenon
    <3>. QED
      BY <3>2, <3>3 DEF advance
  <2>4. \A U \in SUBSET (1 .. n) :
            (IF U = {} THEN {} ELSE advance[<<Max(U), g[U \ {Max(U)}]>>])
            = (IF U = {} THEN {} ELSE NearerOf(g[U \ {Max(U)}], list[Max(U)]))
    BY <2>3, Zenon
  <2>5. Eq(g)
    BY <2>2, <2>4, Zenon
  <2>. QED
    BY <2>5, Zenon
<1>2. Primary(list) = w[1 .. n]
  BY Zenon DEF Primary, FoldLeft, MapThenFoldSet, NearerOf
<1>3. Eq(w)
  BY <1>1, Zenon
<1>. HIDE DEF w
<1>4. w[{}] = {}
  <2>1. {} \in SUBSET (1 .. n)
    OBVIOUS
  <2>. QED
    BY <1>3, <2>1
<1>5. ASSUME NEW i \in Nat, i + 1 <= n
      PROVE  w[1 .. i + 1] = NearerOf(w[1 .. i], list[i + 1])
  <2>1. Max(1 .. i + 1) = i + 1 /\ (1 .. i + 1) \ {i + 1} = 1 .. (i + 1) - 1 /\ 1 .. i + 1 # {}
    BY IntervalFacts, SMTT(40)
  <2>2. 1 .. i + 1 \in SUBSET (1 .. n) /\ 1 .. (i + 1) - 1 = 1 .. i
    BY <1>5
  <2>. QED
    BY <1>3, <2>1, <2>2, ZenonT(60)
<1>. DEFINE F == {i \in Nat : i + 1 <= n => w[1 .. i + 1] = {list[1]}}
<1>6. 0 \in F
  <2>. SUFFICES ASSUME 0 + 1 <= n PROVE w[1 .. 0 + 1] = {list[1]}
    OBVIOUS
  <2>1. 1 .. 0 = {} /\ 0 + 1 = 1
    OBVIOUS
  <2>2. w[1 .. 0 + 1] = NearerOf(w[1 .. 0], list[0 + 1])
    BY <1>5, Zenon
  <2>. QED
    BY <1>4, <2>1, <2>2 DEF NearerOf
<1>7. ASSUME NEW i \in Nat, i \in F PROVE i + 1 \in F
  <2>. SUFFICES ASSUME (i + 1) + 1 <= n PROVE w[1 .. (i + 1) + 1] = {list[1]}
    OBVIOUS
  <2>1. w[1 .. i + 1] = {list[1]}
    BY <1>7
  <2>2. w[1 .. (i + 1) + 1] = NearerOf(w[1 .. i + 1], list[(i + 1) + 1])
    <3>1. i + 1 \in Nat
      OBVIOUS
    <3>. QED
      BY <1>5, <3>1
  <2>3. (i + 1) + 1 \in 1 .. n /\ (i + 1) + 1 > 1
    OBVIOUS
  <2>4. ~Before(list[(i + 1) + 1], list[1])
    BY <2>3
  <2>. QED
    BY <2>1, <2>2, <2>4 DEF NearerOf
<1>. HIDE DEF F
<1>8. Nat \subseteq F
  BY <1>6, <1>7, EveryNumber
<1>9. CASE n = 0
  <2>1. 1 .. n = {}
    BY <1>9
  <2>. QED
    BY <1>2, <1>4, <1>9, <2>1
<1>10. CASE n # 0
  <2>1. n - 1 \in F /\ (n - 1) + 1 = n
    BY <1>8, <1>10
  <2>2. w[1 .. n] = {list[1]}
    BY <2>1 DEF F
  <2>. QED
    BY <1>2, <1>10, <2>2
<1>. QED
  BY <1>9, <1>10

\* The blocker is told of the catalyst that blocks.
LEMMA BlockerStep ==
    ASSUME CatalystTable, NEW failed \in BOOLEAN, AskBlocker(failed)
    PROVE  lane' = lane /\ CatalystTable' /\ row'.by = "blocker" /\ CatalystsTellAhead'
<1>. DEFINE rows == LiveRows
            list == LoadActive(failed)
            n == Cardinality(rows)
            on == [block |-> {Blocked(c) : c \in Primary(list)},
                   prompt |-> {Blocked(c) : c \in ToSet(Prompted(list))}]
<1>1. /\ row' = Verdict("blocker", list # << >>, failed, on)
      /\ lane' = lane /\ cache' = cache /\ catalysts' = catalysts
  BY Zenon DEF AskBlocker
<1>. HIDE DEF on, list
<1>2. row'.by = "blocker" /\ row'.failed = failed /\ row'.on = on
  BY <1>1 DEF Verdict
<1>3. LiveRows' = rows
  BY <1>1 DEF LiveRows
<1>. HIDE DEF rows
<1>4. ASSUME ~failed
      PROVE  /\ on.block = {} <=> rows = {}
             /\ on.block \subseteq on.prompt
             /\ \A b \in on.block : \E c \in rows : b = Blocked(c) /\ IsFirst(c, rows)
  <2>1. rows \subseteq CatRow /\ IsFiniteSet(rows) /\ \A c \in rows : c.status \in LiveStatuses
    <3>1. rows \subseteq catalysts /\ \A c \in rows : c.status \in LiveStatuses
      BY DEF rows, LiveRows
    <3>. QED
      BY <3>1, FS_Subset DEF CatalystTable
  <2>2. list = ActiveFirst(rows)
    BY <1>4 DEF list, LoadActive, rows
  <2>3. /\ n \in Nat /\ list \in [1 .. n -> rows]
        /\ \A i \in 1 .. n : i > 1 => ~Before(list[i], list[1])
        /\ n > 0 => IsFirst(list[1], rows)
    BY <2>1, <2>2, ActiveFirstIs
  <2>4. n = 0 <=> rows = {}
    BY <2>1, FS_EmptySet
  <2>. HIDE DEF n
  <2>5. DOMAIN list = 1 .. n /\ list \in Seq(rows) /\ Len(list) = n
    BY <2>3
  <2>6. Primary(list) = IF n = 0 THEN {} ELSE {list[1]}
    BY <2>3, <2>5, PrimaryIs
  <2>7. CASE n = 0
    <3>1. on.block = {}
      BY <2>6, <2>7 DEF on
    <3>. QED
      BY <2>4, <2>7, <3>1
  <2>8. CASE n # 0
    <3>1. on.block = {Blocked(list[1])}
      BY <2>6, <2>8 DEF on
    <3>2. list[1] \in ToSet(Prompted(list))
      <4>. DEFINE k == IF Len(list) < PromptItems THEN Len(list) ELSE PromptItems
      <4>1. k \in Nat /\ k >= 1 /\ k <= Len(list)
        BY <2>3, <2>5, <2>8, CatalystAssumption
      <4>2. Prompted(list) = SubSeq(list, 1, k)
        BY DEF Prompted
      <4>. HIDE DEF k
      <4>. DEFINE q == SubSeq(list, 1, k)
      <4>3. DOMAIN q = 1 .. k /\ q[1] = list[1]
        BY <2>5, <4>1
      <4>. HIDE DEF q
      <4>4. 1 \in DOMAIN q
        BY <4>1, <4>3
      <4>5. q[1] \in ToSet(q)
        BY <4>4, Zenon DEF ToSet
      <4>. QED
        BY <4>2, <4>3, <4>5, Zenon DEF q
    <3>3. on.prompt = {Blocked(c) : c \in ToSet(Prompted(list))}
      BY DEF on
    <3>4. Blocked(list[1]) \in on.prompt
      BY <3>2, <3>3
    <3>5. IsFirst(list[1], rows) /\ list[1] \in rows
      BY <2>3, <2>8 DEF IsFirst
    <3>. QED
      BY <2>4, <2>8, <3>1, <3>4, <3>5
  <2>. QED
    BY <2>7, <2>8
<1>5. BlockerIsTold'
  BY <1>2, <1>3, <1>4 DEF BlockerIsTold, IsFirst
<1>6. AheadBeatsBehind' /\ LiveRowsHaveCause'
  BY <1>2 DEF AheadBeatsBehind, LiveRowsHaveCause
<1>. QED
  BY <1>1, <1>2, <1>5, <1>6 DEF CatalystTable, CatalystsTellAhead

-----------------------------------------------------------------------------
(* The catalyst an alert is counted to *)

\* One candidate more is looked at.
BetterOf(best, c) ==
    IF /\ InWindow(c)
       /\ \A b \in best : Better(c.lead, b.lead)
    THEN {c} ELSE best

\* What the pick among the first i candidates is: none when none matches, and
\* otherwise one that matches and that no other one is further than, unless
\* it is due this very moment.
Picked(pick, list, i) ==
    \/ pick = {} /\ \A j \in 1 .. i : ~InWindow(list[j])
    \/ \E k \in 1 .. i : /\ pick = {list[k]} /\ InWindow(list[k])
                         /\ \A j \in 1 .. i : InWindow(list[j]) /\ list[k].lead # 0
                                              => list[j].lead <= list[k].lead

\* It stays so with one candidate more.
LEMMA PickedNext ==
    ASSUME NEW i \in Nat, NEW list, \A j \in 1 .. i + 1 : list[j].lead \in Int,
           NEW best, Picked(best, list, i)
    PROVE  Picked(BetterOf(best, list[i + 1]), list, i + 1)
<1>. DEFINE c == list[i + 1]
<1>1. i + 1 \in 1 .. i + 1 /\ (\A j \in 1 .. i : j \in 1 .. i + 1) /\ \A j \in 1 .. i + 1 : j = i + 1 \/ j \in 1 .. i
  OBVIOUS
<1>2. CASE ~InWindow(c)
  <2>1. BetterOf(best, c) = best
    BY <1>2 DEF BetterOf
  <2>. QED
    BY <1>1, <1>2, <2>1 DEF Picked
<1>3. CASE InWindow(c)
  <2>1. CASE best = {} /\ \A j \in 1 .. i : ~InWindow(list[j])
    <3>1. BetterOf(best, c) = {c}
      BY <1>3, <2>1 DEF BetterOf
    <3>2. \A j \in 1 .. i + 1 : InWindow(list[j]) /\ c.lead # 0 => list[j].lead <= c.lead
      BY <1>1, <2>1
    <3>. QED
      BY <1>1, <1>3, <3>1, <3>2 DEF Picked
  <2>2. ASSUME NEW k \in 1 .. i, best = {list[k]}, InWindow(list[k]),
               \A j \in 1 .. i : InWindow(list[j]) /\ list[k].lead # 0 => list[j].lead <= list[k].lead
        PROVE  Picked(BetterOf(best, c), list, i + 1)
    <3>0. k \in 1 .. i + 1 /\ list[k].lead \in Int /\ c.lead \in Int
      BY <1>1
    <3>1. CASE Better(c.lead, list[k].lead)
      <4>1. BetterOf(best, c) = {c}
        BY <1>3, <2>2, <3>1 DEF BetterOf
      <4>2. ASSUME NEW j \in 1 .. i, InWindow(list[j]), c.lead # 0 PROVE list[j].lead <= c.lead
        <5>1. list[k].lead # 0 /\ list[k].lead < c.lead
          BY <3>0, <3>1, <4>2 DEF Better
        <5>2. list[j].lead <= list[k].lead /\ list[j].lead \in Int
          BY <1>1, <2>2, <4>2, <5>1
        <5>. QED
          BY <3>0, <5>1, <5>2
      <4>3. \A j \in 1 .. i + 1 : InWindow(list[j]) /\ c.lead # 0 => list[j].lead <= c.lead
        BY <1>1, <3>0, <4>2
      <4>. QED
        BY <1>1, <1>3, <4>1, <4>3 DEF Picked
    <3>2. CASE ~Better(c.lead, list[k].lead)
      <4>1. BetterOf(best, c) = {list[k]}
        BY <2>2, <3>2 DEF BetterOf
      <4>2. list[k].lead # 0 => c.lead <= list[k].lead
        BY <3>0, <3>2 DEF Better
      <4>3. \A j \in 1 .. i + 1 : InWindow(list[j]) /\ list[k].lead # 0 => list[j].lead <= list[k].lead
        BY <1>1, <2>2, <4>2
      <4>. QED
        BY <2>2, <3>0, <4>1, <4>3, Zenon DEF Picked
    <3>. QED
      BY <3>1, <3>2
  <2>. QED
    BY <2>1, <2>2 DEF Picked
<1>. QED
  BY <1>2, <1>3

\* The pick among all candidates.
LEMMA PickIs ==
    ASSUME NEW n \in Nat, NEW list, DOMAIN list = 1 .. n, \A i \in 1 .. n : list[i].lead \in Int
    PROVE  Picked(Pick(list), list, n)
<1>. DEFINE X == SUBSET {list[i] : i \in 1 .. n}
            Eq(g) == g = [U \in SUBSET (1 .. n) |->
                             IF U = {} THEN {} ELSE BetterOf(g[U \ {Max(U)}], list[Max(U)])]
            w == CHOOSE g : Eq(g)
            advance == [p \in (1 .. n) \X X |-> BetterOf(p[2], list[p[1]])]
<1>1. \E g : Eq(g)
  <2>1. advance \in [(1 .. n) \X X -> X] /\ {} \in X
    BY DEF BetterOf
  <2>. HIDE DEF advance, X
  <2>0. PICK g : FoldsTo(g, n, X, {}, advance)
    BY <2>1, FoldExists, Zenon
  <2>2. /\ g \in [SUBSET (1 .. n) -> X]
        /\ g = [U \in SUBSET (1 .. n) |-> IF U = {} THEN {} ELSE advance[<<Max(U), g[U \ {Max(U)}]>>]]
    BY <2>0, Zenon DEF FoldsTo
  <2>3. ASSUME NEW U \in SUBSET (1 .. n), U # {}
        PROVE  advance[<<Max(U), g[U \ {Max(U)}]>>] = BetterOf(g[U \ {Max(U)}], list[Max(U)])
    <3>0. IsFiniteSet(1 .. n)
      BY FS_Interval
    <3>a. IsFiniteSet(U)
      BY <3>0, FS_Subset, Zenon
    <3>1. IsFiniteSet(U) /\ U \subseteq Int
      BY <3>a
    <3>2. Max(U) \in 1 .. n
      BY <2>3, <3>1, MaxIs, Zenon
    <3>3. g[U \ {Max(U)}] \in X
      BY <2>2, Zenon
    <3>. QED
      BY <3>2, <3>3 DEF advance
  <2>4. \A U \in SUBSET (1 .. n) :
            (IF U = {} THEN {} ELSE advance[<<Max(U), g[U \ {Max(U)}]>>])
            = (IF U = {} THEN {} ELSE BetterOf(g[U \ {Max(U)}], list[Max(U)]))
    BY <2>3, Zenon
  <2>5. Eq(g)
    BY <2>2, <2>4, Zenon
  <2>. QED
    BY <2>5, Zenon
<1>2. Pick(list) = w[1 .. n]
  BY Zenon DEF Pick, FoldLeft, MapThenFoldSet, BetterOf
<1>3. Eq(w)
  BY <1>1, Zenon
<1>. HIDE DEF w
<1>4. w[{}] = {}
  <2>1. {} \in SUBSET (1 .. n)
    OBVIOUS
  <2>. QED
    BY <1>3, <2>1
<1>5. ASSUME NEW i \in Nat, i + 1 <= n
      PROVE  w[1 .. i + 1] = BetterOf(w[1 .. i], list[i + 1])
  <2>1. Max(1 .. i + 1) = i + 1 /\ (1 .. i + 1) \ {i + 1} = 1 .. (i + 1) - 1 /\ 1 .. i + 1 # {}
    BY IntervalFacts, SMTT(40)
  <2>2. 1 .. i + 1 \in SUBSET (1 .. n) /\ 1 .. (i + 1) - 1 = 1 .. i
    BY <1>5
  <2>. QED
    BY <1>3, <2>1, <2>2, ZenonT(60)
<1>. DEFINE F == {i \in Nat : i <= n => Picked(w[1 .. i], list, i)}
<1>6. 0 \in F
  <2>1. 1 .. 0 = {}
    OBVIOUS
  <2>2. Picked({}, list, 0)
    BY DEF Picked
  <2>. QED
    BY <1>4, <2>1, <2>2, Zenon
<1>7. ASSUME NEW i \in Nat, i \in F PROVE i + 1 \in F
  <2>. SUFFICES ASSUME i + 1 <= n PROVE Picked(w[1 .. i + 1], list, i + 1)
    OBVIOUS
  <2>1. Picked(w[1 .. i], list, i)
    BY <1>7
  <2>2. w[1 .. i + 1] = BetterOf(w[1 .. i], list[i + 1])
    BY <1>5
  <2>3. \A j \in 1 .. i + 1 : list[j].lead \in Int
    <3>1. \A j \in 1 .. i + 1 : j \in 1 .. n
      OBVIOUS
    <3>. QED
      BY <3>1
  <2>. DEFINE best == w[1 .. i]
  <2>. HIDE DEF best
  <2>4. Picked(BetterOf(best, list[i + 1]), list, i + 1)
    BY <2>1, <2>3, PickedNext, Zenon DEF best
  <2>. QED
    BY <2>2, <2>4 DEF best
<1>. HIDE DEF F
<1>8. n \in F
  BY <1>6, <1>7, EveryNumber, Zenon
<1>. QED
  BY <1>2, <1>8 DEF F

\* The rows by time are such rows.
LEMMA ByTimeTyped ==
    ASSUME NEW rows, rows \subseteq CatRow, IsFiniteSet(rows)
    PROVE  ByTime(rows) \in Seq(CatRow)
<1>. DEFINE before == {p \in rows \X rows : p[1].due < p[2].due}
            list == InOrder(rows, before)
            f == [c \in rows |-> c.due]
            n == Cardinality(rows)
<1>1. \A c \in rows : c.due \in Int /\ f[c] \in Int
  BY DEF CatRow
<1>2. \A x, y \in rows : <<x, y>> \in before => f[x] < f[y]
  OBVIOUS
<1>. HIDE DEF f, before
<1>3. \A T \in SUBSET rows : T # {} => \E x \in T : \A y \in T : <<y, x>> \notin before
  BY <1>1, <1>2, RankOrders, Zenon
<1>4. n \in Nat /\ list \in [1 .. n -> rows]
  BY <1>3, InOrderIs, Zenon
<1>5. list \in Seq(CatRow)
  BY <1>4
<1>. DEFINE k == IF Len(list) < MaxRows THEN Len(list) ELSE MaxRows
<1>6. ByTime(rows) = SubSeq(list, 1, k)
  BY DEF ByTime, Limited, before
<1>. HIDE DEF list
<1>7. k \in 0 .. Len(list)
  BY <1>5, MaxRowsAssumption
<1>. HIDE DEF k
<1>8. SubSeq(list, 1, k) \in Seq(CatRow)
  BY <1>5, <1>7
<1>. QED
  BY <1>6, <1>8

\* A catalyst ahead beats one behind, for whoever asks.
LEMMA CatalystAsked ==
    ASSUME CatalystTable, AskCatalyst
    PROVE  lane' = lane /\ CatalystTable' /\ row'.by = "catalystwindow" /\ CatalystsTellAhead'
<1>. DEFINE key == <<"c">>
            rows == ByTime(LiveRows)
            facts == [i \in DOMAIN rows |-> Fact(rows[i])]
            Now(q) == [i \in DOMAIN q.rows |->
                          [q.rows[i] EXCEPT !.lead = IF @ = NoDate THEN @ ELSE @ - q.age]]
            SpokenOf(q) == [pick |-> Pick(Now(q)), known |-> Now(q),
                            class |-> {Class(c) : c \in Pick(Now(q))},
                            boost |-> {Boost(c) : c \in Pick(Now(q))}]
<1>1. /\ CacheTyped(cache) /\ (key \in DOMAIN cache => cache[key].value \in Seq(FactRow))
      /\ catalysts \subseteq CatRow /\ IsFiniteSet(catalysts)
  BY DEF CatalystTable
<1>2. facts \in Seq(FactRow)
  <2>1. rows \in Seq(CatRow)
    <3>1. LiveRows \subseteq catalysts
      BY DEF LiveRows
    <3>2. IsFiniteSet(LiveRows) /\ LiveRows \subseteq CatRow
      BY <1>1, <3>1, FS_Subset
    <3>. QED
      BY <3>2, ByTimeTyped
  <2>. HIDE DEF rows
  <2>2. DOMAIN rows = 1 .. Len(rows) /\ Len(rows) \in Nat /\ \A i \in DOMAIN rows : rows[i] \in CatRow
    BY <2>1
  <2>3. \A i \in DOMAIN rows : Fact(rows[i]) \in FactRow
    BY <2>2 DEF Fact, CatRow, FactRow
  <2>. QED
    BY <2>2, <2>3
<1>3. CatalystsOfEvent = Reads(key, facts, << >>)
  BY DEF CatalystsOfEvent
<1>. HIDE DEF facts
<1>4. PICK q \in CatalystsOfEvent : Concludes(q, Verdict("catalystwindow", Pick(Now(q)) # {}, q.failed, SpokenOf(q)))
  BY Zenon DEF AskCatalyst
<1>5. /\ lane' = lane /\ cache' = q.cache /\ row'.by = "catalystwindow" /\ row'.on = SpokenOf(q)
  BY <1>4 DEF Concludes, Verdict
<1>6. catalysts' = catalysts
  BY DEF AskCatalyst
<1>. HIDE DEF key
<1>7. CacheTyped(q.cache)
  BY <1>1, <1>3, ReadTyped
<1>8. \/ key \in DOMAIN cache /\ q.cache = cache /\ q.rows = cache[key].value /\ q.age = cache[key].age
      \/ q.cache = CachePut(key, facts) /\ q.rows = facts /\ q.age = 0
      \/ q.cache = cache /\ q.rows = << >> /\ q.age = 0
  BY <1>3, ReadIs
<1>9. q.rows \in Seq(FactRow) /\ q.age \in Nat
  <2>1. << >> \in Seq(FactRow)
    OBVIOUS
  <2>. QED
    <3>1. CASE key \in DOMAIN cache /\ q.cache = cache /\ q.rows = cache[key].value /\ q.age = cache[key].age
      <4>1. cache[key].age \in 0 .. CacheTTL
        BY <1>1, <3>1 DEF CacheTyped
      <4>2. q.age \in Nat
        BY <3>1, <4>1, CacheAssumption
      <4>. QED
        BY <1>1, <3>1, <4>2
    <3>2. CASE q.rows = facts /\ q.age = 0
      BY <1>2, <3>2
    <3>3. CASE q.rows = << >> /\ q.age = 0
      BY <2>1, <3>3
    <3>. QED
      BY <1>8, <3>1, <3>2, <3>3
<1>10. key \in DOMAIN q.cache => q.cache[key].value \in Seq(FactRow)
  <2>1. CASE q.cache = cache
    BY <1>1, <2>1
  <2>2. CASE q.cache = CachePut(key, facts)
    <3>. SUFFICES ASSUME key \in DOMAIN CachePut(key, facts)
                  PROVE  CachePut(key, facts)[key].value \in Seq(FactRow)
      BY <2>2
    <3>1. \/ key \in DOMAIN cache /\ CachePut(key, facts)[key] = cache[key]
          \/ CachePut(key, facts)[key].value = facts
      BY PutIs
    <3>. QED
      BY <1>1, <1>2, <3>1
  <2>. QED
    BY <1>8, <2>1, <2>2
<1>11. CatalystTable'
  BY <1>1, <1>5, <1>6, <1>7, <1>10 DEF CatalystTable, key
<1>. DEFINE leads == Now(q)
            n == Len(q.rows)
<1>12. DOMAIN q.rows = 1 .. n /\ n \in Nat /\ \A i \in 1 .. n : q.rows[i] \in FactRow
  BY <1>9
<1>13. DOMAIN leads = 1 .. n /\ \A i \in 1 .. n : leads[i] \in FactRow
  <2>1. DOMAIN leads = 1 .. n
    BY <1>12
  <2>2. ASSUME NEW i \in 1 .. n PROVE leads[i] \in FactRow
    <3>. DEFINE lead == IF q.rows[i].lead = NoDate THEN q.rows[i].lead ELSE q.rows[i].lead - q.age
    <3>1. q.rows[i] \in FactRow
      BY <1>12
    <3>2. lead \in Int
      BY <1>9, <3>1 DEF FactRow
    <3>3. leads[i] = [q.rows[i] EXCEPT !.lead = lead]
      BY <1>12
    <3>. HIDE DEF lead, leads
    <3>. QED
      BY <3>1, <3>2, <3>3 DEF FactRow
  <2>. QED
    BY <2>1, <2>2, Zenon
<1>. DEFINE on == SpokenOf(q)
            pick == Pick(leads)
<1>14. on.pick = pick /\ on.known = leads
  OBVIOUS
<1>. HIDE DEF leads, on
<1>15. Picked(pick, leads, n)
  <2>1. \A i \in 1 .. n : leads[i].lead \in Int
    BY <1>13 DEF FactRow
  <2>. QED
    BY <1>12, <1>13, <2>1, PickIs
<1>. HIDE DEF n, pick
<1>16. \A d \in ToSet(leads) : \E j \in 1 .. n : d = leads[j]
  BY <1>13 DEF ToSet
<1>17. /\ pick = {} => \A d \in ToSet(leads) : ~InWindow(d)
       /\ \A c \in pick : c \in FactRow /\ InWindow(c)
       /\ \A c \in pick : pick = {c}
       /\ \A c \in pick : \A d \in ToSet(leads) : InWindow(d) /\ c.lead # 0 => d.lead <= c.lead
  <2>1. CASE pick = {} /\ \A j \in 1 .. n : ~InWindow(leads[j])
    BY <1>16, <2>1
  <2>2. ASSUME NEW k \in 1 .. n, pick = {leads[k]}, InWindow(leads[k]),
               \A j \in 1 .. n : InWindow(leads[j]) /\ leads[k].lead # 0 => leads[j].lead <= leads[k].lead
        PROVE  /\ pick = {} => \A d \in ToSet(leads) : ~InWindow(d)
               /\ \A c \in pick : c \in FactRow /\ InWindow(c)
               /\ \A c \in pick : pick = {c}
               /\ \A c \in pick : \A d \in ToSet(leads) : InWindow(d) /\ c.lead # 0 => d.lead <= c.lead
    BY <1>13, <1>16, <2>2
  <2>. QED
    BY <1>15, <2>1, <2>2 DEF Picked
<1>18. ASSUME NEW c \in pick, NEW d \in ToSet(leads), InWindow(d)
       PROVE  c.lead < 0 => d.lead <= 0
  <2>1. d \in FactRow /\ c \in FactRow /\ c.lead \in Int /\ d.lead \in Int
    BY <1>13, <1>16, <1>17 DEF FactRow
  <2>2. c.lead # 0 => d.lead <= c.lead
    BY <1>17, <1>18
  <2>. QED
    BY <2>1, <2>2
<1>19. AheadBeatsBehind'
  <2>1. row'.on = on
    BY <1>5 DEF on
  <2>2. on.pick = {} => {c \in ToSet(on.known) : InWindow(c)} = {}
    BY <1>14, <1>17
  <2>3. \A c \in on.pick, d \in {c \in ToSet(on.known) : InWindow(c)} :
            c.lead < 0 => d.lead <= 0
    BY <1>14, <1>18
  <2>. QED
    BY <2>1, <2>2, <2>3, Zenon DEF AheadBeatsBehind
<1>20. BlockerIsTold' /\ LiveRowsHaveCause'
  BY <1>5 DEF BlockerIsTold, LiveRowsHaveCause
<1>. QED
  BY <1>5, <1>11, <1>19, <1>20 DEF CatalystsTellAhead

\* A unit later the rows are the same, only older or nearer.
LEMMA CatalystsAge ==
    ASSUME CatalystTable, CatalystsElapse
    PROVE  lane' = lane /\ CatalystTable' /\ row' = NoRow
<1>1. FrameElapses /\ row' = NoRow /\ lane' = lane
  BY Zenon DEF CatalystsElapse, FrameElapses
<1>2. /\ CacheTyped(cache')
      /\ \A k \in DOMAIN cache' : k \in DOMAIN cache /\ cache'[k].value = cache[k].value
  BY <1>1, CacheAges DEF CatalystTable
<1>. DEFINE f == [c \in catalysts |->
                     [c EXCEPT !.age = Older(@, StaleAfter + 1),
                               !.due = IF @ \in {NoDate, -Furthest} THEN @ ELSE @ - 1]]
<1>3. catalysts' = {f[c] : c \in catalysts} /\ f = [c \in catalysts |-> f[c]]
  BY Zenon DEF CatalystsElapse
<1>4. ASSUME NEW c \in catalysts PROVE f[c] \in CatRow
  <2>. DEFINE age == Older(c.age, StaleAfter + 1)
              due == IF c.due \in {NoDate, -Furthest} THEN c.due ELSE c.due - 1
  <2>1. c \in CatRow
    BY DEF CatalystTable
  <2>2. age \in Nat
    BY <2>1, CatalystAssumption DEF CatRow, Older
  <2>3. due \in Int
    BY <2>1 DEF CatRow
  <2>4. f[c] = [c EXCEPT !.age = age, !.due = due]
    OBVIOUS
  <2>. HIDE DEF age, due, f
  <2>5. [c EXCEPT !.age = age] \in CatRow
    BY <2>1, <2>2 DEF CatRow
  <2>6. [c EXCEPT !.age = age, !.due = due] \in CatRow
    BY <2>3, <2>5, Zenon DEF CatRow
  <2>. QED
    BY <2>4, <2>6
<1>. HIDE DEF f
<1>5. catalysts' \subseteq CatRow /\ IsFiniteSet(catalysts')
  BY <1>3, <1>4, ImageFinite DEF CatalystTable
<1>. QED
  BY <1>1, <1>2, <1>5 DEF CatalystTable

\* Every step of catalystwindow's lane keeps its invariant.
LEMMA CatalystStep ==
    ASSUME lane \in Lanes, lane = "catalyst", CatalystInv, CatalystsNext
    PROVE  lane' = lane /\ CatalystInv'
<1>1. CatalystTable
  BY DEF CatalystInv
<1>2. ASSUME NEW reply \in Replies, NoAnswer \in reply, ImportFails PROVE lane' = lane /\ CatalystInv'
  <2>1. /\ row'.by = "importer" /\ row'.failed /\ lane' = lane /\ cache' = cache /\ catalysts' = catalysts
    BY <1>2 DEF ImportFails, Verdict
  <2>2. CatalystTable'
    BY <1>1, <2>1 DEF CatalystTable
  <2>3. CatalystsTellAhead'
    BY <2>1 DEF CatalystsTellAhead, AheadBeatsBehind, LiveRowsHaveCause, BlockerIsTold
  <2>. QED
    BY <2>1, <2>2, <2>3 DEF CatalystInv
<1>3. ASSUME NEW reply \in Replies, NoAnswer \notin reply, NEW listed \in BOOLEAN, NEW failing,
             ImportCycle(reply, listed, failing)
      PROVE  lane' = lane /\ CatalystInv'
  <2>1. reply \in SUBSET Drafts
    BY <1>3 DEF Replies, kSubset
  <2>2. lane' = lane /\ CatalystTable' /\ row'.by = "importer" /\ CatalystsTellAhead'
    BY <1>1, <1>3, <2>1, ImportStep
  <2>. QED
    BY <2>2 DEF CatalystInv
<1>4. ASSUME NEW failed \in BOOLEAN, AskBlocker(failed) PROVE lane' = lane /\ CatalystInv'
  <2>2. lane' = lane /\ CatalystTable' /\ row'.by = "blocker" /\ CatalystsTellAhead'
    BY <1>1, <1>4, BlockerStep
  <2>. QED
    BY <2>2 DEF CatalystInv
<1>5. ASSUME AskCatalyst PROVE lane' = lane /\ CatalystInv'
  <2>2. lane' = lane /\ CatalystTable' /\ row'.by = "catalystwindow" /\ CatalystsTellAhead'
    BY <1>1, <1>5, CatalystAsked
  <2>. QED
    BY <2>2 DEF CatalystInv
<1>6. ASSUME CatalystsElapse PROVE lane' = lane /\ CatalystInv'
  <2>1. lane' = lane /\ CatalystTable' /\ row' = NoRow
    BY <1>1, <1>6, CatalystsAge
  <2>. QED
    BY <2>1 DEF CatalystInv
<1>7. TRUE \in BOOLEAN /\ FALSE \in BOOLEAN
  OBVIOUS
<1>. QED
  BY <1>2, <1>3, <1>4, <1>5, <1>6, <1>7, Zenon DEF CatalystsNext

-----------------------------------------------------------------------------
(* What an alert says of its wallet and market *)

\* No window of the context reaches as far as the horizon.
LEMMA HorizonIs ==
    Horizon \in Nat /\ Horizon > BaselineWindow
<1>. DEFINE S == {BaselineWindow, TraderWindow, MM.lookback, New.age, LiveAlertMaxLag + Dormant.idle,
                  LiveAlertMaxLag + Quiet.idle}
            f == [i \in 1 .. 6 |-> CASE i = 1 -> BaselineWindow [] i = 2 -> TraderWindow [] i = 3 -> MM.lookback
                                     [] i = 4 -> New.age [] i = 5 -> LiveAlertMaxLag + Dormant.idle
                                     [] i = 6 -> LiveAlertMaxLag + Quiet.idle]
<1>1. S \subseteq Nat /\ BaselineWindow \in S
  BY WindowsAssumption
<1>2. IsFiniteSet(S)
  <2>1. S = {f[i] : i \in 1 .. 6}
    <3>1. \A i \in 1 .. 6 : i = 1 \/ i = 2 \/ i = 3 \/ i = 4 \/ i = 5 \/ i = 6
      OBVIOUS
    <3>2. /\ f[1] = BaselineWindow /\ f[2] = TraderWindow /\ f[3] = MM.lookback /\ f[4] = New.age
          /\ f[5] = LiveAlertMaxLag + Dormant.idle /\ f[6] = LiveAlertMaxLag + Quiet.idle
      OBVIOUS
    <3>3. 1 \in 1 .. 6 /\ 2 \in 1 .. 6 /\ 3 \in 1 .. 6 /\ 4 \in 1 .. 6 /\ 5 \in 1 .. 6 /\ 6 \in 1 .. 6
      OBVIOUS
    <3>. HIDE DEF f
    <3>. QED
      BY <3>1, <3>2, <3>3
  <2>2. f = [i \in 1 .. 6 |-> f[i]]
    OBVIOUS
  <2>3. IsFiniteSet(1 .. 6)
    <3>1. 1 \in Int /\ 6 \in Int
      OBVIOUS
    <3>. QED
      BY <3>1, FS_Interval, Zenon
  <2>. HIDE DEF f, S
  <2>. QED
    BY <2>1, <2>2, <2>3, ImageFinite
<1>3. Horizon = Max(S) + 1
  BY DEF Horizon
<1>. HIDE DEF S
<1>4. S \subseteq Int /\ S # {}
  BY <1>1
<1>5. Max(S) \in S /\ \A y \in S : Max(S) >= y
  BY <1>2, <1>4, MaxIs, Zenon
<1>6. Max(S) \in Nat /\ Max(S) >= BaselineWindow /\ BaselineWindow \in Nat
  BY <1>1, <1>5, Zenon
<1>. DEFINE m == Max(S)
<1>. HIDE DEF m
<1>7. m \in Nat /\ m >= BaselineWindow /\ BaselineWindow \in Nat /\ Horizon = m + 1
  BY <1>3, <1>6 DEF m
<1>. QED
  BY <1>7

\* An age stays a number.
LEMMA OlderTyped ==
    ASSUME NEW age \in Nat, NEW cap \in Nat
    PROVE  Older(age, cap) \in Nat
BY DEF Older

\* The trades that are stored, and what is known of the wallets.
TradeCounts(table) ==
    /\ IsFiniteSet(DOMAIN table)
    /\ \A k \in DOMAIN table : k = <<k[1], k[2]>> /\ k[2] \in Nat /\ table[k] \in Nat

\* The ages of the wallets are numbers.
KnownTyped(seen) == \A w \in DOMAIN seen : seen[w] \in Nat

\* What was read for the trade in hand: unless a read failed, the wallet's recent
\* trades are no more than its history then and those that came since.
HandHolds(hand, table, seen, recent) ==
    /\ hand.of \in DOMAIN table /\ hand.of[1].wallet \in DOMAIN seen
    /\ hand = [of |-> hand.of, history |-> hand.history, stats |-> hand.stats, since |-> hand.since,
               failed |-> hand.failed]
    /\ hand.history \in Int /\ hand.since \in Nat
    /\ hand.failed \/ recent <= hand.history + hand.since

\* A wallet's trades within the window of the traders.
RecentOf(table, w) ==
    Total(table, {k \in DOMAIN table : k[1].wallet = w /\ k[2] <= TraderWindow})

\* The tables of the context, and the trade in hand.
ContextTable ==
    /\ TradeCounts(stored) /\ KnownTyped(known)
    /\ \A k \in Trades : k[1].wallet \in DOMAIN known
    /\ asked # Nothing => HandHolds(asked, stored, known, RecentOf(stored, asked.of[1].wallet))

\* The context of an alert: the tables, and that what it says is so.
ContextInv ==
    lane = "context" =>
        /\ ContextTable
        /\ row # NoRow => row.by \in {"single", "line"} /\ ContextIsTrue

\* Sums over parts of the trades.
LEMMA CountTyped ==
    ASSUME TradeCounts(stored), NEW kinds \in SUBSET Trades
    PROVE  /\ CountOf(kinds) \in Nat /\ IsFiniteSet(kinds)
           /\ CountOf(kinds) > 0 => kinds # {}
<1>1. IsFiniteSet(kinds) /\ \A k \in kinds : stored[k] \in Nat
  BY FS_Subset DEF TradeCounts, Trades
<1>2. CountOf(kinds) \in Nat
  BY <1>1, TotalNat DEF CountOf
<1>3. CountOf({}) = 0
  BY TotalEmpty DEF CountOf
<1>. QED
  BY <1>1, <1>2, <1>3

\* Part of some trades is no more than them.
LEMMA CountMono ==
    ASSUME TradeCounts(stored), NEW kinds \in SUBSET Trades, NEW part \in SUBSET kinds
    PROVE  CountOf(part) <= CountOf(kinds)
<1>1. IsFiniteSet(kinds) /\ \A k \in kinds : stored[k] \in Nat
  BY FS_Subset DEF TradeCounts, Trades
<1>. QED
  BY <1>1, TotalMono DEF CountOf

\* The last trade before a moment.
LEMMA LastBeforeIs ==
    ASSUME TradeCounts(stored), NEW kinds \in SUBSET Trades, NEW a \in Nat, NEW idle \in Nat
    PROVE  /\ (\A l \in LastBefore(kinds, a) : l - a >= idle) => StillBefore(kinds, a, idle)
           /\ \A l \in LastBefore(kinds, a) : \E k \in kinds : k[2] = l
           /\ \A l, m \in LastBefore(kinds, a) : l = m
<1>. DEFINE later == {k \in kinds : k[2] > a}
            f == [k \in later |-> k[2]]
            earlier == {f[k] : k \in later}
<1>1. later \subseteq Trades /\ \A k \in kinds : k[2] \in Nat
  BY DEF TradeCounts, Trades
<1>2. IsFiniteSet(later)
  <2>. HIDE DEF later
  <2>. QED
    BY <1>1, FS_Subset DEF TradeCounts, Trades
<1>3. f = [k \in later |-> f[k]] /\ \A k \in later : f[k] = k[2]
  OBVIOUS
<1>4. {k[2] : k \in {k \in kinds : k[2] > a}} = earlier
  <2>1. {k[2] : k \in later} = {f[k] : k \in later}
    <3>. HIDE DEF later
    <3>. QED
      OBVIOUS
  <2>. QED
    BY <2>1
<1>. HIDE DEF f
<1>5. IsFiniteSet(earlier)
  <2>. HIDE DEF later
  <2>. QED
    BY <1>2, <1>3, ImageFinite
<1>6. \A l \in earlier : l \in Int /\ \E k \in kinds : k[2] = l
  BY <1>1, <1>3
<1>7. \A k \in kinds : k[2] > a => k[2] \in earlier
  BY <1>3, Zenon
<1>8. LastBefore(kinds, a) = IF earlier = {} THEN {} ELSE {Min(earlier)}
  <2>. HIDE DEF earlier
  <2>. QED
    BY <1>4, Zenon DEF LastBefore
<1>. HIDE DEF earlier
<1>9. CASE earlier = {}
  <2>1. \A k \in kinds : ~(a < k[2])
    BY <1>1, <1>7, <1>9
  <2>. QED
    BY <1>8, <1>9, <2>1 DEF StillBefore
<1>10. CASE earlier # {}
  <2>1. earlier \subseteq Int
    BY <1>6
  <2>2. Min(earlier) \in earlier /\ \A y \in earlier : Min(earlier) <= y
    BY <1>5, <1>10, <2>1, MinIs, Zenon
  <2>3. LastBefore(kinds, a) = {Min(earlier)}
    BY <1>8, <1>10
  <2>. DEFINE l == Min(earlier)
  <2>. HIDE DEF l
  <2>4. l \in earlier /\ l \in Int /\ LastBefore(kinds, a) = {l} /\ \A y \in earlier : l <= y
    BY <2>1, <2>2, <2>3, Zenon DEF l
  <2>5. ASSUME l - a >= idle, NEW k \in kinds, a < k[2] PROVE ~(k[2] < a + idle)
    <3>1. k[2] \in Nat /\ k[2] \in earlier
      BY <1>1, <1>7, <2>5
    <3>2. l <= k[2]
      BY <2>4, <3>1
    <3>. QED
      BY <2>4, <2>5, <3>1, <3>2
  <2>6. l - a >= idle => StillBefore(kinds, a, idle)
    BY <2>5 DEF StillBefore
  <2>. QED
    BY <1>6, <2>4, <2>6
<1>. QED
  BY <1>9, <1>10

\* One trade more: where it is counted, it is counted once.
OneMore(table, x) ==
    [k \in DOMAIN table \cup {x} |-> (IF k \in DOMAIN table THEN table[k] ELSE 0) + (IF k = x THEN 1 ELSE 0)]

\* A table with one trade more has the others as they were, ...
LEMMA OneMoreTyped ==
    ASSUME NEW table, TradeCounts(table), NEW x, x = <<x[1], x[2]>>, x[2] \in Nat
    PROVE  /\ TradeCounts(OneMore(table, x)) /\ DOMAIN OneMore(table, x) = DOMAIN table \cup {x}
           /\ \A k \in DOMAIN table \ {x} : OneMore(table, x)[k] = table[k]
           /\ x \in DOMAIN table => OneMore(table, x)[x] = table[x] + 1
           /\ x \notin DOMAIN table => OneMore(table, x)[x] = 1
<1>. DEFINE next == OneMore(table, x)
<1>1. next = [k \in DOMAIN table \cup {x} |-> (IF k \in DOMAIN table THEN table[k] ELSE 0) + (IF k = x THEN 1 ELSE 0)]
  BY DEF OneMore
<1>2. \A k \in DOMAIN table : k = <<k[1], k[2]>> /\ k[2] \in Nat /\ table[k] \in Nat
  BY DEF TradeCounts
<1>. HIDE DEF next
<1>3. DOMAIN next = DOMAIN table \cup {x}
  BY <1>1
<1>4. ASSUME NEW k \in DOMAIN table \ {x} PROVE next[k] = table[k] /\ next[k] \in Nat
  BY <1>1, <1>2
<1>5. x \in DOMAIN table => next[x] = table[x] + 1 /\ next[x] \in Nat
  BY <1>1, <1>2
<1>6. x \notin DOMAIN table => next[x] = 1 /\ next[x] \in Nat
  BY <1>1
<1>7. IsFiniteSet(DOMAIN next)
  BY <1>3, FS_AddElement DEF TradeCounts
<1>8. \A k \in DOMAIN next : k = <<k[1], k[2]>> /\ k[2] \in Nat /\ next[k] \in Nat
  BY <1>2, <1>3, <1>4, <1>5, <1>6
<1>. QED
  BY <1>3, <1>4, <1>5, <1>6, <1>7, <1>8 DEF TradeCounts, next

\* ... and counts it once where it is counted.
LEMMA OneMoreCounts ==
    ASSUME NEW table, TradeCounts(table), NEW x, x = <<x[1], x[2]>>, x[2] \in Nat,
           NEW kinds \in SUBSET DOMAIN table
    PROVE  /\ x \notin kinds => Total(OneMore(table, x), kinds) = Total(table, kinds)
           /\ Total(OneMore(table, x), kinds \cup {x}) <= Total(table, kinds) + 1
              \/ (x \in DOMAIN table /\ x \notin kinds)
<1>. DEFINE next == OneMore(table, x)
<1>1. /\ \A k \in DOMAIN table \ {x} : next[k] = table[k]
      /\ x \in DOMAIN table => next[x] = table[x] + 1
      /\ x \notin DOMAIN table => next[x] = 1
      /\ DOMAIN next = DOMAIN table \cup {x}
      /\ \A k \in DOMAIN next : next[k] \in Nat
  BY OneMoreTyped, Zenon DEF TradeCounts
<1>2. /\ IsFiniteSet(kinds) /\ IsFiniteSet(kinds \ {x}) /\ \A k \in kinds : table[k] \in Nat
  BY FS_Subset DEF TradeCounts
<1>. HIDE DEF next
<1>3. Total(next, kinds \ {x}) = Total(table, kinds \ {x})
  BY <1>1, <1>2, TotalSame
<1>4. Total(next, (kinds \ {x}) \cup {x}) = Total(next, kinds \ {x}) + next[x]
  BY <1>1, <1>2, TotalAdd
<1>5. Total(next, kinds \ {x}) \in Int /\ Total(table, kinds \ {x}) \in Int
  BY <1>1, <1>2, TotalInt
<1>6. CASE x \notin kinds
  <2>1. kinds \ {x} = kinds
    BY <1>6
  <2>. QED
    BY <1>1, <1>3, <1>4, <1>5, <1>6, <2>1 DEF next
<1>7. CASE x \in kinds
  <2>1. (kinds \ {x}) \cup {x} = kinds /\ kinds \cup {x} = kinds
    BY <1>7
  <2>2. Total(table, (kinds \ {x}) \cup {x}) = Total(table, kinds \ {x}) + table[x]
    BY <1>2, <1>7, TotalAdd
  <2>3. next[x] = table[x] + 1 /\ table[x] \in Nat
    BY <1>1, <1>2, <1>7
  <2>. QED
    BY <1>3, <1>4, <1>5, <1>7, <2>1, <2>2, <2>3 DEF next
<1>. QED
  BY <1>6, <1>7

-----------------------------------------------------------------------------
(* What an alert claims, by the tables alone *)

\* What an alert says of its wallet and market, by the tables alone.
ClaimOn(r, table, seen) ==
    LET o == r.on  mine == {k \in DOMAIN table : k[1].wallet = o.wallet} IN
    /\ ~r.fired => OnSide(mine, "BUY") # {} /\ OnSide(mine, "SELL") # {}
    /\ o.dormant =>
           /\ ~o.new
           /\ StillBefore(mine, o.at, Dormant.idle)
           /\ \E k \in mine : k[2] >= o.at + Dormant.idle
           /\ "first" \notin o.lost => seen[o.wallet] > New.age
    /\ o.new => \/ seen[o.wallet] <= New.age \/ r.failed
                \/ Total(table, Within(mine, TraderWindow)) - o.since <= New.trades
    /\ (o.quiet /\ "last" \notin o.lost) => StillBefore(DOMAIN table, o.at, Quiet.idle)
    /\ o.share <= 100
    /\ o.share > 0 => Total(table, OnSide(mine, "BUY")) > Total(table, OnSide(mine, "SELL"))

\* A wallet that is silenced as two-sided did trade on both sides.
LEMMA SilencedIs ==
    ASSUME TradeCounts(stored), NEW w, NEW missed, TwoSided(w, missed)
    PROVE  OnSide(TradesOf(w), "BUY") # {} /\ OnSide(TradesOf(w), "SELL") # {}
<1>. DEFINE recent == Within(TradesOf(w), MM.lookback)
            b == OnSide(recent, "BUY")
            c == OnSide(recent, "SELL")
<1>1. BothSides(w)["BUY"].count = CountOf(b) /\ BothSides(w)["SELL"].count = CountOf(c)
  BY DEF BothSides
<1>2. CountOf(b) >= MM.perSide /\ CountOf(c) >= MM.perSide
  BY <1>1 DEF TwoSided
<1>3. b \in SUBSET Trades /\ c \in SUBSET Trades
  BY DEF OnSide, Within, TradesOf
<1>4. b \subseteq OnSide(TradesOf(w), "BUY") /\ c \subseteq OnSide(TradesOf(w), "SELL")
  BY DEF OnSide, Within
<1>. HIDE DEF b, c
<1>5. CountOf(b) \in Nat /\ CountOf(c) \in Nat /\ MM.perSide \in Nat /\ MM.perSide > 0
  BY <1>3, CountTyped, ContextAssumption
<1>6. CountOf(b) > 0 /\ CountOf(c) > 0
  BY <1>2, <1>5
<1>7. b # {} /\ c # {}
  BY <1>3, <1>6, CountTyped
<1>. QED
  BY <1>4, <1>7

\* A wallet that is back after long did rest that long, after an earlier trade.
LEMMA DormantIs ==
    ASSUME TradeCounts(stored), NEW w, NEW usd, NEW a \in Nat, NEW isNew, NEW missed,
           BackAfterLong(w, usd, a, isNew, missed)
    PROVE  /\ ~isNew /\ StillBefore(TradesOf(w), a, Dormant.idle)
           /\ \E k \in TradesOf(w) : k[2] >= a + Dormant.idle
<1>1. PICK l \in LastBefore(TradesOf(w), a) : l - a >= Dormant.idle
  BY DEF BackAfterLong, WalletLast
<1>2. TradesOf(w) \in SUBSET Trades /\ Dormant.idle \in Nat
  BY WindowsAssumption DEF TradesOf
<1>3. /\ (\A m \in LastBefore(TradesOf(w), a) : m - a >= Dormant.idle)
            => StillBefore(TradesOf(w), a, Dormant.idle)
      /\ \A m \in LastBefore(TradesOf(w), a) : \E k \in TradesOf(w) : k[2] = m
      /\ \A m, n \in LastBefore(TradesOf(w), a) : m = n
  BY <1>2, LastBeforeIs, Zenon
<1>4. PICK k \in TradesOf(w) : k[2] = l
  BY <1>1, <1>3
<1>5. k[2] \in Nat
  BY DEF TradeCounts, TradesOf, Trades
<1>6. k[2] >= a + Dormant.idle
  BY <1>1, <1>2, <1>4, <1>5
<1>7. \A m \in LastBefore(TradesOf(w), a) : m - a >= Dormant.idle
  BY <1>1, <1>3, Zenon
<1>. QED
  BY <1>3, <1>4, <1>6, <1>7 DEF BackAfterLong

\* A market that was quiet had no trade that long.
LEMMA QuietIs ==
    ASSUME TradeCounts(stored), NEW stats, NEW usd, NEW a \in Nat, NEW missed,
           WasQuiet(stats, usd, a, missed), "last" \notin missed
    PROVE  StillBefore(Trades, a, Quiet.idle)
<1>1. \A l \in LastBefore(Trades, a) : l - a >= Quiet.idle
  BY DEF WasQuiet, LastKnown, MarketLast
<1>2. Quiet.idle \in Nat /\ Trades \in SUBSET Trades
  BY WindowsAssumption
<1>. QED
  BY <1>1, <1>2, LastBeforeIs

\* A part is no more than the whole, in per cent.
LEMMA PartOfAll ==
    ASSUME NEW n \in Nat, NEW e \in Nat, n > 0, n <= e
    PROVE  (100 * n) \div e <= 100
OBVIOUS

\* The share of the buyers is a share, and there is one only where they are more.
LEMMA ShareIs ==
    ASSUME TradeCounts(stored), NEW w, NEW missed
    PROVE  /\ Share(w, missed) <= 100
           /\ Share(w, missed) > 0 => CountOf(OnSide(TradesOf(w), "BUY")) > CountOf(OnSide(TradesOf(w), "SELL"))
<1>. DEFINE b == OnSide(TradesOf(w), "BUY")
            c == OnSide(TradesOf(w), "SELL")
            all == OnSide(Trades, "BUY")
<1>1. b \in SUBSET all /\ all \in SUBSET Trades /\ b \in SUBSET Trades /\ c \in SUBSET Trades
  BY DEF OnSide, TradesOf
<1>2. NetBought(w) = CountOf(b) - CountOf(c) /\ EverBought = CountOf(all)
  BY DEF NetBought, EverBought
<1>. HIDE DEF b, c, all
<1>3. CountOf(b) \in Nat /\ CountOf(c) \in Nat /\ CountOf(all) \in Nat /\ CountOf(b) <= CountOf(all)
  BY <1>1, CountTyped, CountMono
<1>. DEFINE n == NetBought(w)
            e == EverBought
<1>4. n > 0 => n \in Nat /\ e \in Nat /\ n <= e /\ CountOf(b) > CountOf(c)
  BY <1>2, <1>3
<1>5. Share(w, missed) = IF "shares" \notin missed /\ n > 0 THEN (100 * n) \div e ELSE 0
  BY DEF Share
<1>. HIDE DEF n, e
<1>6. n > 0 => (100 * n) \div e <= 100
  BY <1>4, PartOfAll
<1>7. CASE "shares" \notin missed /\ n > 0
  BY <1>4, <1>5, <1>6, <1>7 DEF b, c
<1>8. CASE ~("shares" \notin missed /\ n > 0)
  BY <1>5, <1>8
<1>. QED
  BY <1>7, <1>8

-----------------------------------------------------------------------------
(* The steps of the context lane *)

\* What may be said of the trade in hand.
MaySay(silenced, quiet, new, dormant, share, a, missed) ==
    /\ silenced => TwoSided(asked.of[1].wallet, missed)
    /\ new => IsNew(asked.of[1].wallet, asked.history, missed)
    /\ \E usd : dormant => BackAfterLong(asked.of[1].wallet, usd, a,
                                          IsNew(asked.of[1].wallet, asked.history, missed), missed)
    /\ dormant => ~new /\ ~IsNew(asked.of[1].wallet, asked.history, missed)
    /\ \E stats, usd : quiet => WasQuiet(stats, usd, a, missed)
    /\ share = 0 \/ share = Share(asked.of[1].wallet, missed)

\* What the trade in hand comes to is a true claim.
LEMMA SaidIsTrue ==
    ASSUME ContextTable, asked # Nothing, NEW r, NEW by, NEW silenced \in BOOLEAN, NEW quiet \in BOOLEAN,
           NEW new \in BOOLEAN, NEW dormant \in BOOLEAN, NEW share, NEW missed, NEW a \in Nat,
           NEW w, w = asked.of[1].wallet,
           r.by = by, r.fired <=> ~silenced, asked.failed => r.failed,
           r.on = [wallet |-> w, at |-> a, since |-> asked.since, quiet |-> quiet, new |-> new,
                   dormant |-> dormant, share |-> share, lost |-> missed],
           MaySay(silenced, quiet, new, dormant, share, a, missed)
    PROVE  ClaimOn(r, stored, known) /\ r.by = by
<1>. DEFINE o == r.on
            mine == {k \in DOMAIN stored : k[1].wallet = w}
<1>1. /\ r.by = by /\ (r.fired <=> ~silenced) /\ (asked.failed => r.failed)
      /\ o.wallet = w /\ o.at = a /\ o.since = asked.since /\ o.quiet = quiet /\ o.new = new
      /\ o.dormant = dormant /\ o.share = share /\ o.lost = missed
  BY DEF Verdict
<1>2. mine = TradesOf(w) /\ Trades = DOMAIN stored
  BY DEF TradesOf, Trades
<1>3. TradeCounts(stored) /\ w \in DOMAIN known /\ known[w] \in Nat /\ New.age \in Nat
  BY WindowsAssumption DEF ContextTable, HandHolds, KnownTyped
<1>4. /\ asked.history \in Int /\ asked.since \in Nat
      /\ asked.failed \/ RecentOf(stored, w) <= asked.history + asked.since
  BY DEF ContextTable, HandHolds
<1>5. RecentOf(stored, w) = Total(stored, Within(mine, TraderWindow)) /\ RecentOf(stored, w) \in Nat
  <2>1. Within(TradesOf(w), TraderWindow) \in SUBSET Trades
    BY DEF Within, TradesOf
  <2>2. Within(mine, TraderWindow) = {k \in DOMAIN stored : k[1].wallet = w /\ k[2] <= TraderWindow}
    BY DEF Within
  <2>3. RecentOf(stored, w) = Total(stored, Within(mine, TraderWindow))
    BY <2>2, Zenon DEF RecentOf
  <2>. HIDE DEF mine
  <2>4. Total(stored, Within(mine, TraderWindow)) \in Nat
    BY <1>2, <1>3, <2>1, CountTyped DEF CountOf
  <2>. QED
    BY <2>3, <2>4
<1>. HIDE DEF mine, o
<1>. DEFINE is == IsNew(w, asked.history, missed)
<1>12. /\ silenced => TwoSided(w, missed)
       /\ new => is /\ (dormant => ~new /\ ~is)
       /\ \E usd : dormant => BackAfterLong(w, usd, a, is, missed)
       /\ \E stats, usd : quiet => WasQuiet(stats, usd, a, missed)
       /\ share = 0 \/ share = Share(w, missed)
  BY Zenon DEF MaySay
<1>6. silenced => OnSide(mine, "BUY") # {} /\ OnSide(mine, "SELL") # {}
  BY <1>2, <1>3, <1>12, SilencedIs
<1>7. ASSUME dormant
      PROVE  /\ ~new /\ StillBefore(mine, a, Dormant.idle)
             /\ \E k \in mine : k[2] >= a + Dormant.idle
             /\ "first" \notin missed => known[w] > New.age
  <2>1. PICK usd : BackAfterLong(w, usd, a, IsNew(w, asked.history, missed), missed)
    BY <1>7, <1>12
  <2>2. StillBefore(mine, a, Dormant.idle) /\ \E k \in mine : k[2] >= a + Dormant.idle
    BY <1>2, <1>3, <2>1, DormantIs
  <2>3. ~new /\ ~IsNew(w, asked.history, missed)
    BY <1>7, Zenon DEF MaySay
  <2>4. "first" \notin missed => ~(known[w] <= New.age)
    BY <2>3 DEF IsNew, KnownFor
  <2>. QED
    BY <1>3, <2>2, <2>3, <2>4
<1>8. ASSUME new
      PROVE  \/ known[w] <= New.age \/ asked.failed
             \/ Total(stored, Within(mine, TraderWindow)) - asked.since <= New.trades
  <2>1. known[w] <= New.age \/ asked.history <= New.trades
    BY <1>8, <1>12 DEF IsNew, KnownFor
  <2>2. New.trades \in Nat
    BY ContextAssumption
  <2>. QED
    BY <1>4, <1>5, <2>1, <2>2
<1>9. (quiet /\ "last" \notin missed) => StillBefore(DOMAIN stored, a, Quiet.idle)
  BY <1>2, <1>3, <1>12, QuietIs
<1>10. share <= 100 /\ (share > 0 => Total(stored, OnSide(mine, "BUY")) > Total(stored, OnSide(mine, "SELL")))
  <2>1. /\ Share(w, missed) <= 100
        /\ Share(w, missed) > 0 => CountOf(OnSide(mine, "BUY")) > CountOf(OnSide(mine, "SELL"))
    BY <1>2, <1>3, ShareIs
  <2>2. CASE share = 0
    BY <2>2
  <2>3. CASE share = Share(w, missed)
    BY <2>1, <2>3 DEF CountOf
  <2>. QED
    BY <1>12, <2>2, <2>3
<1>11. ClaimOn(r, stored, known) <=>
        /\ ~r.fired => OnSide(mine, "BUY") # {} /\ OnSide(mine, "SELL") # {}
        /\ o.dormant =>
               /\ ~o.new
               /\ StillBefore(mine, o.at, Dormant.idle)
               /\ \E k \in mine : k[2] >= o.at + Dormant.idle
               /\ "first" \notin o.lost => known[o.wallet] > New.age
        /\ o.new => \/ known[o.wallet] <= New.age \/ r.failed
                    \/ Total(stored, Within(mine, TraderWindow)) - o.since <= New.trades
        /\ (o.quiet /\ "last" \notin o.lost) => StillBefore(DOMAIN stored, o.at, Quiet.idle)
        /\ o.share <= 100
        /\ o.share > 0 => Total(stored, OnSide(mine, "BUY")) > Total(stored, OnSide(mine, "SELL"))
  <2>1. mine = {k \in DOMAIN stored : k[1].wallet = o.wallet} /\ o = r.on
    BY <1>1 DEF mine, o
  <2>. QED
    BY <2>1, ZenonT(60) DEF ClaimOn
<1>. HIDE DEF ClaimOn
<1>. QED
  BY <1>1, <1>6, <1>7, <1>8, <1>9, <1>10, <1>11, ZenonT(60)

\* A trade that comes is one more of its wallet's, and of nobody else's.
LEMMA ArrivesKeeps ==
    ASSUME ContextTable, NEW s, NEW a \in Nat, Arrives(s, a)
    PROVE  ContextTable' /\ row' = NoRow /\ lane' = lane
<1>. DEFINE x == <<s, a>>
<1>1. /\ TradeCounts(stored) /\ KnownTyped(known)
      /\ \A k \in Trades : k[1].wallet \in DOMAIN known
      /\ asked # Nothing => HandHolds(asked, stored, known, RecentOf(stored, asked.of[1].wallet))
  BY DEF ContextTable
<1>2. /\ stored' = OneMore(stored, x) /\ known' = Seen(s.wallet)
      /\ asked' = IF asked # Nothing /\ asked.of[1].wallet = s.wallet
                  THEN [asked EXCEPT !.since = @ + 1] ELSE asked
      /\ row' = NoRow /\ lane' = lane
  BY DEF Arrives, OneMore, Trades, Background
<1>3. x = <<x[1], x[2]>> /\ x[2] \in Nat /\ x[1] = s /\ x[2] = a
  OBVIOUS
<1>. HIDE DEF x
<1>4. TradeCounts(stored') /\ DOMAIN stored' = DOMAIN stored \cup {x}
  BY <1>1, <1>2, <1>3, OneMoreTyped, Zenon
<1>5. /\ DOMAIN known' = DOMAIN known \cup {s.wallet}
      /\ \A w \in DOMAIN known' : known'[w] = IF w \in DOMAIN known THEN known[w] ELSE 0
  BY <1>2 DEF Seen
<1>6. KnownTyped(known')
  BY <1>1, <1>5 DEF KnownTyped
<1>7. \A k \in DOMAIN stored' : k[1].wallet \in DOMAIN known'
  BY <1>1, <1>3, <1>4, <1>5 DEF Trades
<1>8. ASSUME asked # Nothing
      PROVE  HandHolds(asked', stored', known', RecentOf(stored', asked'.of[1].wallet))
  <2>. DEFINE w == asked.of[1].wallet
              part == {k \in DOMAIN stored : k[1].wallet = w /\ k[2] <= TraderWindow}
              grown == {k \in DOMAIN stored' : k[1].wallet = w /\ k[2] <= TraderWindow}
  <2>1. HandHolds(asked, stored, known, RecentOf(stored, w))
    BY <1>1, <1>8
  <2>2. RecentOf(stored, w) = Total(stored, part) /\ RecentOf(stored', w) = Total(stored', grown)
    BY DEF RecentOf
  <2>3. grown = IF s.wallet = w /\ a <= TraderWindow THEN part \cup {x} ELSE part
    BY <1>3, <1>4
  <2>4. part \in SUBSET DOMAIN stored
    OBVIOUS
  <2>5. x \in DOMAIN stored => (x \in part <=> s.wallet = w /\ a <= TraderWindow)
    BY <1>3
  <2>6. x \in part => s.wallet = w /\ a <= TraderWindow
    BY <1>3
  <2>. HIDE DEF part, grown
  <2>7. /\ x \notin part => Total(stored', part) = Total(stored, part)
        /\ Total(stored', part \cup {x}) <= Total(stored, part) + 1 \/ (x \in DOMAIN stored /\ x \notin part)
    BY <1>1, <1>2, <1>3, <2>4, OneMoreCounts
  <2>8. Total(stored', grown) = Total(stored, part) \/ (s.wallet = w /\ Total(stored', grown) <= Total(stored, part) + 1)
    BY <2>3, <2>5, <2>6, <2>7
  <2>9. Total(stored, part) \in Nat /\ Total(stored', grown) \in Nat
    <3>1. IsFiniteSet(part) /\ \A k \in part : stored[k] \in Nat
      BY <1>1, <2>4, FS_Subset DEF TradeCounts
    <3>2. grown \subseteq DOMAIN stored'
      BY DEF grown
    <3>3. IsFiniteSet(grown) /\ \A k \in grown : stored'[k] \in Nat
      BY <1>4, <3>2, FS_Subset DEF TradeCounts
    <3>. QED
      BY <3>1, <3>3, TotalNat
  <2>. DEFINE old == Total(stored, part)
              new == Total(stored', grown)
  <2>10. /\ old = RecentOf(stored, w) /\ new = RecentOf(stored', w) /\ old \in Nat /\ new \in Nat
         /\ new = old \/ (s.wallet = w /\ new <= old + 1)
    BY <2>2, <2>8, <2>9
  <2>. HIDE DEF old, new
  <2>11. /\ asked.of \in DOMAIN stored' /\ w \in DOMAIN known'
         /\ asked = [of |-> asked.of, history |-> asked.history, stats |-> asked.stats, since |-> asked.since,
                     failed |-> asked.failed]
         /\ asked.history \in Int /\ asked.since \in Nat
         /\ asked.failed \/ old <= asked.history + asked.since
    BY <1>4, <1>5, <2>1, <2>10 DEF HandHolds
  <2>12. CASE s.wallet = w
    <3>1. asked' = [of |-> asked.of, history |-> asked.history, stats |-> asked.stats,
                    since |-> asked.since + 1, failed |-> asked.failed]
      BY <1>2, <1>8, <2>11, <2>12
    <3>2. asked.failed \/ new <= asked.history + (asked.since + 1)
      BY <2>10, <2>11
    <3>3. asked'.of = asked.of
      BY <3>1
    <3>4. HandHolds(asked', stored', known', new)
      BY <2>11, <3>1, <3>2 DEF HandHolds
    <3>. QED
      BY <2>10, <3>3, <3>4
  <2>13. CASE s.wallet # w
    <3>1. asked' = asked
      BY <1>2, <2>13
    <3>2. HandHolds(asked, stored', known', new)
      BY <2>10, <2>11, <2>13 DEF HandHolds
    <3>. QED
      BY <2>10, <3>1, <3>2
  <2>. QED
    BY <2>12, <2>13
<1>9. asked' # Nothing => asked # Nothing
  BY <1>2
<1>. QED
  BY <1>2, <1>4, <1>6, <1>7, <1>8, <1>9 DEF ContextTable, Trades

\* Taking a trade in hand keeps the tables, and what was read for it is so.
LEMMA ObservedKeeps ==
    ASSUME ContextTable, NEW k \in Trades, Observed(k)
    PROVE  ContextTable' /\ row' = NoRow /\ lane' = lane
<1>1. PICK past \in {History(k[1].wallet), 0}, stats \in {MarketStats, NoStats} :
          asked' = [of |-> k, history |-> past, stats |-> stats, since |-> 0,
                    failed |-> past = 0 \/ stats = NoStats]
  BY DEF Observed
<1>2. stored' = stored /\ known' = known /\ row' = NoRow /\ lane' = lane
  BY DEF Observed, Background
<1>3. k \in DOMAIN stored /\ k[1].wallet \in DOMAIN known /\ TradeCounts(stored)
  BY DEF ContextTable, Trades
<1>4. RecentOf(stored, k[1].wallet) = History(k[1].wallet) /\ History(k[1].wallet) \in Nat
  <2>. DEFINE part == {l \in DOMAIN stored : l[1].wallet = k[1].wallet /\ l[2] <= TraderWindow}
  <2>1. Within(TradesOf(k[1].wallet), TraderWindow) = part
    BY DEF Within, TradesOf, Trades
  <2>2. part \in SUBSET Trades
    BY DEF Trades
  <2>3. RecentOf(stored, k[1].wallet) = Total(stored, part)
    BY DEF RecentOf
  <2>. HIDE DEF part
  <2>. QED
    BY <1>3, <2>1, <2>2, <2>3, CountTyped DEF History, CountOf
<1>5. past \in Nat /\ (past = 0 \/ past = RecentOf(stored, k[1].wallet))
  BY <1>4
<1>6. /\ asked'.of = k /\ asked'.history = past /\ asked'.stats = stats /\ asked'.since = 0
      /\ asked'.failed = (past = 0 \/ stats = NoStats)
      /\ asked' = [of |-> k, history |-> past, stats |-> stats, since |-> 0,
                   failed |-> past = 0 \/ stats = NoStats]
  BY <1>1
<1>7. asked'.failed \/ RecentOf(stored, k[1].wallet) <= asked'.history + asked'.since
  <2>. DEFINE recent == RecentOf(stored, k[1].wallet)
  <2>1. recent \in Nat /\ past \in Nat /\ (past = 0 \/ past = recent)
    BY <1>4, <1>5
  <2>. HIDE DEF recent
  <2>2. past = 0 \/ recent <= past + 0
    BY <2>1
  <2>3. asked'.failed = (past = 0 \/ stats = NoStats) /\ asked'.history = past /\ asked'.since = 0
    BY <1>6
  <2>. QED
    BY <2>2, <2>3, Zenon DEF recent
<1>8. HandHolds(asked', stored, known, RecentOf(stored, k[1].wallet))
  BY <1>3, <1>5, <1>6, <1>7 DEF HandHolds
<1>. QED
  BY <1>2, <1>6, <1>8 DEF ContextTable, Trades

\* Saying something changes no table.
LEMMA SaysKeeps ==
    ASSUME ContextTable, NEW by, NEW silenced, NEW quiet, NEW new, NEW dormant, NEW share, NEW a, NEW missed,
           Says(by, silenced, quiet, new, dormant, share, a, missed)
    PROVE  ContextTable' /\ lane' = lane /\ stored' = stored /\ known' = known
BY DEF Says, ContextTable, Trades

\* What is said of the trade in hand, when it may be said, is so: ...
LEMMA SaysTrue ==
    ASSUME ContextTable, asked # Nothing, NEW by \in {"single", "line"}, NEW silenced \in BOOLEAN,
           NEW quiet \in BOOLEAN, NEW new \in BOOLEAN, NEW dormant \in BOOLEAN, NEW share, NEW missed,
           NEW a \in Nat, MaySay(silenced, quiet, new, dormant, share, a, missed),
           Says(by, silenced, quiet, new, dormant, share, a, missed)
    PROVE  ContextTable' /\ lane' = lane /\ row'.by \in {"single", "line"} /\ ClaimOn(row', stored', known')
<1>. DEFINE w == asked.of[1].wallet
            r == row'
<1>1. /\ r.by = by /\ (r.fired <=> ~silenced) /\ (asked.failed => r.failed)
      /\ r.on = [wallet |-> w, at |-> a, since |-> asked.since, quiet |-> quiet, new |-> new,
                 dormant |-> dormant, share |-> share, lost |-> missed]
  BY Zenon DEF Says, Verdict
<1>2. w = asked.of[1].wallet /\ by \in {"single", "line"}
  OBVIOUS
<1>. HIDE DEF r, w
<1>3. ClaimOn(r, stored, known) /\ r.by = by
  BY <1>1, <1>2, SaidIsTrue
<1>. QED
  BY <1>3, SaysKeeps DEF r

\* ... by an alert about one trade, ...
LEMMA SingleSays ==
    ASSUME ContextTable, NEW missed, SingleAlert(missed)
    PROVE  ContextTable' /\ lane' = lane /\ row'.by \in {"single", "line"} /\ ClaimOn(row', stored', known')
<1>. DEFINE s == asked.of[1]
            a == asked.of[2]
            isNew == IsNew(s.wallet, asked.history, missed)
            back == BackAfterLong(s.wallet, s.usd, a, isNew, missed)
            quiet == WasQuiet(asked.stats, s.usd, a, missed)
            share == Share(s.wallet, missed)
<1>1. asked # Nothing
  BY DEF SingleAlert
<1>2. IF TwoSided(s.wallet, missed)
      THEN Says("single", TRUE, FALSE, FALSE, FALSE, 0, a, missed)
      ELSE Says("single", FALSE, quiet, isNew, back, share, a, missed)
  BY Zenon DEF SingleAlert
<1>3. a \in Nat
  BY <1>1 DEF ContextTable, HandHolds, TradeCounts
<1>4. isNew \in BOOLEAN /\ back \in BOOLEAN /\ quiet \in BOOLEAN /\ (back => ~isNew)
  BY DEF IsNew, BackAfterLong, WasQuiet
<1>5. CASE TwoSided(s.wallet, missed)
  <2>1. Says("single", TRUE, FALSE, FALSE, FALSE, 0, a, missed)
    BY <1>2, <1>5, Zenon
  <2>2. MaySay(TRUE, FALSE, FALSE, FALSE, 0, a, missed)
    BY <1>5 DEF MaySay
  <2>. HIDE DEF a
  <2>. QED
    BY <1>1, <1>3, <2>1, <2>2, SaysTrue, Zenon
<1>6. CASE ~TwoSided(s.wallet, missed)
  <2>1. Says("single", FALSE, quiet, isNew, back, share, a, missed)
    BY <1>2, <1>6, Zenon
  <2>2. MaySay(FALSE, quiet, isNew, back, share, a, missed)
    <3>1. isNew => IsNew(asked.of[1].wallet, asked.history, missed)
      OBVIOUS
    <3>2. \E usd : back => BackAfterLong(asked.of[1].wallet, usd, a,
                                         IsNew(asked.of[1].wallet, asked.history, missed), missed)
      OBVIOUS
    <3>3. back => ~isNew /\ ~IsNew(asked.of[1].wallet, asked.history, missed)
      BY <1>4
    <3>4. \E stats, usd : quiet => WasQuiet(stats, usd, a, missed)
      OBVIOUS
    <3>. QED
      BY <3>1, <3>2, <3>3, <3>4, Zenon DEF MaySay
  <2>. HIDE DEF a, isNew, back, quiet, share
  <2>. QED
    BY <1>1, <1>3, <1>4, <2>1, <2>2, SaysTrue, Zenon
<1>. QED
  BY <1>5, <1>6

\* ... and by one about a line of trades.
LEMMA LineSays ==
    ASSUME ContextTable, NEW missed, LineAlert(missed)
    PROVE  ContextTable' /\ lane' = lane /\ row'.by \in {"single", "line"} /\ ClaimOn(row', stored', known')
<1>. DEFINE s == asked.of[1]
            line == Within(OnSide(TradesOf(s.wallet), s.side), LineWindow)
            a == Max({k[2] : k \in line})
            own == [count |-> CountOf(line), usd |-> 0, span |-> Span(line), medianTwice |-> 0]
            stats == IF "stats" \in missed THEN own ELSE MarketStats
            isNew == IsNew(s.wallet, asked.history, missed)
            quiet == WasQuiet(stats, UsdOf(line), a, missed)
<1>1. asked # Nothing /\ line # {}
  BY DEF LineAlert
<1>2. Says("line", FALSE, quiet, isNew, FALSE, 0, a, missed)
  BY Zenon DEF LineAlert
<1>4. a \in Nat
  <2>. DEFINE f == [k \in line |-> k[2]]
              ages == {f[k] : k \in line}
  <2>1. line \in SUBSET Trades
    BY DEF Within, OnSide, TradesOf
  <2>2. f = [k \in line |-> f[k]] /\ \A k \in line : f[k] = k[2]
    OBVIOUS
  <2>3. {k[2] : k \in line} = ages
    BY <2>2
  <2>4. \A k \in line : k[2] \in Nat
    BY <2>1 DEF ContextTable, TradeCounts, Trades
  <2>5. ages \subseteq Nat /\ ages \subseteq Int /\ ages # {}
    BY <1>1, <2>2, <2>4
  <2>. HIDE DEF f, line
  <2>6. IsFiniteSet(line)
    BY <2>1, FS_Subset DEF ContextTable, TradeCounts, Trades
  <2>7. IsFiniteSet(ages)
    BY <2>2, <2>6, ImageFinite
  <2>. HIDE DEF ages
  <2>8. Max(ages) \in ages
    BY <2>5, <2>7, MaxIs, Zenon
  <2>. QED
    BY <2>3, <2>5, <2>8, Zenon
<1>5. isNew \in BOOLEAN /\ quiet \in BOOLEAN
  BY DEF IsNew, WasQuiet
<1>6. MaySay(FALSE, quiet, isNew, FALSE, 0, a, missed)
  <2>1. \E st, usd : quiet => WasQuiet(st, usd, a, missed)
    BY Zenon
  <2>2. isNew => IsNew(asked.of[1].wallet, asked.history, missed)
    OBVIOUS
  <2>. QED
    BY <2>1, <2>2, Zenon DEF MaySay
<1>. HIDE DEF a, isNew, quiet, stats, line, own
<1>. QED
  BY <1>1, <1>2, <1>4, <1>5, <1>6, SaysTrue, Zenon

\* A unit later the tables hold the same trades, only older.
LEMMA ContextAges ==
    ASSUME ContextTable, ContextElapses
    PROVE  ContextTable' /\ row' = NoRow /\ lane' = lane
<1>. DEFINE Aged(k) == <<k[1], Older(k[2], Horizon)>>
            f == [k \in Trades |-> Aged(k)]
            keys == {f[k] : k \in Trades}
            Same(j) == {k \in Trades : Aged(k) = j}
<1>1. /\ stored' = [j \in {Aged(k) : k \in Trades} |-> CountOf(Same(j))]
      /\ known' = [w \in DOMAIN known |-> Older(known[w], Horizon)]
      /\ asked' = Nothing /\ row' = NoRow /\ lane' = lane
  BY DEF ContextElapses, FrameElapses
<1>2. f = [k \in Trades |-> f[k]] /\ \A k \in Trades : f[k] = Aged(k)
  OBVIOUS
<1>3. {Aged(k) : k \in Trades} = keys
  BY <1>2
<1>4. DOMAIN stored' = keys
  BY <1>1, <1>3
<1>5. \A j \in keys : stored'[j] = CountOf(Same(j))
  BY <1>1, <1>3
<1>6. ASSUME NEW j \in keys PROVE stored'[j] \in Nat
  <2>1. Same(j) \in SUBSET Trades
    OBVIOUS
  <2>. HIDE DEF Same, keys
  <2>2. CountOf(Same(j)) \in Nat
    BY <2>1, CountTyped DEF ContextTable
  <2>. QED
    BY <1>5, <2>2
<1>7. ASSUME NEW k \in Trades
      PROVE  Aged(k) = <<Aged(k)[1], Aged(k)[2]>> /\ Aged(k)[2] \in Nat /\ Aged(k)[1] = k[1]
  <2>1. k[2] \in Nat /\ Horizon \in Nat
    BY HorizonIs DEF ContextTable, TradeCounts, Trades
  <2>. DEFINE n == Older(k[2], Horizon)
  <2>2. n \in Nat /\ Aged(k) = <<k[1], n>>
    BY <2>1, OlderTyped, Zenon
  <2>. HIDE DEF n, Aged
  <2>. QED
    BY <2>2
<1>8. \A j \in keys : \E k \in Trades : j = Aged(k)
  BY <1>2
<1>9. IsFiniteSet(keys)
  <2>. HIDE DEF f, Aged
  <2>1. IsFiniteSet(Trades)
    BY DEF ContextTable, TradeCounts, Trades
  <2>. QED
    BY <1>2, <2>1, ImageFinite
<1>. HIDE DEF keys, f, Aged, Same
<1>10. TradeCounts(stored')
  BY <1>4, <1>6, <1>7, <1>8, <1>9 DEF TradeCounts
<1>11. KnownTyped(known') /\ DOMAIN known' = DOMAIN known
  <2>1. \A w \in DOMAIN known : known[w] \in Nat /\ known'[w] = Older(known[w], Horizon)
    BY <1>1 DEF ContextTable, KnownTyped
  <2>2. Horizon \in Nat
    BY HorizonIs
  <2>3. \A w \in DOMAIN known : known'[w] \in Nat
    BY <2>1, <2>2, OlderTyped, Zenon
  <2>. QED
    BY <1>1, <2>3 DEF KnownTyped
<1>12. \A j \in DOMAIN stored' : j[1].wallet \in DOMAIN known'
  BY <1>4, <1>7, <1>8, <1>11 DEF ContextTable
<1>. QED
  BY <1>1, <1>10, <1>11, <1>12 DEF ContextTable, Trades

\* Every step of the context's lane keeps its invariant.
LEMMA ContextStep ==
    ASSUME lane \in Lanes, lane = "context", ContextInv, ContextNext
    PROVE  lane' = lane /\ ContextInv'
<1>1. ContextTable
  BY DEF ContextInv
<1>2. CASE ContextTable' /\ row' = NoRow /\ lane' = lane
  BY <1>2 DEF ContextInv
<1>3. CASE ContextTable' /\ lane' = lane /\ row'.by \in {"single", "line"} /\ ClaimOn(row', stored', known')
  <2>1. ClaimOn(row', stored', known') => ContextIsTrue'
    BY Zenon DEF ClaimOn, ContextIsTrue, TradesOf, Trades, CountOf
  <2>. QED
    BY <1>3, <2>1 DEF ContextInv
<1>4. ASSUME NEW s \in Sorts, Arrives(s, 0) PROVE lane' = lane /\ ContextInv'
  BY <1>1, <1>2, <1>4, ArrivesKeeps
<1>5. ASSUME NEW s \in Sorts, NEW a \in PastAges, Arrives(s, a) PROVE lane' = lane /\ ContextInv'
  <2>1. a \in Nat
    BY HorizonIs, WindowsAssumption
  <2>. QED
    BY <1>1, <1>2, <1>5, <2>1, ArrivesKeeps
<1>6. ASSUME NEW k \in Trades, Observed(k) PROVE lane' = lane /\ ContextInv'
  BY <1>1, <1>2, <1>6, ObservedKeeps
<1>7. ASSUME NEW missed \in Failures, SingleAlert(missed) \/ LineAlert(missed) PROVE lane' = lane /\ ContextInv'
  BY <1>1, <1>3, <1>7, SingleSays, LineSays
<1>8. ASSUME ContextElapses PROVE lane' = lane /\ ContextInv'
  BY <1>1, <1>2, <1>8, ContextAges
<1>. QED
  BY <1>4, <1>5, <1>6, <1>7, <1>8 DEF ContextNext

-----------------------------------------------------------------------------
(* The markets that are watched *)

\* The markets that are watched: nothing is remembered but what was answered last.
WatchInv ==
    lane = "watch" => (row # NoRow => row.by \in {"stream", "poller"} /\ WatchIsFair)

\* The least of some numbers.
Least(numbers) == CHOOSE b \in numbers : \A c \in numbers : b <= c

\* There are finitely many markets to watch.
LEMMA WatchableFinite ==
    ASSUME lane \in Lanes, lane = "watch"
    PROVE  Watchable \subseteq Markets /\ IsFiniteSet(Watchable)
<1>1. Watchable \subseteq Markets
  BY MarketsAssumption DEF Watchable
<1>. QED
  BY <1>1, MarketsAssumption, FS_Subset, Zenon

\* The ranking of a market with a bucket.
LEMMA HotBucketIs ==
    ASSUME NEW m \in Hot
    PROVE  HotBucket(m) \in HotBuckets(m) /\ HotBucket(m) \in 1 .. 6
<1>1. HotBuckets(m) \subseteq 1 .. 6 /\ HotBuckets(m) # {}
  BY DEF HotBuckets, Hot
<1>2. HotBuckets(m) \subseteq Nat
  BY <1>1
<1>3. \E b \in HotBuckets(m) : \A c \in HotBuckets(m) : b <= c
  BY <1>1, <1>2, LeastNat
<1>4. HotBucket(m) \in HotBuckets(m)
  BY <1>3 DEF HotBucket
<1>. QED
  BY <1>1, <1>4

\* While the marks, the notes and the live markets stay, so do the rankings.
LEMMA SameMarks ==
    ASSUME marks' = marks, notes' = notes, live' = live
    PROVE  /\ \A m, mark : Is(m, mark)' <=> Is(m, mark)
           /\ \A m : HotBuckets(m)' = HotBuckets(m) /\ HotBucket(m)' = HotBucket(m)
           /\ Hot' = Hot
           /\ \A b : InBucket(b)' = InBucket(b)
<1>1. \A m, mark : Is(m, mark)' <=> Is(m, mark)
  BY DEF Is
<1>2. ASSUME NEW m PROVE HotBuckets(m)' = HotBuckets(m)
  BY <1>1 DEF HotBuckets
<1>3. ASSUME NEW m PROVE HotBucket(m)' = HotBucket(m)
  <2>1. HotBucket(m) = Least(HotBuckets(m)) /\ HotBucket(m)' = Least(HotBuckets(m)')
    BY DEF HotBucket, Least
  <2>. QED
    BY <1>2, <2>1
<1>4. Hot' = Hot
  BY <1>2 DEF Hot, Watchable
<1>5. Alerted' = Alerted /\ Open' = Open
  BY <1>1 DEF Alerted, Open, Watchable
<1>6. ASSUME NEW b PROVE InBucket(b)' = InBucket(b)
  BY <1>1, <1>5 DEF InBucket, Watchable
<1>. QED
  BY <1>1, <1>2, <1>3, <1>4, <1>6

\* The other markets that are at least as urgent.
Urgent(m) == {h \in Hot : HotBucket(h) <= HotBucket(m)} \ {m}

\* A subscription is made for every ranked market with a page and a first token.
LEMMA SubscriptionIs ==
    ASSUME NEW ranked
    PROVE  /\ \A m \in ranked : Is(m, "page") /\ TokensOf[m] # {""} =>
                  \E s \in Subscription(ranked) : s.market = m
           /\ \A s \in Subscription(ranked) : s.tokens \subseteq Resolved(Subscription(ranked))
                                              \/ Resolved(Subscription(ranked)) = {}
<1>1. \A m \in ranked : Is(m, "page") /\ TokensOf[m] # {""} =>
          [market |-> m, tokens |-> TokensOf[m] \ {""}] \in Subscription(ranked)
  BY Zenon DEF Subscription
<1>2. \A s \in Subscription(ranked) : s.tokens \subseteq AllTokens(Subscription(ranked))
  BY Zenon DEF AllTokens
<1>. QED
  BY <1>1, <1>2, Zenon DEF Resolved

\* A hot market is passed over only for enough that are as urgent.
LEMMA UrgentFirst ==
    ASSUME IsFiniteSet(Watchable), NEW ranked \in Ranked("hot"), NEW m \in Hot \ ranked
    PROVE  Cardinality(Urgent(m)) >= MaxSubscribed
<1>1. /\ ranked \subseteq Hot
      /\ Cardinality(ranked) = (IF Cardinality(Hot) < MaxSubscribed THEN Cardinality(Hot) ELSE MaxSubscribed)
      /\ \A a \in ranked, b \in Hot \ ranked : ~HotAfter(a, b)
  BY DEF Ranked, LimitedTo
<1>2. IsFiniteSet(Hot)
  BY FS_Subset DEF Hot
<1>3. Cardinality(Hot) \in Nat /\ IsFiniteSet(ranked) /\ Cardinality(ranked) \in Nat
      /\ Cardinality(ranked) < Cardinality(Hot)
  <2>1. IsFiniteSet(ranked) /\ Cardinality(ranked) <= Cardinality(Hot)
        /\ (Cardinality(ranked) = Cardinality(Hot) => ranked = Hot)
    BY <1>1, <1>2, FS_Subset
  <2>. QED
    BY <1>2, <2>1, FS_CardinalityType
<1>4. Cardinality(ranked) = MaxSubscribed
  BY <1>1, <1>3
<1>5. ranked \subseteq Urgent(m)
  <2>. SUFFICES ASSUME NEW h \in ranked PROVE h \in Urgent(m)
    OBVIOUS
  <2>1. ~HotAfter(h, m) /\ h \in Hot /\ h # m
    BY <1>1
  <2>2. HotBucket(h) \in 1 .. 6 /\ HotBucket(m) \in 1 .. 6
    BY <2>1, HotBucketIs
  <2>. QED
    BY <2>1, <2>2 DEF HotAfter, Urgent
<1>6. Urgent(m) \subseteq Hot
  BY DEF Urgent
<1>7. IsFiniteSet(Urgent(m)) /\ Cardinality(ranked) <= Cardinality(Urgent(m))
  BY <1>2, <1>5, <1>6, FS_Subset
<1>. QED
  BY <1>3, <1>4, <1>7, FS_CardinalityType

\* The stream's selection takes the urgent ones.
LEMMA StreamStep ==
    ASSUME lane \in Lanes, lane = "watch", Subscribe
    PROVE  lane' = lane /\ WatchInv'
<1>1. PICK mode \in {"hot", "alerts"}, failed \in BOOLEAN : \E ranked \in Ranked(mode) :
          LET subs == IF failed THEN {} ELSE Subscription(ranked)
          IN  row' = Verdict("stream", Resolved(subs) # {}, failed,
                             [mode |-> mode, subs |-> subs, tokens |-> Resolved(subs)])
  BY Zenon DEF Subscribe
<1>2. PICK ranked \in Ranked(mode) :
          LET subs == IF failed THEN {} ELSE Subscription(ranked)
          IN  row' = Verdict("stream", Resolved(subs) # {}, failed,
                             [mode |-> mode, subs |-> subs, tokens |-> Resolved(subs)])
  BY <1>1, Zenon
<1>3. marks' = marks /\ notes' = notes /\ live' = live /\ lane' = lane
  BY DEF Subscribe, selectionVars
<1>. DEFINE subs == IF failed THEN {} ELSE Subscription(ranked)
<1>4. /\ row'.by = "stream" /\ row'.failed = failed /\ row'.on.mode = mode /\ row'.on.subs = subs
      /\ row'.on.tokens = Resolved(subs)
  BY <1>2 DEF Verdict
<1>5. PollKeepsItsPlaces'
  BY <1>4, Zenon DEF PollKeepsItsPlaces
<1>6. StreamTakesTheUrgent'
  <2>1. CASE failed
    BY <1>4, <2>1, Zenon DEF StreamTakesTheUrgent
  <2>2. CASE ~failed
    <3>1. subs = Subscription(ranked)
      BY <2>2
    <3>. HIDE DEF subs
    <3>4. /\ \A h \in ranked : Is(h, "page") /\ TokensOf[h] # {""} => \E s \in subs : s.market = h
          /\ \A s \in subs : s.tokens \subseteq Resolved(subs) \/ Resolved(subs) = {}
      BY <3>1, SubscriptionIs, Zenon
    <3>2. \A s \in row'.on.subs : s.tokens \subseteq row'.on.tokens \/ row'.on.tokens = {}
      BY <1>4, <3>4, Zenon
    <3>3. ASSUME mode = "hot", NEW m \in Hot', Is(m, "page")', TokensOf[m] # {""}
          PROVE  \/ \E s \in row'.on.subs : s.market = m
                 \/ Cardinality({h \in Hot' : HotBucket(h)' <= HotBucket(m)'} \ {m}) >= MaxSubscribed
      <4>1. m \in Hot /\ Is(m, "page")
        BY <1>3, <3>3, SameMarks, Zenon
      <4>2. CASE m \in ranked
        BY <1>4, <3>3, <3>4, <4>1, <4>2, Zenon
      <4>3. CASE m \notin ranked
        <5>1. Cardinality(Urgent(m)) >= MaxSubscribed
          BY <3>3, <4>1, <4>3, UrgentFirst, WatchableFinite, Zenon
        <5>2. {h \in Hot' : HotBucket(h)' <= HotBucket(m)'} \ {m} = Urgent(m)
          <6>1. Hot' = Hot /\ \A h : HotBucket(h)' = HotBucket(h)
            BY <1>3, SameMarks
          <6>. QED
            BY <6>1 DEF Urgent
        <5>. QED
          BY <5>1, <5>2, Zenon
      <4>. QED
        BY <4>2, <4>3
    <3>. QED
      BY <1>4, <3>2, <3>3, Zenon DEF StreamTakesTheUrgent
  <2>. QED
    BY <2>1, <2>2
<1>. QED
  BY <1>3, <1>4, <1>5, <1>6 DEF WatchInv, WatchIsFair

\* What a LIMIT leaves of the rows, and that it leaves all of few rows.
LEMMA ChosenIs ==
    ASSUME IsFiniteSet(Watchable), NEW b \in 1 .. 6, NEW top \in Chosen(b)
    PROVE  /\ top \subseteq InBucket(b)
           /\ Cardinality(InBucket(b)) <= Budget[b] => top = InBucket(b)
<1>1. /\ top \subseteq InBucket(b)
      /\ Cardinality(top) = (IF Cardinality(InBucket(b)) < Budget[b] THEN Cardinality(InBucket(b)) ELSE Budget[b])
  BY Zenon DEF Chosen, LimitedTo
<1>2. InBucket(b) \subseteq Watchable
  BY DEF InBucket, Alerted, Open
<1>3. IsFiniteSet(InBucket(b))
  BY <1>2, FS_Subset
<1>4. /\ Cardinality(InBucket(b)) \in Nat /\ Cardinality(top) \in Nat /\ Cardinality(top) <= Cardinality(InBucket(b))
      /\ (Cardinality(top) = Cardinality(InBucket(b)) => top = InBucket(b))
  BY <1>1, <1>3, FS_Subset, FS_CardinalityType
<1>. DEFINE n == Cardinality(InBucket(b))
            k == Cardinality(top)
<1>5. n \in Nat /\ k \in Nat /\ k <= n /\ k = (IF n < Budget[b] THEN n ELSE Budget[b])
      /\ (k = n => top = InBucket(b))
  BY <1>1, <1>4
<1>. HIDE DEF n, k
<1>6. n <= Budget[b] => k = n
  <2>1. CASE n < Budget[b]
    BY <1>5, <2>1
  <2>2. CASE ~(n < Budget[b])
    BY <1>5, <2>2
  <2>. QED
    BY <2>1, <2>2
<1>. QED
  BY <1>1, <1>5, <1>6 DEF n

\* A market that is not live is in a bucket only because of a link.
LEMMA LinkOnlyGone ==
    ASSUME NEW b \in 1 .. 6, NEW m \in InBucket(b), m \notin live
    PROVE  b = 4
<1>1. b # 4 => InBucket(b) \subseteq live
  BY DEF InBucket, Open
<1>. QED
  BY <1>1

\* The picks of the six buckets together, one by one.
AllPicked(pick) ==
    /\ \A b \in 1 .. 6 : pick[b] \in Chosen(b)

\* The picks are taken from their buckets.
LEMMA PicksAre ==
    ASSUME NEW pick \in Picks
    PROVE  AllPicked(pick)
<1>1. PICK p1 \in Chosen(1), p2 \in Chosen(2), p3 \in Chosen(3), p4 \in Chosen(4), p5 \in Chosen(5),
           p6 \in Chosen(6) : pick = <<p1, p2, p3, p4, p5, p6>>
  BY DEF Picks
<1>2. /\ pick[1] = p1 /\ pick[2] = p2 /\ pick[3] = p3 /\ pick[4] = p4 /\ pick[5] = p5 /\ pick[6] = p6
  BY <1>1
<1>3. \A b \in 1 .. 6 : b = 1 \/ b = 2 \/ b = 3 \/ b = 4 \/ b = 5 \/ b = 6
  OBVIOUS
<1>. QED
  BY <1>2, <1>3, Zenon DEF AllPicked

\* A market counts to the best bucket that picked it.
LEMMA BestOfIs ==
    ASSUME NEW pick, NEW b \in 1 .. 6, NEW m \in pick[b]
    PROVE  BestOf(pick, m) \in 1 .. 6 /\ m \in pick[BestOf(pick, m)] /\ BestOf(pick, m) <= b
<1>. DEFINE S == {c \in 1 .. 6 : m \in pick[c]}
<1>1. S \subseteq Nat /\ b \in S
  OBVIOUS
<1>2. PICK n \in S : \A c \in S : n <= c
  BY <1>1, LeastNat
<1>3. n \in 1 .. 6 /\ m \in pick[n] /\ \A c \in 1 .. n - 1 : m \notin pick[c]
  <2>1. ASSUME NEW c \in 1 .. n - 1, m \in pick[c] PROVE FALSE
    <3>1. c \in S /\ c < n /\ c \in Int /\ n \in Int
      BY <2>1
    <3>. QED
      BY <1>2, <3>1
  <2>. QED
    BY <2>1
<1>. DEFINE o == BestOf(pick, m)
<1>4. o \in 1 .. 6 /\ m \in pick[o] /\ \A c \in 1 .. o - 1 : m \notin pick[c]
  <2>1. \E e \in 1 .. Fallback : m \in pick[e] /\ \A c \in 1 .. e - 1 : m \notin pick[c]
    BY <1>3 DEF Fallback
  <2>2. o \in 1 .. Fallback /\ m \in pick[o] /\ \A c \in 1 .. o - 1 : m \notin pick[c]
    BY <2>1 DEF BestOf
  <2>. QED
    BY <2>2 DEF Fallback
<1>. HIDE DEF o
<1>5. o <= b
  BY <1>4
<1>. QED
  BY <1>4, <1>5 DEF o

\* What is selected was picked, and what was picked and has a token is selected.
LEMMA SelectedIs ==
    ASSUME NEW pick
    PROVE  /\ \A p \in Selected(pick) :
                  /\ p = [market |-> p.market, bucket |-> BestOf(pick, p.market), tokens |-> TokensOf[p.market] \ {""}]
                  /\ \E b \in 1 .. 6 : p.market \in pick[b]
           /\ \A b \in 1 .. 6 : \A m \in pick[b] : TokensOf[m] # {""} =>
                  \E p \in Selected(pick) : p.market = m /\ p.bucket = BestOf(pick, m)
<1>. DEFINE Of(m) == [market |-> m, bucket |-> BestOf(pick, m), tokens |-> TokensOf[m] \ {""}]
            all == UNION {pick[b] : b \in 1 .. 6}
<1>1. Selected(pick) = {Of(m) : m \in {m \in all : TokensOf[m] # {""}}}
  BY Zenon DEF Selected, Fallback
<1>2. \A m : Of(m).market = m /\ Of(m).bucket = BestOf(pick, m) /\ Of(m) = [market |-> m, bucket |-> BestOf(pick, m), tokens |-> TokensOf[m] \ {""}]
  OBVIOUS
<1>3. \A m : m \in all <=> \E b \in 1 .. 6 : m \in pick[b]
  OBVIOUS
<1>. HIDE DEF all, Of
<1>4. ASSUME NEW p \in Selected(pick) PROVE \E m \in all : p = Of(m)
  BY <1>1, Zenon
<1>5. ASSUME NEW m \in all, TokensOf[m] # {""} PROVE Of(m) \in Selected(pick)
  BY <1>1, <1>5, Zenon
<1>6. ASSUME NEW p \in Selected(pick)
      PROVE  /\ p = [market |-> p.market, bucket |-> BestOf(pick, p.market), tokens |-> TokensOf[p.market] \ {""}]
             /\ \E b \in 1 .. 6 : p.market \in pick[b]
  <2>1. PICK m \in all : p = Of(m)
    BY <1>4
  <2>2. p.market = m
    BY <1>2, <2>1, Zenon
  <2>3. p = Of(p.market) /\ p.market \in all
    BY <2>1, <2>2
  <2>. QED
    BY <1>2, <1>3, <2>3, Zenon
<1>7. ASSUME NEW b \in 1 .. 6, NEW m \in pick[b], TokensOf[m] # {""}
      PROVE  \E p \in Selected(pick) : p.market = m /\ p.bucket = BestOf(pick, m)
  <2>1. Of(m) \in Selected(pick)
    BY <1>3, <1>5, <1>7, Zenon
  <2>. QED
    BY <1>2, <2>1, Zenon
<1>. QED
  BY <1>6, <1>7, Zenon

\* The poller keeps its places.
LEMMA PollStep ==
    ASSUME lane \in Lanes, lane = "watch", PollBuckets
    PROVE  lane' = lane /\ WatchInv'
<1>1. PICK pick \in Picks :
          row' = Verdict("poller", Selected(pick) # {}, FALSE, [picks |-> Selected(pick)])
  BY Zenon DEF PollBuckets
<1>2. marks' = marks /\ notes' = notes /\ live' = live /\ lane' = lane
  BY DEF PollBuckets, selectionVars
<1>3. row'.by = "poller" /\ row'.on.picks = Selected(pick)
  BY <1>1 DEF Verdict
<1>4. StreamTakesTheUrgent'
  BY <1>3, Zenon DEF StreamTakesTheUrgent
<1>5. AllPicked(pick) /\ IsFiniteSet(Watchable)
  BY PicksAre, WatchableFinite
<1>6. \A b \in 1 .. 6 : pick[b] \in Chosen(b)
  BY <1>5 DEF AllPicked
<1>7. ASSUME NEW b \in {1, 2}, Cardinality(InBucket(b)) <= Budget[b], NEW m \in InBucket(b), TokensOf[m] # {""}
      PROVE  \E p \in Selected(pick) : p.market = m /\ p.bucket <= b
  <2>1. b \in 1 .. 6
    OBVIOUS
  <2>2. m \in pick[b]
    BY <1>5, <1>6, <1>7, <2>1, ChosenIs, Zenon
  <2>3. PICK p \in Selected(pick) : p.market = m /\ p.bucket = BestOf(pick, m)
    BY <1>7, <2>1, <2>2, SelectedIs, ZenonT(60)
  <2>4. BestOf(pick, m) <= b
    BY <2>1, <2>2, BestOfIs
  <2>. QED
    BY <2>3, <2>4
<1>8. \A p, q \in Selected(pick) : p.market = q.market => p = q
  <2>1. \A p \in Selected(pick) :
            p = [market |-> p.market, bucket |-> BestOf(pick, p.market), tokens |-> TokensOf[p.market] \ {""}]
    BY SelectedIs, Zenon
  <2>. QED
    BY <2>1, Zenon
<1>9. ASSUME NEW p \in Selected(pick), p.market \notin live PROVE p.bucket = 4
  <2>1. /\ p = [market |-> p.market, bucket |-> BestOf(pick, p.market), tokens |-> TokensOf[p.market] \ {""}]
        /\ \E b \in 1 .. 6 : p.market \in pick[b]
    BY SelectedIs, Zenon
  <2>2. PICK b \in 1 .. 6 : p.market \in pick[b]
    BY <2>1, Zenon
  <2>. DEFINE o == BestOf(pick, p.market)
  <2>3. o \in 1 .. 6 /\ p.market \in pick[o]
    BY <2>2, BestOfIs
  <2>4. p.bucket = o
    <3>1. p = [market |-> p.market, bucket |-> o, tokens |-> TokensOf[p.market] \ {""}]
      BY <2>1, Zenon
    <3>. DEFINE r == [market |-> p.market, bucket |-> o, tokens |-> TokensOf[p.market] \ {""}]
    <3>3. r.bucket = o /\ p = r
      BY <3>1, Zenon
    <3>. HIDE DEF r, o
    <3>. QED
      BY <3>3, Zenon
  <2>. HIDE DEF o
  <2>5. p.market \in InBucket(o)
    BY <1>5, <1>6, <2>3, ChosenIs
  <2>6. o = 4
    BY <1>9, <2>3, <2>5, LinkOnlyGone
  <2>. QED
    BY <2>4, <2>6
<1>10. \A b : InBucket(b)' = InBucket(b)
  BY <1>2, SameMarks
<1>12. \A b \in {1, 2} : Cardinality(InBucket(b)') <= Budget[b] =>
           \A m \in InBucket(b)' : TokensOf[m] # {""} =>
               \E p \in Selected(pick) : p.market = m /\ p.bucket <= b
  BY <1>7, <1>10, Zenon
<1>. DEFINE picks == row'.on.picks
<1>13. /\ \A b \in {1, 2} : Cardinality(InBucket(b)') <= Budget[b] =>
              \A m \in InBucket(b)' : TokensOf[m] # {""} => \E p \in picks : p.market = m /\ p.bucket <= b
       /\ \A p, q \in picks : p.market = q.market => p = q
       /\ \A p \in picks : p.market \notin live' => p.bucket = 4
  <2>1. picks = Selected(pick) /\ live' = live
    BY <1>2, <1>3
  <2>. HIDE DEF picks
  <2>. QED
    BY <1>8, <1>9, <1>12, <2>1, Zenon
<1>11. PollKeepsItsPlaces'
  BY <1>13, Zenon DEF PollKeepsItsPlaces
<1>. QED
  BY <1>2, <1>3, <1>4, <1>11 DEF WatchInv, WatchIsFair

\* Every step of the watching lane keeps its invariant.
LEMMA WatchStep ==
    ASSUME lane \in Lanes, lane = "watch", WatchInv, SelectionNext
    PROVE  lane' = lane /\ WatchInv'
<1>1. CASE Subscribe
  BY <1>1, StreamStep
<1>2. CASE PollBuckets
  BY <1>2, PollStep
<1>3. CASE PollTokens
  <2>1. PICK rows \in Unbucketed : row' = Verdict("poller", rows # {}, TRUE, [rows |-> rows])
    BY <1>3, Zenon DEF PollTokens
  <2>2. row'.by = "poller" /\ row'.failed
    BY <2>1 DEF Verdict
  <2>3. StreamTakesTheUrgent' /\ PollKeepsItsPlaces'
    BY <2>2 DEF StreamTakesTheUrgent, PollKeepsItsPlaces
  <2>. QED
    BY <1>3, <2>2, <2>3, Zenon DEF WatchInv, WatchIsFair, PollTokens
<1>4. CASE row' = NoRow /\ lane' = lane
  BY <1>4 DEF WatchInv
<1>5. CASE Note
  BY <1>4, <1>5 DEF Note, Background
<1>6. CASE \E m \in Watchable : Relisted(m)
  BY <1>4, <1>6 DEF Relisted
<1>. QED
  BY <1>1, <1>2, <1>3, <1>5, <1>6 DEF SelectionNext

-----------------------------------------------------------------------------
(* The reservoir *)

\* The remainder of a number less than twice the divisor.
LEMMA ModIs ==
    ASSUME NEW c \in Nat \ {0}, NEW a \in 0 .. 2 * c - 1
    PROVE  a % c = (IF a < c THEN a ELSE a - c) /\ a % c \in 0 .. c - 1
OBVIOUS

\* The sum of the notionals of some of a history.
SumHeard(h, part) == Total([i \in DOMAIN h |-> h[i].usd], part)

\* The reservoir holds the last trades it heard, in order, with their sum; a trade
\* that is no longer in it is too old or was pushed out by RingCap later ones.
RingHolds(r, h) ==
    /\ h \in Seq([usd : Nat, age : Nat])
    /\ r = [buf |-> r.buf, head |-> r.head, size |-> r.size, sum |-> r.sum]
    /\ r.head \in 0 .. RingCap - 1 /\ r.size \in 0 .. RingCap /\ r.size <= Len(h)
    /\ r.buf = [i \in 0 .. RingCap - 1 |-> r.buf[i]]
    /\ \A i \in 0 .. r.size - 1 : Sample(r, i) = h[Len(h) - r.size + 1 + i]
    /\ r.sum = SumHeard(h, Len(h) - r.size + 1 .. Len(h))
    /\ \A i \in 1 .. Len(h) - r.size : h[i].age > BaselineWindow \/ i <= Len(h) - RingCap

\* Where the samples of the reservoir stand in its buffer.
LEMMA SampleAt ==
    ASSUME NEW r, r.head \in 0 .. RingCap - 1, NEW i \in 0 .. RingCap
    PROVE  /\ r.head + i < RingCap => Sample(r, i) = r.buf[r.head + i]
           /\ r.head + i >= RingCap => Sample(r, i) = r.buf[r.head + i - RingCap]
<1>1. RingCap \in Nat \ {0} /\ r.head + i \in 0 .. 2 * RingCap - 1
  BY ContextAssumption
<1>. DEFINE a == r.head + i
<1>2. Sample(r, i) = r.buf[a % RingCap]
  BY DEF Sample
<1>. HIDE DEF a
<1>3. a % RingCap = (IF a < RingCap THEN a ELSE a - RingCap)
  BY <1>1, ModIs, Zenon DEF a
<1>4. a < RingCap => Sample(r, i) = r.buf[a]
  BY <1>2, <1>3
<1>5. ~(a < RingCap) => Sample(r, i) = r.buf[a - RingCap]
  BY <1>2, <1>3
<1>. QED
  BY <1>1, <1>4, <1>5 DEF a

\* A sum does not depend on where its rows stand.
ShiftOf(g, f, m, k) == \A i \in 0 .. k - 1 : g[i] \in Int /\ f[m + 1 + i] = g[i]

\* The same values add up to the same, wherever they stand.
LEMMA TotalShift ==
    ASSUME NEW g, NEW f, NEW m \in Nat, NEW k \in Nat, ShiftOf(g, f, m, k)
    PROVE  Total(g, 0 .. k - 1) = Total(f, m + 1 .. m + k)
<1>0. \A i \in 0 .. k - 1 : g[i] \in Int /\ f[m + 1 + i] = g[i]
  BY DEF ShiftOf
<1>. DEFINE F == {n \in Nat : n <= k => Total(g, 0 .. n - 1) = Total(f, m + 1 .. m + n)}
<1>1. 0 \in F
  <2>1. 0 .. 0 - 1 = {} /\ m + 1 .. m + 0 = {}
    OBVIOUS
  <2>2. Total(g, {}) = Total(f, {})
    BY TotalEmpty
  <2>. QED
    BY <2>1, <2>2
<1>2. ASSUME NEW n \in Nat, n \in F PROVE n + 1 \in F
  <2>. SUFFICES ASSUME n + 1 <= k PROVE Total(g, 0 .. (n + 1) - 1) = Total(f, m + 1 .. m + (n + 1))
    OBVIOUS
  <2>. DEFINE A == 0 .. n - 1
              B == m + 1 .. m + n
  <2>1. Total(g, A) = Total(f, B)
    BY <1>2
  <2>2. 0 .. (n + 1) - 1 = A \cup {n} /\ n \notin A /\ m + 1 .. m + (n + 1) = B \cup {m + 1 + n} /\ m + 1 + n \notin B
    OBVIOUS
  <2>3. (\A i \in A : g[i] \in Int) /\ g[n] \in Int /\ f[m + 1 + n] = g[n]
    BY <1>0
  <2>4. \A j \in B : f[j] \in Int
    <3>. SUFFICES ASSUME NEW j \in B PROVE f[j] \in Int
      OBVIOUS
    <3>. DEFINE i == j - m - 1
    <3>1. i \in 0 .. k - 1 /\ m + 1 + i = j
      OBVIOUS
    <3>2. g[i] \in Int /\ f[m + 1 + i] = g[i]
      BY <1>0, <3>1
    <3>. QED
      BY <3>1, <3>2
  <2>5. IsFiniteSet(A) /\ IsFiniteSet(B)
    <3>1. 0 \in Int /\ n - 1 \in Int /\ m + 1 \in Int /\ m + n \in Int
      OBVIOUS
    <3>. QED
      BY <3>1, FS_Interval
  <2>. HIDE DEF A, B
  <2>6. Total(g, A \cup {n}) = Total(g, A) + g[n]
    BY <2>2, <2>3, <2>5, TotalAdd
  <2>7. Total(f, B \cup {m + 1 + n}) = Total(f, B) + f[m + 1 + n]
    BY <2>2, <2>3, <2>4, <2>5, TotalAdd
  <2>. QED
    BY <2>1, <2>2, <2>3, <2>6, <2>7, Zenon
<1>. HIDE DEF F
<1>3. \A n \in Nat : n \in F => n + 1 \in F
  BY <1>2
<1>4. k \in F
  BY <1>1, <1>3, EveryNumber
<1>. QED
  BY <1>4 DEF F

\* What is known of the rows of a history.
LEMMA HeardTyped ==
    ASSUME NEW h \in Seq([usd : Nat, age : Nat])
    PROVE  /\ Len(h) \in Nat /\ DOMAIN h = 1 .. Len(h)
           /\ \A i \in 1 .. Len(h) : h[i] \in [usd : Nat, age : Nat] /\ h[i].usd \in Nat /\ h[i].age \in Nat
                                     /\ h[i] = [usd |-> h[i].usd, age |-> h[i].age]
<1>. DEFINE R == [usd : Nat, age : Nat]
<1>1. \A e \in R : e.usd \in Nat /\ e.age \in Nat /\ e = [usd |-> e.usd, age |-> e.age]
  OBVIOUS
<1>2. h \in Seq(R)
  OBVIOUS
<1>. HIDE DEF R
<1>3. Len(h) \in Nat /\ DOMAIN h = 1 .. Len(h) /\ \A i \in 1 .. Len(h) : h[i] \in R
  BY <1>2
<1>4. \A i \in 1 .. Len(h) : h[i] \in [usd : Nat, age : Nat]
  BY <1>3 DEF R
<1>. QED
  BY <1>1, <1>3, <1>4, Zenon

\* Part of a history's notionals, cut in two.
LEMMA SumCut ==
    ASSUME NEW h \in Seq([usd : Nat, age : Nat]), NEW a \in Nat, NEW b \in Nat, NEW c \in Nat,
           1 <= a, a <= b + 1, b <= c, c <= Len(h)
    PROVE  /\ SumHeard(h, a .. c) = SumHeard(h, a .. b) + SumHeard(h, b + 1 .. c)
           /\ SumHeard(h, a .. b) \in Int /\ SumHeard(h, b + 1 .. c) \in Int
<1>. DEFINE f == [i \in DOMAIN h |-> h[i].usd]
            A == a .. b
            B == b + 1 .. c
<1>1. a .. c = A \cup B /\ A \cap B = {}
  OBVIOUS
<1>2. IsFiniteSet(A) /\ IsFiniteSet(B)
  <2>1. a \in Int /\ b \in Int /\ b + 1 \in Int /\ c \in Int
    OBVIOUS
  <2>. QED
    BY <2>1, FS_Interval
<1>3. \A i \in A \cup B : f[i] \in Int
  <2>1. DOMAIN h = 1 .. Len(h) /\ \A i \in 1 .. Len(h) : h[i].usd \in Nat
    BY HeardTyped, Zenon
  <2>2. \A i \in A \cup B : i \in 1 .. Len(h)
    BY HeardTyped
  <2>3. \A i \in DOMAIN h : f[i] = h[i].usd
    OBVIOUS
  <2>. HIDE DEF f, A, B
  <2>4. \A i \in A \cup B : f[i] \in Nat
    BY <2>1, <2>2, <2>3
  <2>. QED
    BY <2>4
<1>. HIDE DEF f, A, B
<1>4. Total(f, A \cup B) = Total(f, A) + Total(f, B) /\ Total(f, A) \in Int /\ Total(f, B) \in Int
  BY <1>1, <1>2, <1>3, TotalSplit, TotalInt, Zenon
<1>. QED
  BY <1>1, <1>4, Zenon DEF SumHeard, f, A, B

\* The oldest samples' notionals, as a sum over the history.
LEMMA SumOfIs ==
    ASSUME NEW r, NEW h, RingHolds(r, h), NEW k \in 0 .. r.size
    PROVE  SumOf(r, k) = SumHeard(h, Len(h) - r.size + 1 .. Len(h) - r.size + k)
<1>. DEFINE m == Len(h) - r.size
            g == [i \in 0 .. k - 1 |-> Sample(r, i).usd]
            f == [i \in DOMAIN h |-> h[i].usd]
<1>1. h \in Seq([usd : Nat, age : Nat]) /\ r.size \in Nat /\ r.size <= Len(h) /\ k \in Nat
      /\ \A i \in 0 .. r.size - 1 : Sample(r, i) = h[m + 1 + i]
  BY ContextAssumption DEF RingHolds
<1>2. m \in Nat /\ m + r.size = Len(h)
  BY <1>1, HeardTyped
<1>. HIDE DEF m
<1>3. ASSUME NEW i \in 0 .. k - 1 PROVE g[i] \in Int /\ f[m + 1 + i] = g[i]
  <2>1. i \in 0 .. r.size - 1 /\ m + 1 + i \in 1 .. Len(h)
    BY <1>1, <1>2, SMTT(40)
  <2>2. g[i] = h[m + 1 + i].usd
    BY <1>1, <2>1, Zenon
  <2>3. h[m + 1 + i].usd \in Nat /\ f[m + 1 + i] = h[m + 1 + i].usd
    BY <1>1, <2>1, HeardTyped, Zenon
  <2>. QED
    BY <2>2, <2>3
<1>. HIDE DEF g, f
<1>5. m \in Nat /\ k \in Nat /\ ShiftOf(g, f, m, k)
  BY <1>1, <1>2, <1>3 DEF ShiftOf
<1>4. Total(g, 0 .. k - 1) = Total(f, m + 1 .. m + k)
  BY <1>5, TotalShift
<1>. QED
  BY <1>4 DEF SumOf, SumHeard, m, g, f

\* The oldest trade of the reservoir is in the window.
FirstIsYoung(r) == r.size > 0 => Sample(r, 0).age <= BaselineWindow

\* Without the trades that are too old the reservoir still holds the last ones.
LEMMA TrimmedHolds ==
    ASSUME NEW r, NEW h, RingHolds(r, h)
    PROVE  RingHolds(Trimmed(r), h) /\ FirstIsYoung(Trimmed(r))
<1>. DEFINE S == {n \in 0 .. r.size : n = r.size \/ Sample(r, n).age <= BaselineWindow}
            k == Min(S)
            t == Trimmed(r)
            n == Len(h)
<1>1. /\ h \in Seq([usd : Nat, age : Nat]) /\ n \in Nat
      /\ r = [buf |-> r.buf, head |-> r.head, size |-> r.size, sum |-> r.sum]
      /\ r.head \in 0 .. RingCap - 1 /\ r.size \in 0 .. RingCap /\ r.size <= n
      /\ r.buf = [i \in 0 .. RingCap - 1 |-> r.buf[i]]
      /\ \A i \in 0 .. r.size - 1 : Sample(r, i) = h[n - r.size + 1 + i]
      /\ r.sum = SumHeard(h, n - r.size + 1 .. n)
      /\ \A i \in 1 .. n - r.size : h[i].age > BaselineWindow \/ i <= n - RingCap
  BY HeardTyped DEF RingHolds
<1>2. RingCap \in Nat \ {0} /\ r.size \in Nat /\ BaselineWindow \in Nat
  BY <1>1, ContextAssumption, WindowsAssumption
<1>3. k \in S /\ \A i \in S : k <= i
  <2>1. S \subseteq 0 .. r.size /\ S \subseteq Int /\ r.size \in S
    BY <1>2
  <2>2. IsFiniteSet(0 .. r.size)
    <3>1. 0 \in Int /\ r.size \in Int
      BY <1>2
    <3>. QED
      BY <3>1, FS_Interval
  <2>. HIDE DEF S
  <2>3. IsFiniteSet(S)
    BY <2>1, <2>2, FS_Subset, Zenon
  <2>. QED
    BY <2>1, <2>3, MinIs, Zenon
<1>4. k \in 0 .. r.size /\ (k = r.size \/ Sample(r, k).age <= BaselineWindow)
  BY <1>3, Zenon
<1>5. \A i \in 0 .. k - 1 : ~(Sample(r, i).age <= BaselineWindow)
  <2>. SUFFICES ASSUME NEW i \in 0 .. k - 1, Sample(r, i).age <= BaselineWindow PROVE FALSE
    OBVIOUS
  <2>1. i \in 0 .. r.size /\ i < k /\ i \in Int /\ k \in Int
    BY <1>2, <1>4
  <2>2. i \in S
    BY <2>1
  <2>. QED
    BY <1>3, <2>1, <2>2
<1>6. t = [r EXCEPT !.head = (@ + k) % RingCap, !.size = @ - k, !.sum = @ - SumOf(r, k)]
  BY DEF Trimmed
<1>. HIDE DEF S, k, n
<1>7. /\ t.buf = r.buf /\ t.head = (r.head + k) % RingCap /\ t.size = r.size - k /\ t.sum = r.sum - SumOf(r, k)
      /\ t = [buf |-> t.buf, head |-> t.head, size |-> t.size, sum |-> t.sum]
  BY <1>1, <1>6, Zenon
<1>. HIDE DEF t
<1>. DEFINE c == RingCap
            hd == r.head
            sz == r.size
            th == t.head
            ts == t.size
<1>20. c \in Nat /\ c > 0 /\ n \in Nat /\ hd \in 0 .. c - 1 /\ sz \in 0 .. c /\ sz <= n /\ k \in 0 .. sz /\ ts = sz - k
  BY <1>1, <1>2, <1>4, <1>7
<1>8. th \in 0 .. c - 1 /\ th = (IF hd + k < c THEN hd + k ELSE hd + k - c)
  <2>1. th = (hd + k) % c
    BY <1>7
  <2>. HIDE DEF c, hd, sz, th, ts
  <2>. DEFINE a == hd + k
  <2>2. a \in 0 .. 2 * c - 1 /\ c \in Nat \ {0} /\ th = a % c
    BY <1>20, <2>1
  <2>. HIDE DEF a
  <2>3. th = (IF a < c THEN a ELSE a - c) /\ th \in 0 .. c - 1
    BY <2>2, ModIs, Zenon
  <2>4. a = hd + k
    BY DEF a
  <2>. QED
    BY <1>20, <2>3, <2>4
<1>9. ts \in 0 .. c /\ ts <= n /\ ts \in Nat
  <2>. HIDE DEF c, hd, sz, th, ts
  <2>. QED
    BY <1>20
<1>10. ASSUME NEW i \in 0 .. ts - 1 PROVE Sample(t, i) = Sample(r, k + i) /\ Sample(t, i) = h[n - ts + 1 + i]
  <2>. DEFINE b == r.buf
              x == Sample(t, i)
              y == Sample(r, k + i)
  <2>1. i \in 0 .. c /\ k + i \in 0 .. c /\ k + i \in 0 .. sz - 1
    <3>. HIDE DEF c, hd, sz, th, ts
    <3>. QED
      BY <1>20
  <2>2. /\ th + i < c => x = b[th + i]
        /\ th + i >= c => x = b[th + i - c]
    BY <1>7, <1>8, <2>1, SampleAt
  <2>3. /\ hd + (k + i) < c => y = b[hd + (k + i)]
        /\ hd + (k + i) >= c => y = b[hd + (k + i) - c]
    BY <1>1, <2>1, SampleAt, Zenon
  <2>4. y = h[n - sz + 1 + (k + i)]
    BY <1>1, <2>1
  <2>. HIDE DEF c, hd, sz, th, ts, b, x, y
  <2>5. ASSUME hd + (k + i) < c PROVE x = y
    <3>1. th + i = hd + (k + i) /\ th + i < c
      BY <1>8, <1>20, <2>1, <2>5
    <3>. QED
      BY <2>2, <2>3, <2>5, <3>1
  <2>6. ASSUME hd + (k + i) >= c, hd + k < c PROVE x = y
    <3>1. th + i = hd + (k + i) /\ th + i >= c /\ th + i - c = hd + (k + i) - c
      BY <1>8, <1>20, <2>1, <2>6
    <3>2. x = b[th + i - c] /\ y = b[hd + (k + i) - c]
      BY <2>2, <2>3, <2>6, <3>1
    <3>. QED
      BY <3>1, <3>2
  <2>7. ASSUME hd + k >= c PROVE x = y
    <3>1. th + i = hd + (k + i) - c /\ th + i < c /\ hd + (k + i) >= c
      BY <1>8, <1>20, <2>1, <2>7
    <3>. QED
      BY <2>2, <2>3, <3>1
  <2>8. x = y
    BY <1>20, <2>1, <2>5, <2>6, <2>7
  <2>9. n - sz + 1 + (k + i) = n - ts + 1 + i
    BY <1>20, <2>1
  <2>10. x = h[n - ts + 1 + i]
    BY <2>4, <2>8, <2>9
  <2>. QED
    BY <2>8, <2>10 DEF x, y, ts
<1>11. t.sum = SumHeard(h, n - ts + 1 .. n)
  <2>. DEFINE a == n - sz + 1
              b == n - sz + k
  <2>1. SumOf(r, k) = SumHeard(h, a .. b)
    BY <1>4, SumOfIs DEF n
  <2>2. r.sum = SumHeard(h, a .. n)
    BY <1>1
  <2>3. a \in Nat /\ b \in Nat /\ n \in Nat /\ 1 <= a /\ a <= b + 1 /\ b <= n /\ b + 1 = n - ts + 1
    <3>. HIDE DEF c, hd, sz, th, ts
    <3>. QED
      BY <1>20
  <2>. HIDE DEF a, b
  <2>4. n <= Len(h)
    BY <2>3 DEF n
  <2>5. /\ SumHeard(h, a .. n) = SumHeard(h, a .. b) + SumHeard(h, b + 1 .. n)
        /\ SumHeard(h, a .. b) \in Int /\ SumHeard(h, b + 1 .. n) \in Int
    BY <1>1, <2>3, <2>4, SumCut
  <2>6. t.sum = SumHeard(h, b + 1 .. n)
    BY <1>7, <2>1, <2>2, <2>5
  <2>. QED
    BY <2>3, <2>6
<1>12. ASSUME NEW i \in 1 .. n - ts PROVE h[i].age > BaselineWindow \/ i <= n - c
  <2>1. CASE i \in 1 .. n - sz
    BY <1>1, <2>1
  <2>2. CASE i \notin 1 .. n - sz
    <3>. DEFINE j == i - (n - sz) - 1
    <3>1. j \in 0 .. k - 1 /\ j \in 0 .. sz - 1 /\ n - sz + 1 + j = i /\ i \in 1 .. n
      <4>. HIDE DEF c, hd, sz, th, ts
      <4>. QED
        BY <1>20, <2>2
    <3>. HIDE DEF j
    <3>2. ~(Sample(r, j).age <= BaselineWindow) /\ Sample(r, j) = h[i]
      BY <1>1, <1>5, <3>1
    <3>3. h[i].age \in Nat
      BY <1>1, <3>1, HeardTyped, Zenon DEF n
    <3>. QED
      BY <1>2, <3>2, <3>3
  <2>. QED
    BY <2>1, <2>2
<1>13. FirstIsYoung(t)
  <2>. SUFFICES ASSUME t.size > 0 PROVE Sample(t, 0).age <= BaselineWindow
    BY DEF FirstIsYoung
  <2>0. ts > 0
    OBVIOUS
  <2>1. 0 \in 0 .. ts - 1 /\ k + 0 = k /\ k # sz
    <3>. HIDE DEF c, hd, sz, th, ts
    <3>. QED
      BY <1>20, <2>0
  <2>2. Sample(t, 0) = Sample(r, k)
    BY <1>10, <2>1
  <2>. QED
    BY <1>4, <2>1, <2>2
<1>14. RingHolds(t, h)
  BY <1>1, <1>7, <1>8, <1>9, <1>10, <1>11, <1>12 DEF RingHolds, n
<1>. QED
  BY <1>13, <1>14 DEF t

\* What a history with one trade more looks like.
GrownBy(h, g, e) ==
    /\ g \in Seq([usd : Nat, age : Nat]) /\ Len(g) = Len(h) + 1 /\ g[Len(h) + 1] = e
    /\ \A i \in 1 .. Len(h) : g[i] = h[i]
    /\ \A a \in 1 .. Len(h) + 1 :
           /\ SumHeard(g, a .. Len(h)) = SumHeard(h, a .. Len(h)) /\ SumHeard(h, a .. Len(h)) \in Int
           /\ SumHeard(g, a .. Len(h) + 1) = SumHeard(h, a .. Len(h)) + e.usd

\* A history with one trade more, and what its notionals add up to.
LEMMA OneMoreHeard ==
    ASSUME NEW h \in Seq([usd : Nat, age : Nat]), NEW e \in [usd : Nat, age : Nat], NEW g, g = Append(h, e)
    PROVE  GrownBy(h, g, e)
<1>. DEFINE R == [usd : Nat, age : Nat]
            n == Len(h)
<1>1. h \in Seq(R) /\ e \in R
  OBVIOUS
<1>2. e.usd \in Nat
  OBVIOUS
<1>. HIDE DEF R
<1>3. g \in Seq(R) /\ n \in Nat /\ Len(g) = n + 1 /\ g[n + 1] = e /\ \A i \in 1 .. n : g[i] = h[i]
  BY <1>1
<1>4. \A i \in 1 .. n : h[i].usd \in Nat
  BY HeardTyped, Zenon DEF R
<1>5. DOMAIN h = 1 .. n /\ DOMAIN g = 1 .. n + 1
  BY <1>1, <1>3
<1>. HIDE DEF n
<1>6. ASSUME NEW a \in 1 .. n + 1
      PROVE  /\ SumHeard(g, a .. n) = SumHeard(h, a .. n) /\ SumHeard(h, a .. n) \in Int
             /\ SumHeard(g, a .. n + 1) = SumHeard(h, a .. n) + e.usd
  <2>. DEFINE u == [i \in DOMAIN h |-> h[i].usd]
              v == [i \in DOMAIN g |-> g[i].usd]
              A == a .. n
  <2>1. IsFiniteSet(A)
    <3>1. a \in Int /\ n \in Int
      BY <1>3
    <3>. QED
      BY <3>1, FS_Interval
  <2>2. \A i \in A : i \in 1 .. n /\ i \in 1 .. n + 1
    BY <1>3
  <2>3. \A i \in A : u[i] \in Int /\ v[i] = u[i]
    BY <1>3, <1>4, <1>5, <2>2
  <2>4. n + 1 \notin A /\ a .. n + 1 = A \cup {n + 1} /\ n + 1 \in 1 .. n + 1
    BY <1>3
  <2>5. v[n + 1] = e.usd
    BY <1>3, <1>5, <2>4
  <2>. HIDE DEF u, v, A
  <2>6. Total(v, A) = Total(u, A) /\ Total(u, A) \in Int
    BY <2>1, <2>3, TotalSame, TotalInt
  <2>7. \A i \in A \cup {n + 1} : v[i] \in Int
    BY <1>2, <2>3, <2>5
  <2>8. Total(v, A \cup {n + 1}) = Total(v, A) + v[n + 1]
    BY <2>1, <2>4, <2>7, TotalAdd, ZenonT(60)
  <2>. QED
    BY <2>4, <2>5, <2>6, <2>8, Zenon DEF SumHeard, u, v, A
<1>. QED
  BY <1>3, <1>6, Zenon DEF GrownBy, R, n

\* With one trade more it holds the last ones.
LEMMA PushedHolds ==
    ASSUME NEW r, NEW h, RingHolds(r, h), NEW e \in [usd : Nat, age : Nat], NEW g, g = Append(h, e)
    PROVE  RingHolds(Pushed(r, e), g)
<1>. DEFINE p == Pushed(r, e)
            n == Len(h)
            c == RingCap
            hd == r.head
            sz == r.size
            b == r.buf
<1>1. /\ h \in Seq([usd : Nat, age : Nat]) /\ n \in Nat
      /\ r = [buf |-> b, head |-> hd, size |-> sz, sum |-> r.sum]
      /\ hd \in 0 .. c - 1 /\ sz \in 0 .. c /\ sz <= n
      /\ b = [i \in 0 .. c - 1 |-> b[i]]
      /\ \A i \in 0 .. sz - 1 : Sample(r, i) = h[n - sz + 1 + i]
      /\ r.sum = SumHeard(h, n - sz + 1 .. n)
      /\ \A i \in 1 .. n - sz : h[i].age > BaselineWindow \/ i <= n - c
  BY HeardTyped DEF RingHolds
<1>2. /\ g \in Seq([usd : Nat, age : Nat]) /\ Len(g) = n + 1 /\ g[n + 1] = e
      /\ \A i \in 1 .. n : g[i] = h[i]
      /\ \A a \in 1 .. n + 1 : /\ SumHeard(g, a .. n) = SumHeard(h, a .. n) /\ SumHeard(h, a .. n) \in Int
                               /\ SumHeard(g, a .. n + 1) = SumHeard(h, a .. n) + e.usd
  <2>1. h \in Seq([usd : Nat, age : Nat])
    BY <1>1
  <2>2. GrownBy(h, g, e)
    BY <2>1, OneMoreHeard, Zenon
  <2>. QED
    BY <2>2 DEF GrownBy
<1>3. c \in Nat /\ c > 0 /\ c \in Nat \ {0} /\ n \in Nat /\ hd \in 0 .. c - 1 /\ sz \in 0 .. c /\ sz <= n
  BY <1>1, ContextAssumption
<1>4. ASSUME NEW i \in 0 .. sz - 1
      PROVE  /\ hd + i < c => b[hd + i] = h[n - sz + 1 + i]
             /\ hd + i >= c => b[hd + i - c] = h[n - sz + 1 + i]
  <2>1. i \in 0 .. c
    <3>. HIDE DEF c, hd, sz, n
    <3>. QED
      BY <1>3
  <2>. QED
    BY <1>1, <2>1, SampleAt, Zenon
<1>5. e.usd \in Int
  OBVIOUS
<1>6. ASSUME sz < c PROVE RingHolds(p, g)
  <2>. DEFINE at == (hd + sz) % c
              w == [b EXCEPT ![at] = e]
  <2>1. p = [r EXCEPT !.buf[at] = e, !.size = @ + 1, !.sum = @ + e.usd]
    BY <1>6 DEF Pushed
  <2>2. p.buf = w /\ p.head = hd /\ p.size = sz + 1 /\ p.sum = r.sum + e.usd
        /\ p = [buf |-> p.buf, head |-> p.head, size |-> p.size, sum |-> p.sum]
    BY <1>1, <2>1, Zenon
  <2>3. at = (IF hd + sz < c THEN hd + sz ELSE hd + sz - c) /\ at \in 0 .. c - 1
    <3>. DEFINE a == hd + sz
    <3>. HIDE DEF c, hd, sz
    <3>1. a \in 0 .. 2 * c - 1 /\ at = a % c
      BY <1>3
    <3>. HIDE DEF a, at
    <3>2. at = (IF a < c THEN a ELSE a - c) /\ at \in 0 .. c - 1
      BY <1>3, <3>1, ModIs, Zenon
    <3>3. a = hd + sz
      BY DEF a
    <3>. QED
      BY <1>3, <3>2, <3>3
  <2>4. w = [i \in 0 .. c - 1 |-> w[i]] /\ w[at] = e /\ \A i \in 0 .. c - 1 : i # at => w[i] = b[i]
    <3>1. DOMAIN b = 0 .. c - 1
      BY <1>1
    <3>. HIDE DEF b, at
    <3>. QED
      BY <2>3, <3>1, Zenon
  <2>. HIDE DEF p, w, at
  <2>5. ASSUME NEW i \in 0 .. (sz + 1) - 1 PROVE Sample(p, i) = g[(n + 1) - (sz + 1) + 1 + i]
    <3>. DEFINE x == Sample(p, i)
    <3>1. i \in 0 .. c
      <4>. HIDE DEF c, hd, sz, n
      <4>. QED
        BY <1>3, <1>6
    <3>2. /\ hd + i < c => x = w[hd + i]
          /\ hd + i >= c => x = w[hd + i - c]
      <4>1. p.head \in 0 .. RingCap - 1 /\ i \in 0 .. RingCap
        BY <1>3, <2>2, <3>1
      <4>2. /\ p.head + i < RingCap => x = p.buf[p.head + i]
            /\ p.head + i >= RingCap => x = p.buf[p.head + i - RingCap]
        BY <4>1, SampleAt
      <4>. QED
        BY <2>2, <4>2
    <3>. HIDE DEF x, c, hd, sz, n, b
    <3>3. ASSUME i = sz PROVE x = g[(n + 1) - (sz + 1) + 1 + i]
      <4>1. (n + 1) - (sz + 1) + 1 + i = n + 1
        BY <1>3, <3>3
      <4>2. x = w[at]
        <5>1. hd + i < c => at = hd + i
          BY <1>3, <2>3, <3>3
        <5>2. ~(hd + i < c) => hd + i >= c /\ at = hd + i - c
          BY <1>3, <2>3, <3>3
        <5>. QED
          BY <3>2, <5>1, <5>2
      <4>. QED
        BY <1>2, <2>4, <4>1, <4>2
    <3>4. ASSUME i # sz PROVE x = g[(n + 1) - (sz + 1) + 1 + i]
      <4>1. i \in 0 .. sz - 1 /\ n - sz + 1 + i \in 1 .. n
            /\ (n + 1) - (sz + 1) + 1 + i = n - sz + 1 + i
        BY <1>3, <3>4
      <4>2. x = h[n - sz + 1 + i]
        <5>1. ASSUME hd + i < c PROVE x = h[n - sz + 1 + i]
          <6>1. hd + i \in 0 .. c - 1 /\ hd + i # at
            BY <1>3, <1>6, <2>3, <4>1, <5>1
          <6>2. x = b[hd + i]
            BY <2>4, <3>2, <5>1, <6>1
          <6>. QED
            BY <1>4, <4>1, <5>1, <6>2
        <5>2. ASSUME hd + i >= c PROVE x = h[n - sz + 1 + i]
          <6>1. hd + i - c \in 0 .. c - 1 /\ hd + i - c # at
            BY <1>3, <1>6, <2>3, <4>1, <5>2
          <6>2. x = b[hd + i - c]
            BY <2>4, <3>2, <5>2, <6>1
          <6>. QED
            BY <1>4, <4>1, <5>2, <6>2
        <5>. QED
          BY <1>3, <4>1, <5>1, <5>2
      <4>. QED
        BY <1>2, <4>1, <4>2, Zenon
    <3>. QED
      BY <3>3, <3>4, Zenon DEF x
  <2>6. p.sum = SumHeard(g, (n + 1) - (sz + 1) + 1 .. n + 1)
    <3>1. n - sz + 1 \in 1 .. n + 1 /\ (n + 1) - (sz + 1) + 1 = n - sz + 1
      <4>. HIDE DEF c, hd, sz, n
      <4>. QED
        BY <1>3
    <3>2. SumHeard(g, n - sz + 1 .. n + 1) = SumHeard(h, n - sz + 1 .. n) + e.usd
      BY <1>2, <3>1
    <3>. QED
      BY <1>1, <2>2, <3>1, <3>2
  <2>7. ASSUME NEW i \in 1 .. (n + 1) - (sz + 1) PROVE g[i].age > BaselineWindow \/ i <= (n + 1) - c
    <3>1. i \in 1 .. n - sz /\ i \in 1 .. n /\ (i <= n - c => i <= (n + 1) - c)
      <4>. HIDE DEF c, hd, sz, n
      <4>. QED
        BY <1>3
    <3>. QED
      BY <1>1, <1>2, <3>1
  <2>8. sz + 1 \in 0 .. c /\ sz + 1 <= n + 1
    <3>. HIDE DEF c, hd, sz, n
    <3>. QED
      BY <1>3, <1>6
  <2>9. /\ p.head \in 0 .. c - 1 /\ p.size \in 0 .. c /\ p.size <= Len(g)
        /\ p.buf = [i \in 0 .. c - 1 |-> p.buf[i]]
        /\ \A i \in 0 .. p.size - 1 : Sample(p, i) = g[Len(g) - p.size + 1 + i]
        /\ p.sum = SumHeard(g, Len(g) - p.size + 1 .. Len(g))
        /\ \A i \in 1 .. Len(g) - p.size : g[i].age > BaselineWindow \/ i <= Len(g) - c
    BY <1>1, <1>2, <2>2, <2>4, <2>5, <2>6, <2>7, <2>8, ZenonT(60)
  <2>. QED
    BY <1>2, <2>2, <2>9, Zenon DEF RingHolds
<1>7. ASSUME sz = c PROVE RingHolds(p, g)
  <2>. DEFINE w == [b EXCEPT ![hd] = e]
              ph == (hd + 1) % c
  <2>1. p = [r EXCEPT !.buf[hd] = e, !.head = (@ + 1) % c, !.sum = @ - b[hd].usd + e.usd]
    BY <1>3, <1>7 DEF Pushed
  <2>2. p.buf = w /\ p.head = ph /\ p.size = c /\ p.sum = r.sum - b[hd].usd + e.usd
        /\ p = [buf |-> p.buf, head |-> p.head, size |-> p.size, sum |-> p.sum]
    BY <1>1, <1>7, <2>1, Zenon
  <2>3. ph = (IF hd + 1 < c THEN hd + 1 ELSE 0) /\ ph \in 0 .. c - 1
    <3>. DEFINE a == hd + 1
    <3>. HIDE DEF c, hd, sz
    <3>1. a \in 0 .. 2 * c - 1 /\ ph = a % c
      BY <1>3
    <3>. HIDE DEF a, ph
    <3>2. ph = (IF a < c THEN a ELSE a - c) /\ ph \in 0 .. c - 1
      BY <1>3, <3>1, ModIs, Zenon
    <3>3. a = hd + 1
      BY DEF a
    <3>. QED
      BY <1>3, <3>2, <3>3
  <2>4. w = [i \in 0 .. c - 1 |-> w[i]] /\ w[hd] = e /\ \A i \in 0 .. c - 1 : i # hd => w[i] = b[i]
    <3>1. DOMAIN b = 0 .. c - 1
      BY <1>1
    <3>. HIDE DEF b
    <3>. QED
      BY <1>3, <3>1, Zenon
  <2>. HIDE DEF p, w, ph
  <2>5. ASSUME NEW i \in 0 .. c - 1 PROVE Sample(p, i) = g[(n + 1) - c + 1 + i]
    <3>. DEFINE x == Sample(p, i)
    <3>1. i \in 0 .. c
      <4>. HIDE DEF c, hd, sz, n
      <4>. QED
        BY <1>3
    <3>2. /\ ph + i < c => x = w[ph + i]
          /\ ph + i >= c => x = w[ph + i - c]
      <4>1. p.head \in 0 .. RingCap - 1 /\ i \in 0 .. RingCap
        BY <2>2, <2>3, <3>1
      <4>2. /\ p.head + i < RingCap => x = p.buf[p.head + i]
            /\ p.head + i >= RingCap => x = p.buf[p.head + i - RingCap]
        BY <4>1, SampleAt
      <4>. QED
        BY <2>2, <4>2
    <3>. HIDE DEF x, c, hd, sz, n, b
    <3>3. ASSUME i = c - 1 PROVE x = g[(n + 1) - c + 1 + i]
      <4>1. (n + 1) - c + 1 + i = n + 1
        BY <1>3, <3>3
      <4>2. x = w[hd]
        <5>1. hd + 1 < c => ph + i >= c /\ ph + i - c = hd
          BY <1>3, <2>3, <3>3
        <5>2. ~(hd + 1 < c) => ph + i < c /\ ph + i = hd
          BY <1>3, <2>3, <3>3
        <5>. QED
          BY <3>2, <5>1, <5>2
      <4>. QED
        BY <1>2, <2>4, <4>1, <4>2
    <3>4. ASSUME i # c - 1 PROVE x = g[(n + 1) - c + 1 + i]
      <4>1. i + 1 \in 0 .. sz - 1 /\ n - sz + 1 + (i + 1) \in 1 .. n
            /\ (n + 1) - c + 1 + i = n - sz + 1 + (i + 1)
        BY <1>3, <1>7, <3>4
      <4>2. x = h[n - sz + 1 + (i + 1)]
        <5>1. ASSUME hd + (i + 1) < c PROVE x = h[n - sz + 1 + (i + 1)]
          <6>1. hd + (i + 1) \in 0 .. c - 1 /\ hd + (i + 1) # hd /\ ph + i = hd + (i + 1) /\ ph + i < c
            BY <1>3, <1>7, <2>3, <4>1, <5>1
          <6>2. x = b[hd + (i + 1)]
            BY <2>4, <3>2, <6>1
          <6>. QED
            BY <1>4, <4>1, <5>1, <6>2
        <5>2. ASSUME hd + (i + 1) >= c PROVE x = h[n - sz + 1 + (i + 1)]
          <6>. DEFINE j == hd + (i + 1) - c
          <6>1. j \in 0 .. c - 1 /\ j # hd
                /\ ((ph + i >= c /\ ph + i - c = j) \/ (ph + i < c /\ ph + i = j))
            BY <1>3, <1>7, <2>3, <4>1, <5>2
          <6>. HIDE DEF j
          <6>2. x = b[j]
            BY <2>4, <3>2, <6>1
          <6>3. b[j] = h[n - sz + 1 + (i + 1)]
            BY <1>4, <4>1, <5>2 DEF j
          <6>. QED
            BY <6>2, <6>3
        <5>. QED
          BY <1>3, <4>1, <5>1, <5>2
      <4>. QED
        BY <1>2, <4>1, <4>2, Zenon
    <3>. QED
      BY <3>3, <3>4, Zenon DEF x
  <2>6. p.sum = SumHeard(g, (n + 1) - c + 1 .. n + 1)
    <3>. DEFINE a == n - sz + 1
    <3>1. a \in 1 .. n /\ a \in Nat /\ a + 1 \in 1 .. n + 1 /\ (n + 1) - c + 1 = a + 1 /\ 0 \in 0 .. sz - 1 /\ a + 0 = a
          /\ 1 <= a /\ a <= a + 1 /\ a <= n /\ hd + 0 < c /\ hd + 0 = hd
      <4>. HIDE DEF c, hd, sz, n
      <4>. QED
        BY <1>3, <1>7
    <3>2. b[hd] = h[a]
      <4>1. b[hd + 0] = h[n - sz + 1 + 0]
        BY <1>4, <3>1
      <4>. QED
        BY <3>1, <4>1
    <3>. HIDE DEF a
    <3>3. h[a].usd \in Nat
      BY <1>1, <3>1, HeardTyped, Zenon
    <3>4. /\ SumHeard(h, a .. n) = SumHeard(h, a .. a) + SumHeard(h, a + 1 .. n)
          /\ SumHeard(h, a + 1 .. n) \in Int
      <4>1. h \in Seq([usd : Nat, age : Nat]) /\ n \in Nat /\ n <= Len(h)
        <5>1. n <= n
          BY <1>3
        <5>. QED
          BY <1>1, <5>1
      <4>. HIDE DEF n
      <4>. QED
        BY <3>1, <4>1, SumCut, ZenonT(60)
    <3>5. SumHeard(h, a .. a) = h[a].usd
      <4>. DEFINE f == [i \in DOMAIN h |-> h[i].usd]
      <4>1. f[a] = h[a].usd /\ f[a] \in Int
        <5>1. DOMAIN h = 1 .. n
          BY <1>1, HeardTyped
        <5>2. a \in DOMAIN h
          BY <3>1, <5>1
        <5>. QED
          BY <3>3, <5>2
      <4>2. a .. a = {a}
        BY <3>1
      <4>. HIDE DEF f
      <4>3. Total(f, {a}) = f[a]
        BY <4>1, TotalOne, Zenon
      <4>. QED
        BY <4>1, <4>2, <4>3 DEF SumHeard, f
    <3>6. SumHeard(g, a + 1 .. n + 1) = SumHeard(h, a + 1 .. n) + e.usd
      BY <1>2, <3>1
    <3>7. r.sum = SumHeard(h, a .. n)
      BY <1>1 DEF a
    <3>8. p.sum = SumHeard(h, a + 1 .. n) + e.usd
      BY <1>5, <2>2, <3>2, <3>3, <3>4, <3>5, <3>7
    <3>. QED
      BY <3>1, <3>6, <3>8
  <2>7. \A i \in 1 .. (n + 1) - c : i <= (n + 1) - c
    <3>. HIDE DEF c, n
    <3>. QED
      BY <1>3
  <2>8. c \in 0 .. c /\ c <= n + 1
    <3>. HIDE DEF c, hd, sz, n
    <3>. QED
      BY <1>3, <1>7
  <2>9. /\ p.head \in 0 .. c - 1 /\ p.size \in 0 .. c /\ p.size <= Len(g)
        /\ p.buf = [i \in 0 .. c - 1 |-> p.buf[i]]
        /\ \A i \in 0 .. p.size - 1 : Sample(p, i) = g[Len(g) - p.size + 1 + i]
        /\ p.sum = SumHeard(g, Len(g) - p.size + 1 .. Len(g))
        /\ \A i \in 1 .. Len(g) - p.size : g[i].age > BaselineWindow \/ i <= Len(g) - c
    BY <1>2, <2>2, <2>3, <2>4, <2>5, <2>6, <2>7, <2>8, ZenonT(60)
  <2>. QED
    BY <1>2, <2>2, <2>9, Zenon DEF RingHolds
<1>8. sz < c \/ sz = c
  <2>. HIDE DEF c, sz
  <2>. QED
    BY <1>3
<1>. QED
  BY <1>6, <1>7, <1>8

\* What the reservoir says of the trade that comes next.
LEMMA StatsTell ==
    ASSUME NEW t, RingHolds(t, heard), FirstIsYoung(t), NEW e \in [usd : Nat, age : Nat],
           heard' = Append(heard, e), row' = Verdict("ring", TRUE, FALSE, RingStats(t))
    PROVE  row'.by = "ring" /\ RingTellsTheLast'
<1>. DEFINE n == Len(heard)
            sz == t.size
            h == heard
            g == heard'
            counted == n - sz + 1 .. n
            w == BaselineWindow
            c == RingCap
<1>1. /\ h \in Seq([usd : Nat, age : Nat]) /\ n \in Nat /\ sz \in 0 .. c /\ sz <= n
      /\ \A i \in 0 .. sz - 1 : Sample(t, i) = h[n - sz + 1 + i]
      /\ t.sum = SumHeard(h, n - sz + 1 .. n)
      /\ \A i \in 1 .. n - sz : h[i].age > w \/ i <= n - c
  BY HeardTyped DEF RingHolds
<1>2. GrownBy(h, g, e)
  BY <1>1, OneMoreHeard, Zenon
<1>3. c \in Nat /\ c > 0 /\ n \in Nat /\ sz \in 0 .. c /\ sz <= n /\ w \in Nat
  BY <1>1, ContextAssumption, WindowsAssumption
<1>4. /\ row'.by = "ring" /\ row'.on.count = sz /\ row'.on.usd = t.sum
      /\ row'.on.span = LET ages == {Sample(t, i).age : i \in 0 .. sz - 1}
                        IN  IF ages = {} THEN 0 ELSE Max(ages) - Min(ages)
  BY Zenon DEF Verdict, RingStats
<1>5. Len(g) - 1 = n /\ \A i \in 1 .. n : g[i] = h[i]
  BY <1>2, <1>3 DEF GrownBy
<1>6. \A i \in counted : i \in 1 .. n
  <2>. HIDE DEF n, sz
  <2>. QED
    BY <1>3
<1>7. \A i \in 1 .. n : g[i].usd \in Nat /\ g[i].age \in Nat
  BY <1>1, <1>5, HeardTyped, Zenon
<1>8. t.sum = Total([i \in counted |-> g[i].usd], counted)
  <2>. DEFINE u == [i \in counted |-> g[i].usd]
              v == [i \in DOMAIN h |-> h[i].usd]
  <2>1. DOMAIN h = 1 .. n
    BY <1>1, HeardTyped
  <2>2. \A i \in counted : v[i] \in Int /\ u[i] = v[i]
    BY <1>5, <1>6, <1>7, <2>1
  <2>3. IsFiniteSet(counted)
    <3>1. n - sz + 1 \in Int /\ n \in Int
      BY <1>3
    <3>. QED
      BY <3>1, FS_Interval, Zenon
  <2>. HIDE DEF u, v, counted
  <2>4. Total(u, counted) = Total(v, counted)
    BY <2>2, <2>3, TotalSame
  <2>. QED
    BY <1>1, <2>4, Zenon DEF SumHeard, u, v, counted
<1>9. {Sample(t, i).age : i \in 0 .. sz - 1} = {g[i].age : i \in counted}
  <2>. DEFINE A == {Sample(t, i).age : i \in 0 .. sz - 1}
              B == {g[i].age : i \in counted}
  <2>1. ASSUME NEW i \in 0 .. sz - 1 PROVE Sample(t, i).age \in B
    <3>1. n - sz + 1 + i \in counted /\ n - sz + 1 + i \in 1 .. n
      <4>. HIDE DEF n, sz
      <4>. QED
        BY <1>3
    <3>2. Sample(t, i) = g[n - sz + 1 + i]
      BY <1>1, <1>5, <3>1, Zenon
    <3>. QED
      BY <3>1, <3>2
  <2>2. ASSUME NEW i \in counted PROVE g[i].age \in A
    <3>. DEFINE j == i - (n - sz + 1)
    <3>1. j \in 0 .. sz - 1 /\ n - sz + 1 + j = i /\ i \in 1 .. n
      <4>. HIDE DEF n, sz
      <4>. QED
        BY <1>3
    <3>. HIDE DEF j
    <3>2. Sample(t, j) = g[i]
      BY <1>1, <1>5, <3>1, Zenon
    <3>. QED
      BY <3>1, <3>2
  <2>3. (\A i \in 0 .. sz - 1 : Sample(t, i).age \in B) /\ (\A i \in counted : g[i].age \in A)
    BY <2>1, <2>2, Zenon
  <2>4. A \subseteq B
    <3>. HIDE DEF B
    <3>. QED
      BY <2>3
  <2>5. B \subseteq A
    <3>. HIDE DEF A, counted
    <3>. QED
      BY <2>3, Zenon
  <2>. QED
    BY <2>4, <2>5, Zenon
<1>10. ASSUME NEW i \in 1 .. n, g[i].age <= w PROVE i \in counted \/ i <= n - c
  <2>1. CASE i \in 1 .. n - sz
    <3>1. h[i].age > w \/ i <= n - c
      BY <1>1, <2>1
    <3>2. g[i].age = h[i].age /\ g[i].age \in Nat
      BY <1>5, <1>7
    <3>. HIDE DEF n, sz, w, g, h
    <3>. QED
      BY <1>3, <1>10, <3>1, <3>2
  <2>2. CASE i \notin 1 .. n - sz
    <3>. HIDE DEF n, sz
    <3>. QED
      BY <1>3, <2>2
  <2>. QED
    BY <2>1, <2>2
<1>11. ASSUME NEW i \in counted, g[i].age > w PROVE \E j \in counted : j < i /\ g[j].age <= w
  <2>. DEFINE j == n - sz + 1
  <2>1. sz > 0 /\ 0 \in 0 .. sz - 1 /\ n - sz + 1 + 0 = j /\ j \in counted /\ j \in 1 .. n /\ j <= i
        /\ i \in Int /\ j \in Int
    <3>. HIDE DEF n, sz
    <3>. QED
      BY <1>3
  <2>2. Sample(t, 0) = g[j]
    BY <1>1, <1>5, <2>1, Zenon
  <2>3. g[j].age <= w
    BY <2>1, <2>2 DEF FirstIsYoung
  <2>4. g[i].age \in Nat /\ g[j].age \in Nat
    BY <1>6, <1>7, <2>1
  <2>. HIDE DEF j, w, g, counted
  <2>5. j # i
    BY <1>3, <1>11, <2>3, <2>4
  <2>. QED
    BY <2>1, <2>3, <2>5
<1>12. LET before == Len(heard') - 1
           cs == before - row'.on.count + 1 .. before
           Ages == {heard'[i].age : i \in cs}
       IN  /\ row'.on.usd = Total([i \in cs |-> heard'[i].usd], cs)
           /\ row'.on.span = IF Ages = {} THEN 0 ELSE Max(Ages) - Min(Ages)
           /\ \A i \in 1 .. before : heard'[i].age <= w => i \in cs \/ i <= before - c
           /\ \A i \in cs : heard'[i].age > w => \E j \in cs : j < i /\ heard'[j].age <= w
  <2>. DEFINE before == Len(heard') - 1
              cs == before - row'.on.count + 1 .. before
  <2>1. before = n /\ cs = counted
    BY <1>4, <1>5, Zenon
  <2>. HIDE DEF before, cs, n, counted
  <2>2. row'.on.usd = Total([i \in cs |-> g[i].usd], cs)
    BY <1>4, <1>8, <2>1, Zenon
  <2>3. row'.on.span = IF {g[i].age : i \in cs} = {} THEN 0 ELSE Max({g[i].age : i \in cs}) - Min({g[i].age : i \in cs})
    BY <1>4, <1>9, <2>1, Zenon
  <2>4. /\ \A i \in 1 .. before : g[i].age <= w => i \in cs \/ i <= before - c
        /\ \A i \in cs : g[i].age > w => \E j \in cs : j < i /\ g[j].age <= w
    BY <1>10, <1>11, <2>1, Zenon
  <2>. QED
    BY <2>2, <2>3, <2>4, Zenon DEF before, cs
<1>. QED
  BY <1>4, <1>12, Zenon DEF RingTellsTheLast

\* A function on the first numbers is a sequence.
LEMMA SeqOfRows ==
    ASSUME NEW R, NEW n \in Nat, NEW g \in [1 .. n -> R]
    PROVE  g \in Seq(R) /\ Len(g) = n
<1>1. g = [i \in 1 .. n |-> g[i]] /\ \A i \in 1 .. n : g[i] \in R
  OBVIOUS
<1>. QED
  BY <1>1

\* A unit later the same trades are in the ring, and what was too old stays so.
LEMMA AgedHolds ==
    ASSUME NEW r, NEW h, RingHolds(r, h), NEW q, NEW g,
           q = [r EXCEPT !.buf = AgedBuffer(r.buf)],
           g = [i \in DOMAIN h |-> [h[i] EXCEPT !.age = Older(@, Horizon)]]
    PROVE  RingHolds(q, g)
<1>. DEFINE R == [usd : Nat, age : Nat]
            n == Len(h)
            c == RingCap
            hd == r.head
            sz == r.size
            b == r.buf
            d == q.buf
            w == BaselineWindow
<1>1. /\ h \in Seq(R) /\ n \in Nat
      /\ r = [buf |-> b, head |-> hd, size |-> sz, sum |-> r.sum]
      /\ hd \in 0 .. c - 1 /\ sz \in 0 .. c /\ sz <= n
      /\ b = [i \in 0 .. c - 1 |-> b[i]]
      /\ \A i \in 0 .. sz - 1 : Sample(r, i) = h[n - sz + 1 + i]
      /\ r.sum = SumHeard(h, n - sz + 1 .. n)
      /\ \A i \in 1 .. n - sz : h[i].age > BaselineWindow \/ i <= n - c
  BY HeardTyped DEF RingHolds
<1>2. c \in Nat /\ c > 0 /\ n \in Nat /\ hd \in 0 .. c - 1 /\ sz \in 0 .. c /\ sz <= n /\ w \in Nat
  BY <1>1, ContextAssumption, WindowsAssumption
<1>3. DOMAIN h = 1 .. n /\ \A i \in 1 .. n : /\ h[i].usd \in Nat /\ h[i].age \in Nat
                                             /\ h[i] = [usd |-> h[i].usd, age |-> h[i].age]
  BY <1>1, HeardTyped, Zenon
<1>4. DOMAIN b = 0 .. c - 1
  BY <1>1
<1>5. /\ q.head = hd /\ q.size = sz /\ q.sum = r.sum
      /\ q = [buf |-> q.buf, head |-> q.head, size |-> q.size, sum |-> q.sum]
      /\ d = [i \in DOMAIN b |-> IF b[i] = << >> THEN b[i] ELSE [b[i] EXCEPT !.age = Older(@, Horizon)]]
  <2>1. /\ q.head = hd /\ q.size = sz /\ q.sum = r.sum /\ d = AgedBuffer(b)
        /\ q = [buf |-> q.buf, head |-> q.head, size |-> q.size, sum |-> q.sum]
    BY <1>1
  <2>. QED
    BY <2>1 DEF AgedBuffer
<1>6. ASSUME NEW i \in 1 .. n
      PROVE  g[i] = [usd |-> h[i].usd, age |-> Older(h[i].age, Horizon)] /\ g[i].usd = h[i].usd /\ g[i].usd \in Nat
             /\ g[i].age = Older(h[i].age, Horizon) /\ g[i].age \in Nat /\ (h[i].age > w => g[i].age > w)
  <2>. DEFINE x == h[i].usd
              y == h[i].age
              z == Older(y, Horizon)
  <2>1. g[i] = [h[i] EXCEPT !.age = Older(@, Horizon)] /\ h[i] = [usd |-> x, age |-> y] /\ x \in Nat /\ y \in Nat
    BY <1>3
  <2>2. z \in Nat
    BY <2>1, OlderTyped, HorizonIs
  <2>3. y > w => z > w
    BY <1>2, <2>1, HorizonIs DEF Older
  <2>. HIDE DEF x, y, z
  <2>4. g[i] = [usd |-> x, age |-> z]
    BY <2>1 DEF z
  <2>5. g[i].usd = x /\ g[i].age = z
    BY <2>4
  <2>. QED
    BY <2>1, <2>2, <2>3, <2>4, <2>5 DEF x, y, z
<1>7. ASSUME NEW j \in 0 .. c - 1, NEW m \in 1 .. n, b[j] = h[m] PROVE d[j] = g[m]
  <2>. DEFINE x == h[m].usd
              y == h[m].age
              z == Older(y, Horizon)
  <2>1. h[m] = [usd |-> x, age |-> y] /\ g[m] = [usd |-> x, age |-> z]
    BY <1>3, <1>6
  <2>2. d[j] = IF b[j] = << >> THEN b[j] ELSE [b[j] EXCEPT !.age = Older(@, Horizon)]
    BY <1>4, <1>5, Zenon
  <2>. HIDE DEF x, y, b, d
  <2>3. "usd" \in DOMAIN h[m]
    BY <2>1
  <2>4. h[m] # << >>
    BY <2>3
  <2>5. d[j] = [h[m] EXCEPT !.age = Older(@, Horizon)]
    BY <1>7, <2>2, <2>4
  <2>. QED
    BY <2>1, <2>5
<1>8. ASSUME NEW i \in 0 .. sz - 1 PROVE Sample(q, i) = g[n - sz + 1 + i]
  <2>. DEFINE m == n - sz + 1 + i
  <2>1. i \in 0 .. c /\ m \in 1 .. n
    <3>. HIDE DEF c, hd, sz, n
    <3>. QED
      BY <1>2
  <2>2. /\ hd + i < c => Sample(r, i) = b[hd + i]
        /\ hd + i >= c => Sample(r, i) = b[hd + i - c]
    BY <1>2, <2>1, SampleAt, Zenon
  <2>3. /\ hd + i < c => Sample(q, i) = d[hd + i]
        /\ hd + i >= c => Sample(q, i) = d[hd + i - c]
    <3>1. q.head \in 0 .. RingCap - 1 /\ i \in 0 .. RingCap
      BY <1>2, <1>5, <2>1
    <3>2. /\ q.head + i < RingCap => Sample(q, i) = d[q.head + i]
          /\ q.head + i >= RingCap => Sample(q, i) = d[q.head + i - RingCap]
      BY <3>1, SampleAt, Zenon
    <3>. QED
      BY <1>5, <3>2
  <2>4. Sample(r, i) = h[m]
    BY <1>1
  <2>. DEFINE o == Sample(r, i)
              v == Sample(q, i)
  <2>. HIDE DEF o, v, m, c, hd, sz, n, b, d
  <2>5. ASSUME hd + i < c PROVE v = g[m]
    <3>1. hd + i \in 0 .. c - 1
      BY <1>2, <2>1, <2>5
    <3>2. b[hd + i] = h[m] /\ v = d[hd + i]
      BY <2>2, <2>3, <2>4, <2>5 DEF o, v
    <3>. QED
      BY <1>7, <2>1, <3>1, <3>2, Zenon
  <2>6. ASSUME hd + i >= c PROVE v = g[m]
    <3>1. hd + i - c \in 0 .. c - 1
      BY <1>2, <2>1, <2>6
    <3>2. b[hd + i - c] = h[m] /\ v = d[hd + i - c]
      BY <2>2, <2>3, <2>4, <2>6 DEF o, v
    <3>. QED
      BY <1>7, <2>1, <3>1, <3>2, SMTT(40)
  <2>7. v = g[m]
    BY <1>2, <2>1, <2>5, <2>6
  <2>. QED
    BY <2>7 DEF v, m
<1>9. g \in Seq(R) /\ Len(g) = n
  <2>1. g = [i \in 1 .. n |-> g[i]]
    BY <1>3
  <2>2. ASSUME NEW i \in 1 .. n PROVE g[i] \in R
    <3>. DEFINE x == h[i].usd
                z == Older(h[i].age, Horizon)
    <3>1. g[i] = [usd |-> x, age |-> z] /\ x \in Nat /\ z \in Nat
      BY <1>6, Zenon
    <3>. HIDE DEF x, z
    <3>. QED
      BY <3>1
  <2>. HIDE DEF R, n
  <2>3. g \in [1 .. n -> R]
    BY <2>1, <2>2
  <2>. QED
    BY <1>2, <2>3, SeqOfRows, Zenon
<1>10. r.sum = SumHeard(g, n - sz + 1 .. n)
  <2>. DEFINE u == [i \in DOMAIN h |-> h[i].usd]
              v == [i \in DOMAIN g |-> g[i].usd]
              A == n - sz + 1 .. n
  <2>1. \A i \in A : i \in 1 .. n
    <3>. HIDE DEF sz, n
    <3>. QED
      BY <1>2
  <2>2. DOMAIN g = 1 .. n
    BY <1>3
  <2>3. \A i \in A : u[i] \in Int /\ v[i] = u[i]
    BY <1>3, <1>6, <2>1, <2>2
  <2>4. IsFiniteSet(A)
    <3>1. n - sz + 1 \in Int /\ n \in Int
      BY <1>2
    <3>. QED
      BY <3>1, FS_Interval
  <2>. HIDE DEF u, v, A
  <2>5. Total(u, A) = Total(v, A)
    BY <2>3, <2>4, TotalSame
  <2>. QED
    BY <1>1, <2>5 DEF SumHeard, u, v, A
<1>11. ASSUME NEW i \in 1 .. n - sz PROVE g[i].age > w \/ i <= n - c
  <2>1. i \in 1 .. n
    <3>. HIDE DEF sz, n
    <3>. QED
      BY <1>2
  <2>. QED
    BY <1>1, <1>6, <2>1, Zenon
<1>12. d = [i \in 0 .. c - 1 |-> d[i]]
  BY <1>4, <1>5, Zenon
<1>13. /\ q.head \in 0 .. c - 1 /\ q.size \in 0 .. c /\ q.size <= Len(g)
       /\ q.buf = [i \in 0 .. c - 1 |-> q.buf[i]]
       /\ \A i \in 0 .. q.size - 1 : Sample(q, i) = g[Len(g) - q.size + 1 + i]
       /\ q.sum = SumHeard(g, Len(g) - q.size + 1 .. Len(g))
       /\ \A i \in 1 .. Len(g) - q.size : g[i].age > w \/ i <= Len(g) - c
  <2>1. q.head = hd /\ q.size = sz /\ q.sum = r.sum /\ q.buf = d /\ Len(g) = n
    BY <1>5, <1>9
  <2>2. q.head \in 0 .. c - 1 /\ q.size \in 0 .. c /\ q.size <= Len(g)
    BY <1>2, <2>1
  <2>3. q.buf = [i \in 0 .. c - 1 |-> q.buf[i]]
    BY <1>12
  <2>4. \A i \in 0 .. q.size - 1 : Sample(q, i) = g[Len(g) - q.size + 1 + i]
    BY <1>8, <2>1, Zenon
  <2>5. q.sum = SumHeard(g, Len(g) - q.size + 1 .. Len(g))
    BY <1>10, <2>1, Zenon
  <2>6. \A i \in 1 .. Len(g) - q.size : g[i].age > w \/ i <= Len(g) - c
    BY <1>11, <2>1, Zenon
  <2>. QED
    BY <2>2, <2>3, <2>4, <2>5, <2>6, Zenon
<1>. QED
  BY <1>5, <1>9, <1>13, Zenon DEF RingHolds

\* The reservoir: it holds the last trades, and told them.
RingInv ==
    lane = "ring" => RingHolds(ring, heard) /\ (row # NoRow => row.by = "ring" /\ RingTellsTheLast)

\* Every step of the reservoir's lane keeps its invariant.
LEMMA RingStep ==
    ASSUME lane \in Lanes, lane = "ring", RingInv, RingNext
    PROVE  lane' = lane /\ RingInv'
<1>1. RingHolds(ring, heard)
  BY DEF RingInv
<1>2. ASSUME NEW s \in Sorts, NEW a \in {0} \cup PastAges, HeardOf(s, a) PROVE lane' = lane /\ RingInv'
  <2>. DEFINE e == [usd |-> s.usd, age |-> a]
              t == Trimmed(ring)
  <2>1. a \in Nat /\ s.usd \in Nat
    BY ContextAssumption, WindowsAssumption, HorizonIs
  <2>2. e \in [usd : Nat, age : Nat]
    BY <2>1
  <2>3. /\ row' = Verdict("ring", TRUE, FALSE, RingStats(t)) /\ ring' = Pushed(t, e)
        /\ heard' = Append(heard, e) /\ lane' = lane
    BY <1>2 DEF HeardOf
  <2>. HIDE DEF t, e
  <2>4. RingHolds(t, heard) /\ FirstIsYoung(t)
    BY <1>1, TrimmedHolds DEF t
  <2>5. RingHolds(ring', heard')
    BY <2>2, <2>3, <2>4, PushedHolds, Zenon
  <2>6. row'.by = "ring" /\ RingTellsTheLast'
    BY <2>2, <2>3, <2>4, StatsTell, Zenon
  <2>. QED
    BY <2>3, <2>5, <2>6, Zenon DEF RingInv
<1>3. ASSUME RingElapses PROVE lane' = lane /\ RingInv'
  <2>2. ring' = [ring EXCEPT !.buf = AgedBuffer(ring.buf)]
    BY <1>3 DEF RingElapses
  <2>3. heard' = [i \in DOMAIN heard |-> [heard[i] EXCEPT !.age = Older(@, Horizon)]]
    BY <1>3 DEF RingElapses
  <2>1. RingHolds(ring', heard')
    BY <1>1, <2>2, <2>3, AgedHolds
  <2>. QED
    BY <1>3, <2>1 DEF RingInv, RingElapses, FrameElapses
<1>. QED
  BY <1>2, <1>3 DEF RingNext

\* An empty reservoir holds nothing of nothing.
LEMMA RingStarts ==
    RingHolds(EmptyRing, << >>)
<1>. DEFINE r == EmptyRing
            h == << >>
<1>1. RingCap \in Nat \ {0}
  BY ContextAssumption
<1>2. h \in Seq([usd : Nat, age : Nat]) /\ Len(h) = 0
  OBVIOUS
<1>3. /\ r.head = 0 /\ r.size = 0 /\ r.sum = 0 /\ r.buf = [i \in 0 .. RingCap - 1 |-> << >>]
      /\ r = [buf |-> r.buf, head |-> r.head, size |-> r.size, sum |-> r.sum]
  BY DEF EmptyRing
<1>. HIDE DEF r, h
<1>4. SumHeard(h, 1 .. 0) = 0
  <2>1. 1 .. 0 = {}
    OBVIOUS
  <2>. QED
    BY <2>1, TotalEmpty DEF SumHeard
<1>5. /\ r.head \in 0 .. RingCap - 1 /\ r.size \in 0 .. RingCap /\ r.size <= Len(h)
      /\ r.buf = [i \in 0 .. RingCap - 1 |-> r.buf[i]]
      /\ \A i \in 0 .. r.size - 1 : Sample(r, i) = h[Len(h) - r.size + 1 + i]
      /\ r.sum = SumHeard(h, Len(h) - r.size + 1 .. Len(h))
      /\ \A i \in 1 .. Len(h) - r.size : h[i].age > BaselineWindow \/ i <= Len(h) - RingCap
  BY <1>1, <1>2, <1>3, <1>4
<1>. QED
  BY <1>2, <1>3, <1>5 DEF RingHolds, r, h

-----------------------------------------------------------------------------
(* Together *)

\* The lanes of the strategies, of an alert's context and of the watched markets.
StrategyLanes == {"cohort", "thesis", "tail", "lag", "holders", "bars",
                  "conflict", "catalyst", "context", "ring", "watch"}

\* The inductive invariant: each lane's own; only walletcohort's lane has
\* edges, and a lane of no strategy has no row.
InputsInv ==
    /\ lane \in Lanes
    /\ lane # "cohort" => edges = {}
    /\ lane \notin StrategyLanes => row = NoRow
    /\ GraphInv /\ LinesInv /\ TailInv /\ LagInv /\ HoldersInv /\ BarsInv
    /\ ConflictInv /\ CatalystInv /\ ContextInv /\ RingInv /\ WatchInv

\* A lane's invariant says nothing of a behaviour of another lane.
LEMMA OtherLanes ==
    /\ lane' # "cohort" => GraphInv'
    /\ lane' # "thesis" => LinesInv'
    /\ lane' # "tail" => TailInv'
    /\ lane' # "lag" => LagInv'
    /\ lane' # "holders" => HoldersInv'
    /\ lane' # "bars" => BarsInv'
    /\ lane' # "conflict" => ConflictInv'
    /\ lane' # "catalyst" => CatalystInv'
    /\ lane' # "context" => ContextInv'
    /\ lane' # "ring" => RingInv'
    /\ lane' # "watch" => WatchInv'
<1>1. lane' # "cohort" => GraphInv'
  BY DEF GraphInv
<1>2. lane' # "thesis" => LinesInv'
  BY DEF LinesInv
<1>3. lane' # "tail" => TailInv'
  BY DEF TailInv
<1>4. lane' # "lag" => LagInv'
  BY DEF LagInv
<1>5. lane' # "holders" => HoldersInv'
  BY DEF HoldersInv
<1>6. lane' # "bars" => BarsInv'
  BY DEF BarsInv
<1>7. lane' # "conflict" => ConflictInv'
  BY DEF ConflictInv
<1>8. lane' # "catalyst" => CatalystInv'
  BY DEF CatalystInv
<1>9. lane' # "context" => ContextInv'
  BY DEF ContextInv
<1>10. lane' # "ring" => RingInv'
  BY DEF RingInv
<1>11. lane' # "watch" => WatchInv'
  BY DEF WatchInv
<1>. QED
  BY <1>1, <1>2, <1>3, <1>4, <1>5, <1>6, <1>7, <1>8, <1>9, <1>10, <1>11

\* At the start the tables are empty and nothing was asked.
LEMMA InputsStart == InputsInit => InputsInv
<1>. SUFFICES ASSUME InputsInit PROVE InputsInv
  OBVIOUS
<1>0. /\ lane \in Lanes /\ live = Listed[lane] /\ tape = << >> /\ cache = << >> /\ row = NoRow
  BY DEF InputsInit, StagedInit
<1>a. CacheTyped(cache)
  BY <1>0 DEF CacheTyped
<1>1. GraphInv
  BY <1>0 DEF GraphInv, InputsInit, GraphInit, EdgeIsShared
<1>2. LinesInv
  BY <1>0, <1>a DEF LinesInv, InputsInit, LinesInit, OneLineEach, KeptLinesHold
<1>3. TailInv
  BY <1>0, <1>a, MarketsAssumption DEF TailInv, InputsInit, ScoresInit, TailKept
<1>4. LagInv
  BY <1>0, <1>a DEF LagInv, InputsInit, WindowsInit
<1>5. HoldersInv
  BY <1>0, <1>a DEF HoldersInv, InputsInit, HoldersInit
<1>6. BarsInv
  BY <1>0, <1>a DEF BarsInv, InputsInit, BarsInit
<1>7. ConflictInv
  BY <1>0, <1>a DEF ConflictInv, InputsInit, ConflictsInit, DecidedHolds, IsList, ConflictKept
<1>8. CatalystInv
  BY <1>0, <1>a, FS_EmptySet DEF CatalystInv, CatalystTable, InputsInit, CatalystsInit
<1>9. ContextInv
  BY <1>0, FS_EmptySet DEF ContextInv, ContextTable, InputsInit, ContextInit, TradeCounts, KnownTyped, Trades
<1>10. RingInv
  BY <1>0, RingStarts DEF RingInv, InputsInit, ContextInit
<1>11. WatchInv
  BY <1>0 DEF WatchInv
<1>12. edges = {}
  BY DEF InputsInit, GraphInit
<1>. QED
  BY <1>0, <1>1, <1>2, <1>3, <1>4, <1>5, <1>6, <1>7, <1>8, <1>9, <1>10, <1>11, <1>12 DEF InputsInv

\* A question left to another moment changes nothing.
LEMMA InputsRest ==
    ASSUME InputsInv, UNCHANGED inputsVars
    PROVE  InputsInv'
<1>0. /\ lane' = lane /\ live' = live /\ tape' = tape /\ cache' = cache /\ row' = row
      /\ edges' = edges /\ links' = links /\ lines' = lines
      /\ scores' = scores /\ version' = version /\ expected' = expected
      /\ triggers' = triggers /\ open' = open /\ closed' = closed
      /\ holding' = holding /\ snaps' = snaps /\ book' = book /\ bars' = bars
      /\ decided' = decided /\ catalysts' = catalysts
      /\ stored' = stored /\ known' = known /\ asked' = asked
      /\ ring' = ring /\ heard' = heard /\ marks' = marks /\ notes' = notes
  BY DEF inputsVars, stagedVars, scoreVars, windowVars, holderVars, barVars, contextVars,
         tableVars, ringVars, selectionVars
<1>. USE <1>0
<1>1. GraphInv'
  <2>1. GraphInv
    BY DEF InputsInv
  <2>2. EdgeIsShared => EdgeIsShared'
    BY SharedMeans
  <2>. QED
    BY <2>1, <2>2 DEF GraphInv
<1>2. LinesInv'
  BY DEF InputsInv, LinesInv, ThesisWasTraded, GroupOf, Usd
<1>3. TailInv'
  BY DEF InputsInv, TailInv, TailIsClear, StoredAmbiguity
<1>4. LagInv'
  BY DEF InputsInv, LagInv
<1>5. HoldersInv'
  BY DEF InputsInv, HoldersInv, LeaversMakeNoBuyer
<1>6. BarsInv'
  BY DEF InputsInv, BarsInv
<1>7. ConflictInv'
  BY DEF InputsInv, ConflictInv, ConflictIsNoticed
<1>8. CatalystInv'
  <2>1. CatalystInv
    BY DEF InputsInv
  <2>2. LiveRows' = LiveRows
    BY DEF LiveRows
  <2>3. CatalystTable => CatalystTable'
    BY DEF CatalystTable
  <2>4. AheadBeatsBehind => AheadBeatsBehind'
    BY Zenon DEF AheadBeatsBehind
  <2>5. LiveRowsHaveCause => LiveRowsHaveCause'
    BY <2>2 DEF LiveRowsHaveCause
  <2>6. BlockerIsTold => BlockerIsTold'
    BY <2>2, Zenon DEF BlockerIsTold
  <2>. QED
    BY <2>1, <2>3, <2>4, <2>5, <2>6 DEF CatalystInv, CatalystsTellAhead
<1>9. ContextInv'
  <2>1. ContextInv
    BY DEF InputsInv
  <2>2. Trades' = Trades
    BY DEF Trades
  <2>3. \A w : TradesOf(w)' = TradesOf(w)
    BY <2>2 DEF TradesOf
  <2>4. ContextTable => ContextTable'
    BY <2>2 DEF ContextTable
  <2>5. \A kinds : CountOf(kinds)' = CountOf(kinds)
    BY DEF CountOf
  <2>6. ContextIsTrue => ContextIsTrue'
    BY <2>2, <2>3, <2>5 DEF ContextIsTrue
  <2>. QED
    BY <2>1, <2>4, <2>6 DEF ContextInv
<1>10. RingInv'
  <2>1. RingInv
    BY DEF InputsInv
  <2>2. RingTellsTheLast => RingTellsTheLast'
    BY ZenonT(60) DEF RingTellsTheLast
  <2>. QED
    BY <2>1, <2>2 DEF RingInv
<1>11. WatchInv'
  <2>1. WatchInv
    BY DEF InputsInv
  <2>2. /\ \A m, mark : Is(m, mark)' <=> Is(m, mark)
        /\ \A m : HotBucket(m)' = HotBucket(m)
        /\ Hot' = Hot
        /\ \A b : InBucket(b)' = InBucket(b)
    BY SameMarks
  <2>3. ASSUME NEW m PROVE {h \in Hot' : HotBucket(h)' <= HotBucket(m)'} = {h \in Hot : HotBucket(h) <= HotBucket(m)}
    BY <2>2
  <2>4. StreamTakesTheUrgent => StreamTakesTheUrgent'
    BY <2>2, <2>3, Zenon DEF StreamTakesTheUrgent
  <2>5. PollKeepsItsPlaces => PollKeepsItsPlaces'
    BY <2>2, Zenon DEF PollKeepsItsPlaces
  <2>. QED
    BY <2>1, <2>4, <2>5 DEF WatchInv, WatchIsFair
<1>. QED
  BY <1>1, <1>2, <1>3, <1>4, <1>5, <1>6, <1>7, <1>8, <1>9, <1>10, <1>11 DEF InputsInv

\* Every step keeps it.
LEMMA InputsStep ==
    ASSUME InputsInv, InputsNext
    PROVE  InputsInv'
<1>0. lane \in Lanes
  BY DEF InputsInv
<1>e. \A mine : mine # "cohort" /\ lane = mine /\ Others(mine) => edges' = {}
  BY DEF Others, InputsInv
<1>1. CASE lane = "cohort" /\ GraphNext /\ Others("cohort")
  <2>1. lane' = "cohort" /\ GraphInv'
    BY <1>0, <1>1, GraphStep DEF InputsInv
  <2>. QED
    BY <1>0, <1>1, <2>1, OtherLanes DEF InputsInv, StrategyLanes
<1>2. CASE lane = "thesis" /\ LinesNext /\ Others("thesis")
  <2>1. lane' = "thesis" /\ LinesInv'
    BY <1>0, <1>2, LinesStep DEF InputsInv
  <2>2. edges' = {}
    BY <1>2, <1>e
  <2>. QED
    BY <1>0, <1>2, <2>1, <2>2, OtherLanes DEF InputsInv, StrategyLanes
<1>3. CASE lane = "tail" /\ ScoresNext /\ Others("tail")
  <2>1. lane' = "tail" /\ TailInv'
    BY <1>0, <1>3, TailStep DEF InputsInv
  <2>2. edges' = {}
    BY <1>3, <1>e
  <2>. QED
    BY <1>0, <1>3, <2>1, <2>2, OtherLanes DEF InputsInv, StrategyLanes
<1>4. CASE lane = "lag" /\ WindowsNext /\ Others("lag")
  <2>1. lane' = "lag" /\ LagInv'
    BY <1>0, <1>4, LagStep DEF InputsInv
  <2>2. edges' = {}
    BY <1>4, <1>e
  <2>. QED
    BY <1>0, <1>4, <2>1, <2>2, OtherLanes DEF InputsInv, StrategyLanes
<1>5. CASE lane = "holders" /\ HoldersNext /\ Others("holders")
  <2>1. lane' = "holders" /\ HoldersInv'
    BY <1>0, <1>5, HoldersStep DEF InputsInv
  <2>2. edges' = {}
    BY <1>5, <1>e
  <2>. QED
    BY <1>0, <1>5, <2>1, <2>2, OtherLanes DEF InputsInv, StrategyLanes
<1>6. CASE lane = "bars" /\ BarsNext /\ Others("bars")
  <2>1. lane' = "bars" /\ BarsInv'
    BY <1>0, <1>6, BarsStep DEF InputsInv
  <2>2. edges' = {}
    BY <1>6, <1>e
  <2>. QED
    BY <1>0, <1>6, <2>1, <2>2, OtherLanes DEF InputsInv, StrategyLanes
<1>7. CASE lane = "conflict" /\ ConflictsNext /\ Others("conflict")
  <2>1. lane' = "conflict" /\ ConflictInv'
    BY <1>0, <1>7, ConflictStep DEF InputsInv
  <2>2. edges' = {}
    BY <1>7, <1>e
  <2>. QED
    BY <1>0, <1>7, <2>1, <2>2, OtherLanes DEF InputsInv, StrategyLanes
<1>8. CASE lane = "catalyst" /\ CatalystsNext /\ Others("catalyst")
  <2>1. lane' = "catalyst" /\ CatalystInv'
    BY <1>0, <1>8, CatalystStep DEF InputsInv
  <2>2. edges' = {}
    BY <1>8, <1>e
  <2>. QED
    BY <1>0, <1>8, <2>1, <2>2, OtherLanes DEF InputsInv, StrategyLanes
<1>9. CASE lane = "context" /\ ContextNext /\ Others("context")
  <2>1. lane' = "context" /\ ContextInv'
    BY <1>0, <1>9, ContextStep DEF InputsInv
  <2>2. edges' = {}
    BY <1>9, <1>e
  <2>. QED
    BY <1>0, <1>9, <2>1, <2>2, OtherLanes DEF InputsInv, StrategyLanes
<1>10. CASE lane = "ring" /\ RingNext /\ Others("ring")
  <2>1. lane' = "ring" /\ RingInv'
    BY <1>0, <1>10, RingStep DEF InputsInv
  <2>2. edges' = {}
    BY <1>10, <1>e
  <2>. QED
    BY <1>0, <1>10, <2>1, <2>2, OtherLanes DEF InputsInv, StrategyLanes
<1>11. CASE lane = "watch" /\ SelectionNext /\ Others("watch")
  <2>1. lane' = "watch" /\ WatchInv'
    BY <1>0, <1>11, WatchStep DEF InputsInv
  <2>2. edges' = {}
    BY <1>11, <1>e
  <2>. QED
    BY <1>0, <1>11, <2>1, <2>2, OtherLanes DEF InputsInv, StrategyLanes
<1>. QED
  BY <1>1, <1>2, <1>3, <1>4, <1>5, <1>6, <1>7, <1>8, <1>9, <1>10, <1>11 DEF InputsNext

\* It is what the runs check: each part is about the rows of its own lanes.
LEMMA InputsBacked == InputsInv => RowsAreBacked
<1>. SUFFICES ASSUME InputsInv PROVE RowsAreBacked
  OBVIOUS
<1>0. \/ row = NoRow
      \/ lane = "cohort" /\ row.by = "walletcohort" /\ ~row.fired
      \/ lane = "thesis" /\ row.by = "thesisaccum"
      \/ lane = "tail" /\ row.by = "cheaptail"
      \/ lane = "lag" /\ row.by = "repricinglag" /\ ~row.fired
      \/ lane = "holders" /\ row.by = "holderdelta"
      \/ lane = "bars" /\ row.by = "bookvacuum" /\ ~row.fired
      \/ lane = "conflict" /\ row.by = "conflictresolve"
      \/ lane = "catalyst" /\ row.by \in {"importer", "blocker", "catalystwindow"}
      \/ lane = "context" /\ row.by \in {"single", "line"}
      \/ lane = "ring" /\ row.by = "ring"
      \/ lane = "watch" /\ row.by \in {"stream", "poller"}
  BY DEF InputsInv, StrategyLanes, GraphInv, LinesInv, TailInv, LagInv, HoldersInv, BarsInv, ConflictInv, CatalystInv, ContextInv, RingInv, WatchInv
<1>1. EdgeIsShared
  BY Zenon DEF InputsInv, GraphInv, EdgeIsShared
<1>2. ThesisWasTraded
  BY <1>0 DEF InputsInv, LinesInv, ThesisWasTraded
<1>3. TailIsClear
  BY <1>0 DEF InputsInv, TailInv, TailIsClear
<1>4. CatalystsTellAhead
  BY <1>0 DEF InputsInv, CatalystInv, CatalystsTellAhead, AheadBeatsBehind, LiveRowsHaveCause, BlockerIsTold
<1>5. ConflictIsNoticed
  BY <1>0 DEF InputsInv, ConflictInv, ConflictIsNoticed
<1>6. LeaversMakeNoBuyer
  BY <1>0 DEF InputsInv, HoldersInv, LeaversMakeNoBuyer
<1>7. ContextIsTrue
  BY <1>0 DEF InputsInv, ContextInv, ContextIsTrue
<1>8. RingTellsTheLast
  BY <1>0, Zenon DEF InputsInv, RingInv, RingTellsTheLast
<1>9. WatchIsFair
  BY <1>0, Zenon DEF InputsInv, WatchInv, WatchIsFair, StreamTakesTheUrgent, PollKeepsItsPlaces
<1>. QED
  BY <1>1, <1>2, <1>3, <1>4, <1>5, <1>6, <1>7, <1>8, <1>9 DEF RowsAreBacked, AlertsTellTheTrades

\* What the strategies, the alerts and the choice of markets say is backed by
\* what was traded, listed and stored, in every behaviour of the producers and
\* readers: failed writes, cached answers, cut-off lists and all.
THEOREM BackedThm == InputsSpec => []RowsAreBacked
<1>1. InputsInv /\ [InputsNext]_inputsVars => InputsInv'
  BY InputsStep, InputsRest
<1>. QED
  BY InputsStart, <1>1, InputsBacked, PTL DEF InputsSpec

==============================================================================
