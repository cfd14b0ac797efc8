----------------------------- MODULE WorkQueue -----------------------------
(***************************************************************************)
(* What a queue table promises its workers, whatever the workers do: an    *)
(* item is put once, is out with a worker or ready for one, may be given   *)
(* back any number of times, and once closed is never touched again.  The  *)
(* alert queue (polymarket_alerts) is shown to implement it.               *)
(***************************************************************************)
CONSTANT Items

VARIABLE stage   \* where each item is: absent, ready, out, closed

Init == stage = [i \in Items |-> "absent"]

Put(i) == /\ stage[i] = "absent"
          /\ stage' = [stage EXCEPT ![i] = "ready"]

\* Move every item of S from one stage to another in one statement.
Move(S, from, to) ==
    /\ \A i \in S : stage[i] = from
    /\ stage' = [i \in Items |-> IF i \in S THEN to ELSE stage[i]]

Take(S)     == Move(S, "ready", "out")
GiveBack(S) == Move(S, "out", "ready")
Close(i)    == Move({i}, "out", "closed")

Next == \/ \E i \in Items : Put(i) \/ Close(i)
        \/ \E S \in SUBSET Items : Take(S) \/ GiveBack(S)

Spec == Init /\ [][Next]_stage
=============================================================================
