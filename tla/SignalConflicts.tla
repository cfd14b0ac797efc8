---------------------------- MODULE SignalConflicts ----------------------------
(***************************************************************************)
(* The conflictresolve strategy, on one market.  The hook asks for the     *)
(* shadow rows of the market within the window, takes of each side the     *)
(* best score and the best confidence, and lets the detector weigh the     *)
(* two sides.  Its own row joins the rows it reads next time.              *)
(***************************************************************************)
EXTENDS StagedInputs

CONSTANTS
    ConflictWindow,  \* CONFLICT_RESOLVE_WINDOW, in units
    Scores,          \* the scores a shadow row may carry
    MinDominance,    \* CONFLICT_RESOLVE_MIN_DOMINANCE, in tenths
    Suppression,     \* the detector's SuppressDominance, in tenths
    MaxDominance,    \* bound: a dominance above it is kept as this
    MaxDecided       \* bound: how many rows stand at once

ASSUME ConflictAssumption == ConflictWindow \in Nat

VARIABLE decided   \* the market's shadow rows, newest first

ConflictsInit == decided = << >>

AlertSides == {"BUY", "SELL"}

\* One more row is written.
Decided(side, score) ==
    /\ Len(decided) < MaxDecided
    /\ decided' = <<[side |-> side, score |-> score, age |-> 0]>> \o decided

\* Another strategy's row lands on the market.
Decides(side, score) == Decided(side, score) /\ Background

\* The newest rows of the window.
RecentDecisions ==
    Limited(Kept(decided, {i \in DOMAIN decided : decided[i].age <= ConflictWindow}))

RecentDecisionsForCondition == Reads(<<"rd">>, RecentDecisions, << >>)

SidesOf(rows) == {rows[i].side : i \in DOMAIN rows}

\* The weight of one side: its best score, to which its best confidence
\* would be added; both in the units the strategies wrote them in.
Weight(rows, side) ==
    Max({0} \cup {rows[i].score : i \in {i \in DOMAIN rows : rows[i].side = side}})

\* The detector's verdict on two weights: what becomes of the loser, and by
\* how much the winner leads, in tenths.  A tie leads by nothing, so it does
\* not matter which side comes first.
Resolve(a, b) ==
    LET bigger == Max({a, b})
        smaller == Min({a, b})
        lead == IF smaller = 0 THEN MaxDominance
                ELSE Min({MaxDominance, (10 * bigger) \div smaller})
    IN  CASE bigger = 0 -> [action |-> "keep_both", lead |-> 0]
          [] bigger > 0 /\ lead >= Suppression -> [action |-> "suppress", lead |-> lead]
          [] bigger > 0 /\ lead < Suppression /\ lead >= MinDominance ->
                 [action |-> "degrade", lead |-> lead]
          [] OTHER -> [action |-> "tag", lead |-> lead]

\* The hook asks about an alert of side s: with rows of both sides a row of
\* this strategy is written, whatever the verdict.  The write may fail.
AskConflict(s) ==
    \E r \in RecentDecisionsForCondition :
        LET verdict == Resolve(Weight(r.rows, "BUY"), Weight(r.rows, "SELL"))
            opposed == SidesOf(r.rows) = AlertSides
        IN
        \/ /\ opposed
           /\ Decided(s, verdict.lead)
           /\ Concludes(r, Verdict("conflictresolve", TRUE, r.failed, verdict.action))
        \/ /\ Concludes(r, Verdict("conflictresolve", FALSE, r.failed \/ opposed, "skipped"))
           /\ UNCHANGED decided

ConflictsElapse ==
    /\ FrameMoves \/ decided # << >>
    /\ FrameElapses
    /\ LET kept == Kept(decided, {i \in DOMAIN decided :
                                     decided[i].age <= ConflictWindow + CacheTTL})
       IN  decided' = [i \in DOMAIN kept |-> [kept[i] EXCEPT !.age = @ + 1]]

ConflictsNext ==
    \/ \E side \in AlertSides, score \in Scores : Decides(side, score)
    \/ \E s \in AlertSides : AskConflict(s)
    \/ ConflictsElapse

(***************************************************************************)
(* Properties                                                              *)
(***************************************************************************)

\* The two sides of a market are set against each other when they should
\* be.  An alert's hook that could read and write resolves a conflict
\* whenever the window holds a row of each side that is older than an answer
\* may be kept, unless there are more rows than it is handed; and it never
\* resolves one without a row of each side that stood in the window when the
\* answer was read.
ConflictIsNoticed ==
    (row # NoRow /\ row.by = "conflictresolve") =>
        LET InWindow(newest, oldest) ==
                \A s \in AlertSides : \E i \in DOMAIN decided :
                    decided[i].side = s /\ decided[i].age \in newest .. oldest
        IN  /\ (~row.fired /\ ~row.failed) =>
                   \/ ~InWindow(CacheTTL + 1, ConflictWindow)
                   \/ Len(decided) > MaxRows
            /\ row.fired => InWindow(0, ConflictWindow + CacheTTL)

=============================================================================
