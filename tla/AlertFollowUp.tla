--------------------------- MODULE AlertFollowUp ---------------------------
(***************************************************************************)
(* What happens to an alert after it was sent.  Three workers write to the *)
(* same row and to the same Telegram message without a lock between them:  *)
(*   outcomes.Worker    asks Gamma how the market ended, writes the        *)
(*                      verdict, then sets the emoji of that verdict;      *)
(*   outcomeai.Worker   writes one postmortem per alert, edits the message *)
(*                      (or sends a follow-up) and sets the emoji again;   *)
(*   marketclosereview  sets emojis by the AI's plan (CloseReview).        *)
(* A process runs one tick of each of the first two at a time; a tick      *)
(* lists rows and then works from what it listed.  During a rolling        *)
(* restart two processes run.  A crashed process starts over: it keeps     *)
(* nothing in memory that matters.                                         *)
(***************************************************************************)
EXTENDS Integers, FiniteSets

CONSTANTS
    Alerts,         \* ids of `sent` rows
    Markets, MarketOf,
    Labels,         \* outcome labels of a market
    Bet,            \* the trade of the payload: side, and label or NoLabel
    NoLabel,        \* a payload without trade or label
    EndDate,        \* Gamma's end date of a market, 0 when it gives none
    Unrecorded,     \* alerts whose row has telegram_message_id 0
    Broken,         \* alerts whose lookup always fails
    Procs,
    CheckLimit,     \* Config.ClaimLimit of the outcomes worker, both lists
    PostLimit,      \* Config.ClaimLimit of the postmortem worker
    Plan,           \* the emoji a close review would set on an alert, or "none"
    SkipAmbiguous,  \* ReactionsConfig.DisableAmbiguous
    Faults          \* model bound: crashes, failed statements and lost answers

Verdicts == {"correct", "wrong", "unknown", "unavailable"}
Settled  == {"applied", "unsupported", "disabled"}
Results  == Verdicts \cup Settled \cup {"touch", "failed"}
Emojis   == {"none", "success", "failure", "ambiguous"}
Idle     == [at |-> -1, says |-> "touch"]   \* no row at work

ASSUME AlertsAssumption == Alerts \subseteq Nat /\ IsFiniteSet(Alerts)
ASSUME MarketAssumption == /\ MarketOf \in [Alerts -> Markets]
                           /\ EndDate \in [Markets -> Nat]
ASSUME BetAssumption    == /\ Bet \in [Alerts -> [side : {"BUY", "SELL"}, label : Labels \cup {NoLabel}]]
                           /\ NoLabel \notin Labels
ASSUME LabelsAssumption == Labels \cap {"open", "unclear", "gone"} = {}
ASSUME LimitsAssumption == /\ CheckLimit \in Nat \ {0}
                           /\ PostLimit \in Nat \ {0}
                           /\ Faults \in Nat
ASSUME PlanAssumption   == Plan \in [Alerts -> Emojis]
ASSUME SubsetAssumption == Unrecorded \cup Broken \subseteq Alerts

VARIABLES
    fate, due,               \* of a market: what Gamma says of it; closed or past its end date in the table
    outcome, turn, reaction, post,  \* the rows: verdict, rank by outcome_checked_at, reaction status, postmortem
    shown, told,             \* the chat: the bot's emoji on the message, notices of the resolution
    phase, todo, seen, view, \* the outcomes tick of a process
    job, basis,              \* the postmortems of a process, and the verdict each was listed with
    contested, shared, reviewed,    \* history: see the actions that set them
    faults

market  == <<fate, due>>
row     == <<outcome, turn, reaction, post>>
chat    == <<shown, told>>
checks  == <<phase, todo, seen, view>>
posts   == <<job, basis>>
history == <<contested, shared, reviewed>>
vars    == <<market, row, chat, checks, posts, history, faults>>

Init ==
    /\ fate = [m \in Markets |-> "open"]
    /\ due = [m \in Markets |-> FALSE]
    /\ outcome = [a \in Alerts |-> "pending"]
    /\ turn = [a \in Alerts |-> Cardinality({b \in Alerts : b <= a})]
    /\ reaction = [a \in Alerts |-> "pending"]
    /\ post = [a \in Alerts |-> FALSE]
    /\ shown = [a \in Alerts |-> "none"]
    /\ told = [a \in Alerts |-> 0]
    /\ phase = [p \in Procs |-> "rest"]
    /\ todo = [p \in Procs |-> {}]
    /\ seen = [p \in Procs |-> [a \in Alerts |-> "pending"]]
    /\ view = [p \in Procs |-> Idle]
    /\ job = [p \in Procs |-> [a \in Alerts |-> "no"]]
    /\ basis = [p \in Procs |-> [a \in Alerts |-> "pending"]]
    /\ contested = {}
    /\ shared = {}
    /\ reviewed = {}
    /\ faults = Faults

Fault == faults > 0 /\ faults' = faults - 1

Gamma(a) == fate[MarketOf[a]]

-----------------------------------------------------------------------------
(* The world *)

\* The end date passes, or the sanity pass marks the market closed: either may
\* come before Gamma calls the market closed.
FallsDue(m) ==
    /\ ~due[m]
    /\ due' = [due EXCEPT ![m] = TRUE]
    /\ UNCHANGED <<fate, row, chat, checks, posts, history, faults>>

\* Gamma: closed without a price at the threshold, closed with a winner, archived.
Ends(m) ==
    /\ \/ fate[m] = "open" /\ \E r \in Labels \cup {"unclear", "gone"} : fate' = [fate EXCEPT ![m] = r]
       \/ fate[m] = "unclear" /\ \E r \in Labels : fate' = [fate EXCEPT ![m] = r]
    /\ UNCHANGED <<due, row, chat, checks, posts, history, faults>>

-----------------------------------------------------------------------------
(* outcomes.Worker: the verdicts *)

\* The rows ListSentAlertsForOutcomeCheck returns, before its LIMIT.
Checkable(a) == due[MarketOf[a]] /\ outcome[a] = "pending"

\* ORDER BY the relation R, LIMIT n.  The order inside a list is left open: it
\* decides nothing that the next list does not decide again.
First(n, S, R) ==
    {T \in SUBSET S : /\ \A x \in T, y \in S \ T : <<x, y>> \in R
                      /\ \/ T = S /\ Cardinality(S) <= n
                         \/ Cardinality(T) = n}

\* ORDER BY outcome_checked_at NULLS FIRST, id.
Checked == {x \in Alerts \X Alerts : turn[x[1]] < turn[x[2]]}

InHand(p) == IF phase[p] = "judge" THEN todo[p] ELSE {}

\* tick: the list, least recently checked first.  A row another process is
\* judging at the same time is contested.
ListChecks(p) ==
    /\ phase[p] = "rest"
    /\ \E a \in Alerts : Checkable(a)
    /\ phase' = [phase EXCEPT ![p] = "judge"]
    /\ \E S \in First(CheckLimit, {a \in Alerts : Checkable(a)}, Checked) :
          /\ todo' = [todo EXCEPT ![p] = S]
          /\ contested' = contested \cup {a \in S : \E q \in Procs \ {p} : a \in InHand(q)}
    /\ UNCHANGED <<market, row, chat, seen, view, posts, shared, reviewed, faults>>

\* Mutant: a sale is judged as a purchase.
SidesAlike(a, r) ==
    CASE r = "gone" -> "unavailable"
      [] r = "open" -> "touch"
      [] r = "unclear" \/ Bet[a].label = NoLabel -> "unknown"
      [] OTHER -> IF Bet[a].label = r THEN "correct" ELSE "wrong"

\* classify, for Gamma's answer r; "touch" when there is nothing to write yet.
Classify(a, r) ==
    CASE r = "gone" -> "unavailable"
      [] r = "open" -> "touch"
      [] r = "unclear" \/ Bet[a].label = NoLabel -> "unknown"
      [] OTHER -> IF (Bet[a].side = "BUY") = (Bet[a].label = r) THEN "correct" ELSE "wrong"

\* processOne, up to its write: a lookup that fails leaves the verdict alone.
Judge(p) ==
    /\ phase[p] = "judge" /\ view[p] = Idle
    /\ \E a \in todo[p] :
          \/ /\ a \notin Broken
             /\ view' = [view EXCEPT ![p] = [at |-> a, says |-> Classify(a, Gamma(a))]]
             /\ UNCHANGED faults
          \/ /\ IF a \in Broken THEN UNCHANGED faults ELSE Fault
             /\ view' = [view EXCEPT ![p] = [at |-> a, says |-> "touch"]]
    /\ UNCHANGED <<market, row, chat, phase, todo, seen, posts, history>>

\* Mutant: a check leaves the row where it was.
KeepsTurn(a) == turn

\* outcome_checked_at = NOW(): the row goes behind all others.
ToTheEnd(a) ==
    [b \in Alerts |-> CASE b = a -> Cardinality(Alerts)
                       [] turn[b] > turn[a] -> turn[b] - 1
                       [] OTHER -> turn[b]]

\* The process is through with the row at work.
Done(p) ==
    /\ view' = [view EXCEPT ![p] = Idle]
    /\ todo' = [todo EXCEPT ![p] = @ \ {view[p].at}]

\* MarkOutcome or TouchOutcomeUnavailable: neither looks at the row again, and
\* an error is only logged.
Record(p) ==
    /\ phase[p] = "judge" /\ view[p] # Idle
    /\ LET a == view[p].at
           v == view[p].says IN
          \/ /\ turn' = ToTheEnd(a)
             /\ outcome' = IF v = "touch" THEN outcome ELSE [outcome EXCEPT ![a] = v]
             /\ UNCHANGED faults
          \/ Fault /\ UNCHANGED <<turn, outcome>>
    /\ Done(p)
    /\ UNCHANGED <<market, reaction, post, chat, phase, seen, posts, history>>

-----------------------------------------------------------------------------
(* outcomes.Worker: the reactions *)

\* The rows ListAlertsForReaction returns, before its LIMIT.
Reactable(a) == /\ outcome[a] \in {"correct", "wrong", "unknown"}
                /\ reaction[a] \in {"pending", "failed"}

Ended(a) == EndDate[MarketOf[a]]

\* ORDER BY resolved_at DESC NULLS LAST, id: no end date is the smallest one.
NewestFirst == {x \in Alerts \X Alerts :
    Ended(x[1]) > Ended(x[2]) \/ (Ended(x[1]) = Ended(x[2]) /\ x[1] < x[2])}

\* reactionPass, after the last verdict or a list without candidates; its own
\* list may fail.
ListReactions(p) ==
    /\ \/ phase[p] = "judge" /\ todo[p] = {}
       \/ phase[p] = "rest" /\ ~\E a \in Alerts : Checkable(a)
    /\ \E a \in Alerts : Reactable(a)
    /\ \/ /\ \E S \in First(CheckLimit, {a \in Alerts : Reactable(a)}, NewestFirst) :
                /\ todo' = [todo EXCEPT ![p] = S]
                /\ seen' = [seen EXCEPT ![p] = [a \in Alerts |-> IF a \in S THEN outcome[a] ELSE "pending"]]
          /\ phase' = [phase EXCEPT ![p] = "react"]
          /\ UNCHANGED faults
       \/ /\ Fault
          /\ phase' = [phase EXCEPT ![p] = "rest"]
          /\ UNCHANGED <<todo, seen>>
    /\ UNCHANGED <<market, row, chat, view, posts, history>>

\* emojiForOutcome: what a verdict looks like in the chat.
EmojiFor(v) == CASE v = "correct" -> "success"
                 [] v = "wrong" -> "failure"
                 [] v = "unknown" /\ ~SkipAmbiguous -> "ambiguous"
                 [] OTHER -> "none"

\* SetMessageReaction on a's message: what Telegram shows after it, and what
\* the caller is told.  An emoji the message already has is not_modified, which
\* the client reports as unsupported.
Answers(a, e) ==
    IF shown[a] = e THEN {[emoji |-> e, says |-> "unsupported", fault |-> FALSE]}
    ELSE {[emoji |-> e, says |-> "applied", fault |-> FALSE],
          [emoji |-> shown[a], says |-> "unsupported", fault |-> FALSE]}

Mishaps(a, e) == {[emoji |-> x, says |-> "failed", fault |-> TRUE] : x \in {shown[a], e}}

\* applyReaction, up to its write.
React(p) ==
    /\ phase[p] = "react" /\ view[p] = Idle
    /\ \E a \in todo[p] : LET e == EmojiFor(seen[p][a]) IN
          IF a \in Unrecorded \/ e = "none"
          THEN /\ view' = [view EXCEPT ![p] =
                      [at |-> a, says |-> IF a \in Unrecorded THEN "unsupported" ELSE "disabled"]]
               /\ UNCHANGED <<shown, faults>>
          ELSE \E r \in Answers(a, e) \cup Mishaps(a, e) :
                  /\ IF r.fault THEN Fault ELSE UNCHANGED faults
                  /\ shown' = [shown EXCEPT ![a] = r.emoji]
                  /\ view' = [view EXCEPT ![p] = [at |-> a, says |-> r.says]]
    /\ UNCHANGED <<market, row, told, phase, todo, seen, posts, history>>

\* MarkReaction; an error is dropped.
RecordReaction(p) ==
    /\ phase[p] = "react" /\ view[p] # Idle
    /\ \/ reaction' = [reaction EXCEPT ![view[p].at] = view[p].says] /\ UNCHANGED faults
       \/ Fault /\ UNCHANGED reaction
    /\ Done(p)
    /\ UNCHANGED <<market, outcome, turn, post, chat, phase, seen, posts, history>>

\* The tick is over; a reaction list without rows ends it at once.
EndTick(p) ==
    /\ phase[p] # "rest" /\ todo[p] = {}
    /\ phase[p] = "judge" => ~\E a \in Alerts : Reactable(a)
    /\ phase' = [phase EXCEPT ![p] = "rest"]
    /\ seen' = [seen EXCEPT ![p] = [a \in Alerts |-> "pending"]]
    /\ UNCHANGED <<market, row, chat, todo, view, posts, history, faults>>

-----------------------------------------------------------------------------
(* outcomeai.Worker *)

\* The rows ListResolvedAlertsForPostmortem returns, before its LIMIT.
Learnable(a) == /\ outcome[a] \in {"correct", "wrong"}
                /\ Ended(a) > 0
                /\ ~post[a]

\* ORDER BY resolved_at DESC, id DESC.
LatestFirst == {x \in Alerts \X Alerts :
    Ended(x[1]) > Ended(x[2]) \/ (Ended(x[1]) = Ended(x[2]) /\ x[1] > x[2])}

\* tick: wg.Wait has returned, the next list starts its goroutines.  A row that
\* another process works on too is shared.
ListPosts(p) ==
    /\ \A a \in Alerts : job[p][a] = "no"
    /\ \E S \in First(PostLimit, {a \in Alerts : Learnable(a)}, LatestFirst) :
          /\ S # {}
          /\ job' = [job EXCEPT ![p] = [a \in Alerts |-> IF a \in S THEN "think" ELSE "no"]]
          /\ basis' = [basis EXCEPT ![p] = [a \in Alerts |-> IF a \in S THEN outcome[a] ELSE "pending"]]
          /\ shared' = shared \cup {a \in S : \E q \in Procs \ {p} : job[q][a] # "no"}
    /\ UNCHANGED <<market, row, chat, checks, contested, reviewed, faults>>

Advance(p, a, to) ==
    /\ job' = [job EXCEPT ![p][a] = to]
    /\ basis' = [basis EXCEPT ![p][a] = IF to = "no" THEN "pending" ELSE @]

\* AnalyzeOutcome (whatever it answers) and Insert: a row that is already there
\* is no error, and whether it was is not looked at.
Persist(p, a) ==
    /\ job[p][a] = "think"
    /\ \/ post' = [post EXCEPT ![a] = TRUE] /\ Advance(p, a, "tell") /\ UNCHANGED faults
       \/ Fault /\ post' \in {post, [post EXCEPT ![a] = TRUE]} /\ Advance(p, a, "no")
    /\ UNCHANGED <<market, outcome, turn, reaction, chat, checks, history>>

\* deliver: the edit, or the follow-up when there is no message id or Telegram
\* refuses the edit.  Any other error is only logged; the edit or the message
\* may have arrived all the same.
Tell(p, a) ==
    /\ job[p][a] = "tell"
    /\ \/ told' = [told EXCEPT ![a] = @ + 1] /\ UNCHANGED faults
       \/ Fault /\ told' \in {told, [told EXCEPT ![a] = @ + 1]}
    /\ Advance(p, a, IF a \in Unrecorded THEN "no" ELSE "mark")
    /\ UNCHANGED <<market, row, shown, checks, history>>

\* Mutant: the two emojis of the postmortem worker swapped.
MarkSwapped(p, a) ==
    /\ job[p][a] = "mark"
    /\ LET e == EmojiFor(IF basis[p][a] = "correct" THEN "wrong" ELSE "correct") IN
          \E r \in Answers(a, e) \cup Mishaps(a, e) :
              /\ IF r.fault THEN Fault ELSE UNCHANGED faults
              /\ shown' = [shown EXCEPT ![a] = r.emoji]
    /\ Advance(p, a, "no")
    /\ UNCHANGED <<market, row, told, checks, history>>

\* deliver: the reaction of the listed verdict, its result only logged.
Mark(p, a) ==
    /\ job[p][a] = "mark"
    /\ LET e == EmojiFor(basis[p][a]) IN
          \E r \in Answers(a, e) \cup Mishaps(a, e) :
              /\ IF r.fault THEN Fault ELSE UNCHANGED faults
              /\ shown' = [shown EXCEPT ![a] = r.emoji]
    /\ Advance(p, a, "no")
    /\ UNCHANGED <<market, row, told, checks, history>>

-----------------------------------------------------------------------------
\* applyReactions of the close review: the emoji of the AI's plan, once per
\* market, whatever the verdict.
ReviewReacts(a) ==
    /\ due[MarketOf[a]]
    /\ Plan[a] # "none"
    /\ a \notin reviewed \cup Unrecorded
    /\ shown' = [shown EXCEPT ![a] = Plan[a]]
    /\ reviewed' = reviewed \cup {a}
    /\ UNCHANGED <<market, row, told, checks, posts, contested, shared, faults>>

\* The process dies and starts again.
Crash(p) ==
    /\ Fault
    /\ phase' = [phase EXCEPT ![p] = "rest"]
    /\ todo' = [todo EXCEPT ![p] = {}]
    /\ seen' = [seen EXCEPT ![p] = [a \in Alerts |-> "pending"]]
    /\ view' = [view EXCEPT ![p] = Idle]
    /\ job' = [job EXCEPT ![p] = [a \in Alerts |-> "no"]]
    /\ basis' = [basis EXCEPT ![p] = [a \in Alerts |-> "pending"]]
    /\ UNCHANGED <<market, row, chat, history>>

Outcomes(p) == \/ ListChecks(p) \/ Judge(p) \/ Record(p)
               \/ ListReactions(p) \/ React(p) \/ RecordReaction(p) \/ EndTick(p)
Postmortem(p, a) == Persist(p, a) \/ Tell(p, a) \/ Mark(p, a)

Next == \/ \E m \in Markets : FallsDue(m) \/ Ends(m)
        \/ \E a \in Alerts : ReviewReacts(a)
        \/ \E p \in Procs : \/ Outcomes(p) \/ ListPosts(p) \/ Crash(p)
                            \/ \E a \in Alerts : Postmortem(p, a)

Spec == Init /\ [][Next]_vars

-----------------------------------------------------------------------------
(* Properties *)

RowsOK ==
    /\ outcome \in [Alerts -> Verdicts \cup {"pending"}]
    /\ turn \in [Alerts -> 1 .. Cardinality(Alerts)]
    /\ reaction \in [Alerts -> Settled \cup {"pending", "failed"}]
    /\ post \in [Alerts -> BOOLEAN]

WorldOK ==
    /\ fate \in [Markets -> Labels \cup {"open", "unclear", "gone"}]
    /\ due \in [Markets -> BOOLEAN]
    /\ shown \in [Alerts -> Emojis]
    /\ told \in [Alerts -> Nat]

ProcsOK ==
    /\ phase \in [Procs -> {"rest", "judge", "react"}]
    /\ todo \in [Procs -> SUBSET Alerts]
    /\ seen \in [Procs -> [Alerts -> Verdicts \cup {"pending"}]]
    /\ view \in [Procs -> [at : Alerts, says : Results] \cup {Idle}]
    /\ job \in [Procs -> [Alerts -> {"no", "think", "tell", "mark"}]]
    /\ basis \in [Procs -> [Alerts -> Verdicts \cup {"pending"}]]

HistoryOK ==
    /\ contested \subseteq Alerts /\ shared \subseteq Alerts /\ reviewed \subseteq Alerts
    /\ faults \in Nat

\* The columns, the chat, the two workers and the history.
TypeOK == RowsOK /\ WorldOK /\ ProcsOK /\ HistoryOK

\* A verdict that names a winner agrees with the market's end for ever after,
\* although it was read before the write and the write has no guard: a late
\* write can only bring an `unknown` over it, never the opposite verdict.
Won(a) == IF Bet[a].side = "BUY" THEN Gamma(a) = Bet[a].label ELSE Gamma(a) # Bet[a].label

VerdictIsTrue ==
    \A a \in Alerts : outcome[a] \in {"correct", "wrong"} =>
        Gamma(a) \in Labels /\ (outcome[a] = "correct" <=> Won(a))

\* The emoji a row says was applied is the one in the chat, and is its verdict's:
\* lost answers and the postmortem's own reaction, set from an earlier reading of
\* the row, never change that.  Only the close review does, or a contested row.
ReactionTellsTheVerdict ==
    \A a \in Alerts \ (contested \cup reviewed) :
        reaction[a] = "applied" => shown[a] = EmojiFor(outcome[a])
=============================================================================
