---------------------------- MODULE AlertAnalysis ----------------------------
(***************************************************************************)
(* The analyst note of an alert, made on the way to Telegram: the send of  *)
(* alertsender.Worker calls aianalysis.AnalyzeAndStore, which asks         *)
(* openai.Client unless a note is there that is fresh enough, stores the   *)
(* answer as the alert's next version, and hands back a verdict for the    *)
(* attribution row; the text of the message is then read from the table.   *)
(*                                                                         *)
(* The alert's row is what WorkQueue promises: ready, out with a sender,   *)
(* or closed as sent or failed; AlertSender implements it, and every       *)
(* attempt at delivery runs the whole of send anew.                        *)
(***************************************************************************)
EXTENDS Integers, Sequences, FiniteSets, TelegramRoute

CONSTANTS
    Alerts, Senders,
    ProcOf,              \* the process a sender is a goroutine of
    KindOf,              \* the kind of an alert's finding
    OwnMarks,            \* what TelegramRoute finds in an alert's own text
    Answers,             \* model bound: verdict and marks of what the model writes
    Advancing,           \* alerts whose finding has a lifecycle above zero
    PerMinute,           \* openai: RateLimitPerMinute
    DailyBudget,         \* openai: DailyBudgetUSD, an answer costs 1
    AnalysisBudgets      \* model bounds: faults, refusals, stalls, deaths, hours

\* pickVerdict: the first phrase it finds, or nothing
NoVerdict == "none"
PickVerdict == {"actionable", "watchlist", "avoid", NoVerdict}

ASSUME AnalysisAssumption ==
    /\ Answers \subseteq [verdict : PickVerdict, marks : SUBSET Marks]
    /\ Advancing \subseteq Alerts /\ DOMAIN ProcOf = Senders /\ IsFiniteSet(Senders)
    /\ PerMinute \in Nat \ {0} /\ DailyBudget \in Nat

Procs == {ProcOf[s] : s \in Senders}

VARIABLES
    alert,       \* polymarket_alerts: ready, out, sent, failed
    notes,       \* polymarket_alert_analyses: an alert's rows by version
    attribution, \* ai_verdict of polymarket_alert_strategy_dimensions
    client,      \* each process's openai.Client: rateBucket and budgetLedger
    sender,      \* where each send is
    past,        \* history, by alert: what happened to it
    purse        \* what is left of the behaviour's budget

noteVars == <<routeVars, alert, notes, attribution, client, sender, past, purse>>

NoSend == [step |-> "idle"]
NewClient == [tokens |-> PerMinute, spent |-> 0]
Clean == [paid |-> 0, lost |-> 0, aged |-> 0, shared |-> 0,
          unwritten |-> FALSE, seen |-> FALSE]

NotesInit ==
    /\ RouteInit
    /\ alert = [a \in Alerts |-> "ready"]
    /\ notes = [a \in Alerts |-> << >>]
    /\ attribution = [a \in Alerts |-> NoVerdict]
    /\ client = [p \in Procs |-> NewClient]
    /\ sender = [s \in Senders |-> NoSend]
    /\ past = [a \in Alerts |-> Clean]
    /\ purse \in AnalysisBudgets

Pays(what) == purse[what] > 0 /\ purse' = [purse EXCEPT ![what] = @ - 1]

At(s, step) == sender[s].step = step
Goes(s, step) == sender' = [sender EXCEPT ![s].step = step]
Count(a, what) == past' = [past EXCEPT ![a][what] = @ + 1]
Held(a) == \E s \in Senders : ~At(s, "idle") /\ sender[s].alert = a

-----------------------------------------------------------------------------
(* What the delivery queue does with the row *)

Pick(s, a) ==
    /\ At(s, "idle") /\ alert[a] = "ready"
    /\ alert' = [alert EXCEPT ![a] = "out"]
    /\ sender' = [sender EXCEPT ![s] =
           [step |-> "latest", alert |-> a, verdict |-> NoVerdict, marks |-> {},
            version |-> 0, note |-> 0]]
    /\ past' = [past EXCEPT ![a].shared = @ + IF Held(a) THEN 1 ELSE 0]
    /\ UNCHANGED <<notes, attribution, client, purse>>

\* A stale row is reset, under a sender that stalls or after one that died.
Reset(a) ==
    /\ alert[a] = "out"
    /\ alert' = [alert EXCEPT ![a] = "ready"]
    /\ IF Held(a) THEN Pays("stalls") ELSE UNCHANGED purse
    /\ UNCHANGED <<notes, attribution, client, sender, past>>

\* The marks ask for a row that is still out.
Marked(a, state) == alert' = [alert EXCEPT ![a] = IF @ = "out" THEN state ELSE @]

\* surfaceFromKind
SurfaceOf(kind) ==
    CASE kind = "accumulation" -> "accumulation_alert"
      [] kind = "category_watch" -> "cluster_alert"
      [] kind = "ownership_concentration" -> "ownership_alert"
      [] OTHER -> "flow_alert"

\* The marks of the rendered message: the alert's own text and its note
Body(a, note) == OwnMarks[a] \cup IF note = 0 THEN {} ELSE notes[a][note].marks

\* The chat accepts the message, or router and guard drop it.
Accepted(a, note) ==
    past' = [past EXCEPT ![a].seen =
        @ \/ Reaches(router, SurfaceOf(KindOf[a]), Body(a, note)) # Nobody]

\* Telegram accepts and the row is marked, an error is marked, or the row is
\* left: cancelled or timed out, accepted or not, or the mark gets lost.
Deliver(s) ==
    /\ At(s, "send")
    /\ LET a == sender[s].alert IN
       \/ Accepted(a, sender[s].note) /\ Marked(a, "sent") /\ UNCHANGED purse
       \/ /\ \E state \in {"ready", "failed"} : Marked(a, state)
          /\ Pays("refusals") /\ UNCHANGED past
       \/ /\ Accepted(a, sender[s].note) \/ UNCHANGED past
          /\ UNCHANGED alert /\ Pays("faults")
    /\ sender' = [sender EXCEPT ![s] = NoSend]
    /\ UNCHANGED <<notes, attribution, client>>

-----------------------------------------------------------------------------
(* aianalysis.Service *)

\* Mutant: every look at an alert is worth an answer.
RefreshAlways(a, row) == TRUE

\* shouldRefresh: an alert's finding never changes, so a higher severity and a
\* resolution cannot come; what is left is a note of more than an hour.
ShouldRefresh(a, row) == row.old /\ a \in Advancing

Latest(a) == notes[a][Len(notes[a])]
Fresh(a) == notes[a] # << >> /\ ~ShouldRefresh(a, Latest(a))

\* The note that is there is fresh enough, or the model is asked; an error
\* ends the analysis, and the text is not read either.
ReadLatest(s) ==
    /\ At(s, "latest")
    /\ LET a == sender[s].alert IN
       \/ /\ Fresh(a)
          /\ sender' = [sender EXCEPT ![s].step = "text", ![s].verdict = Latest(a).verdict]
          /\ UNCHANGED purse
       \/ ~Fresh(a) /\ Goes(s, "ask") /\ UNCHANGED purse
       \/ Goes(s, "attribute") /\ Pays("faults")
    /\ UNCHANGED <<alert, notes, attribution, client, past>>

\* rateBucket.allow: the token is gone whatever comes next.
TakeToken(p) == client' = [client EXCEPT ![p].tokens = IF @ > 0 THEN @ - 1 ELSE 0]

\* budgetLedger.allow: what is under way is not counted.
WithinBudget(p) == client[p].spent < DailyBudget

\* AnalyzeAlert, up to the call.  A skip leaves the reader with what is stored.
AskModel(s) ==
    LET p == ProcOf[s] IN
    /\ At(s, "ask")
    /\ TakeToken(p)
    /\ Goes(s, IF client[p].tokens > 0 /\ WithinBudget(p) THEN "answer" ELSE "text")
    /\ UNCHANGED <<alert, notes, attribution, past, purse>>

\* callModel: an answer; none that was made; or one that was made and billed
\* but timed out, broke off or could not be read.
Replies == {"answer", "refusal", "unheard"}

ChargeAnswer(p) == client' = [client EXCEPT ![p].spent = @ + 1]

\* validateAlertOutput turns an empty answer away, and an error in disguise.
Rejected(s) ==
    /\ Pays("faults") /\ Goes(s, "text")
    /\ past' = [past EXCEPT ![sender[s].alert].paid = @ + 1, ![sender[s].alert].lost = @ + 1]

\* What AnalyzeAndStore makes of a reply.  The ledger hears of answers only.
Answer(s) ==
    LET a == sender[s].alert IN
    /\ At(s, "answer")
    /\ \E reply \in Replies :
        \/ /\ reply = "answer" /\ ChargeAnswer(ProcOf[s])
           /\ Count(a, "paid") /\ UNCHANGED purse
           /\ \E answer \in Answers :
                  sender' = [sender EXCEPT ![s].step = "version",
                                 ![s].verdict = answer.verdict, ![s].marks = answer.marks]
        \/ /\ reply = "answer" /\ ChargeAnswer(ProcOf[s])
           /\ Rejected(s)
        \/ /\ reply = "refusal" /\ Pays("faults") /\ Goes(s, "text")
           /\ UNCHANGED <<client, past>>
        \/ /\ reply = "unheard" /\ Pays("faults") /\ Goes(s, "text")
           /\ past' = [past EXCEPT ![a].paid = @ + 1, ![a].lost = @ + 1]
           /\ UNCHANGED client
    /\ UNCHANGED <<alert, notes, attribution>>

\* An error of LatestVersion or Insert: the answer is gone, no verdict, no text.
LoseAnswer(s) ==
    /\ At(s, "version") \/ At(s, "insert")
    /\ Pays("faults") /\ Count(sender[s].alert, "lost")
    /\ sender' = [sender EXCEPT ![s].step = "attribute", ![s].verdict = NoVerdict,
                                ![s].version = 0, ![s].marks = {}]
    /\ UNCHANGED <<alert, notes, attribution, client>>

LatestVersion(s) ==
    /\ At(s, "version")
    /\ sender' = [sender EXCEPT ![s].step = "insert",
                                ![s].version = Len(notes[sender[s].alert]) + 1]
    /\ UNCHANGED <<alert, notes, attribution, client, past, purse>>

\* InsertAlertAnalysis: a version that is taken leaves the answer out and
\* comes back as an empty row, without an error.
Insert(s) ==
    LET a == sender[s].alert IN
    /\ At(s, "insert")
    /\ \/ /\ sender[s].version > Len(notes[a])
          /\ notes' = [notes EXCEPT ![a] =
                 Append(@, [verdict |-> sender[s].verdict, marks |-> sender[s].marks,
                            old |-> FALSE])]
          /\ sender' = [sender EXCEPT ![s].step = "text", ![s].version = 0,
                                      ![s].marks = {}]
          /\ UNCHANGED past
       \/ /\ sender[s].version <= Len(notes[a])
          /\ sender' = [sender EXCEPT ![s].step = "text", ![s].verdict = NoVerdict,
                                      ![s].version = 0, ![s].marks = {}]
          /\ Count(a, "lost") /\ UNCHANGED notes
    /\ UNCHANGED <<alert, attribution, client, purse>>

-----------------------------------------------------------------------------
(* The rest of alertsender.send *)

\* Mutant: the message shows the first note of the alert.
FirstVersion(a) == IF notes[a] = << >> THEN 0 ELSE 1

TextVersion(a) == Len(notes[a])

\* LatestText, stamped on the finding
LatestText(s) ==
    /\ At(s, "text")
    /\ \/ /\ sender' = [sender EXCEPT ![s].step = "attribute",
                                      ![s].note = TextVersion(sender[s].alert)]
          /\ UNCHANGED purse
       \/ Goes(s, "attribute") /\ Pays("faults")
    /\ UNCHANGED <<alert, notes, attribution, client, past>>

\* writeAttribution: no verdict overwrites the one that is there.
WriteAttribution(s) ==
    LET a == sender[s].alert IN
    /\ At(s, "attribute")
    /\ sender' = [sender EXCEPT ![s].step = "send", ![s].verdict = NoVerdict]
    /\ \/ /\ attribution' = [attribution EXCEPT ![a] = sender[s].verdict]
          /\ past' = [past EXCEPT ![a].unwritten = FALSE]
          /\ UNCHANGED purse
       \/ /\ past' = [past EXCEPT ![a].unwritten = TRUE]
          /\ Pays("faults") /\ UNCHANGED attribution
    /\ UNCHANGED <<alert, notes, client>>

-----------------------------------------------------------------------------
(* Time and death *)

\* An hour goes by for an alert's notes.
HourPasses(a) ==
    /\ \E i \in DOMAIN notes[a] : ~notes[a][i].old
    /\ Pays("hours") /\ Count(a, "aged")
    /\ notes' = [notes EXCEPT ![a] = [i \in DOMAIN @ |-> [@[i] EXCEPT !.old = TRUE]]]
    /\ UNCHANGED <<alert, attribution, client, sender>>

\* The bucket fills as time goes by; the ledger starts anew at midnight.
Refill(p) ==
    /\ client[p].tokens < PerMinute
    /\ client' = [client EXCEPT ![p].tokens = @ + 1]
    /\ UNCHANGED <<alert, notes, attribution, sender, past, purse>>

Midnight(p) ==
    /\ client[p].spent > 0
    /\ client' = [client EXCEPT ![p].spent = 0]
    /\ UNCHANGED <<alert, notes, attribution, sender, past, purse>>

\* A process dies, and its answers with it.
Die(p) ==
    LET dead == {s \in Senders : ProcOf[s] = p}
        Drops(a) == {s \in dead : (At(s, "version") \/ At(s, "insert")) /\ sender[s].alert = a}
    IN
    /\ Pays("deaths")
    /\ sender' = [s \in Senders |-> IF s \in dead THEN NoSend ELSE sender[s]]
    /\ client' = [client EXCEPT ![p] = NewClient]
    /\ past' = [a \in Alerts |-> IF Drops(a) = {} THEN past[a]
                                 ELSE [past[a] EXCEPT !.lost = @ + 1]]
    /\ UNCHANGED <<alert, notes, attribution>>

SenderNext(s) ==
    \/ \E a \in Alerts : Pick(s, a)
    \/ ReadLatest(s) \/ AskModel(s) \/ Answer(s) \/ LoseAnswer(s)
    \/ LatestVersion(s) \/ Insert(s) \/ LatestText(s) \/ WriteAttribution(s) \/ Deliver(s)

\* What the other workers post has no part in it.
NotesNext ==
    /\ \/ \E s \in Senders : SenderNext(s)
       \/ \E a \in Alerts : Reset(a) \/ HourPasses(a)
       \/ \E p \in Procs : Refill(p) \/ Midnight(p) \/ Die(p)
    /\ UNCHANGED routeVars

Reporting == RouteNext /\ UNCHANGED <<alert, notes, attribution, client, sender, past, purse>>

NotesSpec == NotesInit /\ [][NotesNext \/ Reporting]_noteVars

-----------------------------------------------------------------------------
\* An alert is analysed once, however often its delivery is tried: every
\* further answer that is paid for has its own cause, an answer that was
\* thrown away, lost or too late, a note that had turned an hour old, or a
\* second sender that held the alert at the same time.
SecondAnswerHasCause ==
    \A a \in Alerts :
        past[a].paid <= 1 + past[a].lost + past[a].aged + past[a].shared

\* The verdict that is stored for an alert is the one of the note in the
\* message about to be sent, when there are both: they come by two reads and
\* two writes, and only a failed write of the attribution or a second sender
\* may set them apart.
VerdictIsOfTheNote ==
    \A s \in Senders :
        At(s, "send") /\ sender[s].note > 0 =>
            LET a == sender[s].alert IN
            \/ attribution[a] \in {NoVerdict, notes[a][sender[s].note].verdict}
            \/ past[a].unwritten
            \/ past[a].shared > 0

\* An alert that counts as sent was seen, unless its wording dropped it: its
\* own text and a note the model wrote about it carry the marks of a retired
\* surface between them.
SentWasSeen ==
    \A a \in Alerts :
        alert[a] = "sent" /\ ~past[a].seen =>
            \E note \in 0 .. Len(notes[a]) :
                Suppressed(router, router.signal, Body(a, note))

\* Whatever a caller is told was delivered arrived in its chat, but for what
\* the configuration or the guard dropped.
MessagesFindTheirChat == ReportsStayInside /\ SentWasSeen

=============================================================================
