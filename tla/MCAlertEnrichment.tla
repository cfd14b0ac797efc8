-------------------------- MODULE MCAlertEnrichment --------------------------
(***************************************************************************)
(* What is bought and fetched beside the alerts themselves.  What a send   *)
(* adds to an alert before it is rendered, and where messages go: the page *)
(* of its event (EventPages), the analyst note and the way to the chat     *)
(* (AlertAnalysis), and the reports of other workers (TelegramRoute).  And *)
(* the background workers that buy answers of their own (AISurfaces).      *)
(* They share no state beyond the router's configuration - the page goes   *)
(* into the note's prompt, whose text no property is about, and the note   *)
(* does not ask the Manager - so a behaviour follows one of them, its      *)
(* lane.                                                                   *)
(*                                                                         *)
(* Two callers of the page, of which one asks for an event by its old and  *)
(* by its new name; two senders of one alert in two processes; each with   *)
(* several sets of things that may go wrong; every report there is under   *)
(* three configurations of the router; and each worker with a few ticks of *)
(* its own, or the two buyers of the Manager together.                     *)
(***************************************************************************)
EXTENDS EventPages, AlertAnalysis, AISurfaces, TLC

VARIABLE lane   \* model: the part this behaviour is about

mcVars == <<pageVars, noteVars, vars, lane>>

One(S) == CHOOSE x \in S : TRUE

\* What stands still has one budget and one configuration, whichever.
MCInit ==
    /\ lane \in {"page", "note", "report", "worker"}
    /\ PagesInit /\ (lane # "page" => spare = One(PageBudgets))
    /\ NotesInit /\ (lane # "note" => purse = One(AnalysisBudgets))
    /\ lane # "report" => router = One(RouterConfigs)
    /\ Init /\ (lane # "worker" => left = One(Budgets))

MCNext ==
    \/ lane = "page" /\ PagesNext /\ UNCHANGED <<noteVars, vars, lane>>
    \/ lane = "note" /\ NotesNext /\ UNCHANGED <<pageVars, vars, lane>>
    \/ lane = "report" /\ Reporting /\ UNCHANGED <<pageVars, vars, lane>>
    \/ lane = "worker" /\ Next /\ UNCHANGED <<pageVars, noteVars, lane>>

MCSpec == MCInit /\ [][MCNext]_mcVars

-----------------------------------------------------------------------------
(* The instance *)

CONSTANTS c1, c2, s1, s2, w1, w2

MCRenamed == "a" :> "b"
MCAsksFor == c1 :> {"a"} @@ c2 :> {"a", "b"}

PageBudget(d, n, f, r) == [deploys |-> d, renames |-> n, faults |-> f, restarts |-> r]

\* Any two of the four ways, one of each, meet.
MCPageBudgets ==
    {PageBudget(1, 1, 0, 0), PageBudget(1, 0, 1, 0), PageBudget(1, 0, 0, 1),
     PageBudget(0, 1, 1, 0), PageBudget(0, 1, 0, 1), PageBudget(0, 0, 1, 1)}

MCProcOf == s1 :> "p" @@ s2 :> "q"

NoteBudget(f, r, s, d, h) ==
    [faults |-> f, refusals |-> r, stalls |-> s, deaths |-> d, hours |-> h]

\* A delivery that is refused once, with two faults, with a death and a
\* fault, or with two of a fault, a stall and an hour; and these three
\* without a refusal.
MCNoteBudgets ==
    {NoteBudget(2, 1, 0, 0, 0), NoteBudget(1, 1, 0, 1, 0), NoteBudget(1, 1, 1, 0, 0),
     NoteBudget(1, 1, 0, 0, 1), NoteBudget(0, 1, 1, 0, 1), NoteBudget(1, 0, 1, 0, 1)}

\* A title in the alert has an arrow; the model may write of a swing state.
MCKindOf == "a" :> "ownership_concentration"
MCOwnMarks == "a" :> {"arrow"}
MCAnswers ==
    {[verdict |-> "actionable", marks |-> {"state"}], [verdict |-> "avoid", marks |-> {}],
     [verdict |-> NoVerdict, marks |-> {}]}

Toggles == {AdminToggle[s] : s \in DOMAIN AdminToggle}

\* Customers only; two chats; one chat for both.
MCRouterConfigs ==
    {[signal |-> "signal", admin |-> NoChat, adminEnabled |-> FALSE, allowSame |-> FALSE,
      toggles |-> {}]}
    \cup [signal : {"signal"}, admin : {"admin"}, adminEnabled : BOOLEAN,
          allowSame : {FALSE}, toggles : SUBSET Toggles]
    \cup [signal : {"signal"}, admin : {"signal"}, adminEnabled : {TRUE},
          allowSame : {TRUE}, toggles : {Toggles}]

MCReports ==
    {[surface |-> "signal_quality_report", marks |-> {"quality"}]}
    \cup [surface : SignalSurfaces \cup DOMAIN AdminToggle \cup {"no_edge"},
          marks : {{}, {"state", "arrow"}, {"blocked"}}]

MCTier == [e \in Events |-> IF e = "e1" THEN 1 ELSE 2]
MCCap == [b \in Buckets |-> IF b = Importer THEN 4 ELSE 3]
MCEst == [b \in Buckets |-> 1]

Budget(i, r, n, f, c) == [importer |-> i, reviews |-> r, news |-> n, faults |-> f, restarts |-> c]

\* The importer on a day of three ticks, and across a restart; the review; the
\* news; and the importer and the review side by side.
MCBudgets ==
    {Budget(3, 0, 0, 1, 0), Budget(2, 0, 0, 1, 1), Budget(0, 4, 0, 2, 1), Budget(0, 0, 3, 2, 1),
     Budget(2, 1, 0, 0, 0)}

\* The importer's goroutines are alike.
AlikeSlots == Permutations(Slots)

=============================================================================
