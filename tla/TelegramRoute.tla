---------------------------- MODULE TelegramRoute ----------------------------
(***************************************************************************)
(* Which chat a message ends up in: telegram.Router sends a surface to the *)
(* customers' chat, to the admins' or to nobody, and telegram.Guard below  *)
(* it drops whatever body carries a mark of a retired surface.  Both drop  *)
(* without an error, so the caller takes the message for delivered.        *)
(*                                                                         *)
(* A body is the set of marks the guard looks for in it.                   *)
(***************************************************************************)

CONSTANTS
    RouterConfigs,       \* model bound: configurations of the router
    Reports              \* model bound: surface and marks of what other workers post

SignalSurfaces ==
    {"flow_alert", "accumulation_alert", "cluster_alert", "ownership_alert",
     "news_intel_actionable", "outcome_followup"}

\* Mutant: a surface that came later is forgotten.
IsSignalSurfaceOfOld(surface) == surface \in SignalSurfaces \ {"ownership_alert"}

IsSignalSurface(surface) == surface \in SignalSurfaces

\* The toggle that lets an admin surface through; reviews share the reports'.
AdminToggle ==
    [signal_quality_report |-> "reports", market_close_review |-> "reports",
     watchtower_stats |-> "stats", strategy_scorecard |-> "scorecard",
     operational_health |-> "health", budget_report |-> "budget",
     suppression_report |-> "suppression"]

IsAdminSurface(surface) == surface \in DOMAIN AdminToggle

\* What the guard looks for: "state: " with an arrow anywhere in the body, a
\* transition, a blocked or any other prediction update, an uptime header,
\* and the title of a quality report.
Marks == {"state", "arrow", "transition", "blocked", "update", "uptime", "quality"}

Nobody == "nobody"
NoChat == ""

\* RouterConfig.Validate
Valid(config) ==
    /\ config.adminEnabled => config.admin # NoChat
    /\ (config.admin # NoChat /\ config.admin = config.signal) => config.allowSame

ASSUME RouteAssumption ==
    /\ \A config \in RouterConfigs :
          Valid(config) /\ config.signal \notin {NoChat, Nobody} /\ config.admin # Nobody
    /\ \A r \in Reports : r.marks \subseteq Marks

\* RouterConfig.Route, with the customers' chat on, as app.New configures it
Route(config, surface) ==
    IF IsSignalSurface(surface) THEN config.signal
    ELSE IF /\ IsAdminSurface(surface) /\ config.adminEnabled
            /\ AdminToggle[surface] \in config.toggles
         THEN config.admin
    ELSE Nobody

\* isPredictionBlocked, isPredictionStateTransition
PredictionBlocked(marks) == "blocked" \in marks
StateTransition(marks) == {"state", "arrow"} \subseteq marks \/ "transition" \in marks

\* Guard.Classify: app.New permits none of the retired surfaces.
Classify(marks) ==
    PredictionBlocked(marks) \/ StateTransition(marks) \/ marks \cap {"uptime", "update"} # {}

\* classifyForChat
Suppressed(config, chat, marks) ==
    (chat = config.signal /\ "quality" \in marks) \/ Classify(marks)

\* Router.Send and Guard.SendHTML: the chat the Bot is asked to post to
Reaches(config, surface, marks) ==
    LET chat == Route(config, surface)
    IN  IF chat = Nobody \/ Suppressed(config, chat, marks) THEN Nobody ELSE chat

-----------------------------------------------------------------------------
(* Workers other than the alert sender: one report each, of which they keep *)
(* nothing.                                                                 *)

VARIABLES
    router,    \* the router's configuration
    posted     \* the last report and where it went

routeVars == <<router, posted>>

NoReport == [surface |-> "none", marks |-> {}, to |-> Nobody]

RouteInit == router \in RouterConfigs /\ posted = NoReport

Post(r) ==
    /\ posted' = [surface |-> r.surface, marks |-> r.marks,
                  to |-> Reaches(router, r.surface, r.marks)]
    /\ UNCHANGED router

RouteNext == \E r \in Reports : Post(r)

\* Telemetry stays among the admins, and what is switched on arrives there:
\* a report is dropped only for a mark in its body, or as a quality report
\* whose two chats are one.
ReportsStayInside ==
    LET surface == posted.surface IN
    IsAdminSurface(surface) =>
        /\ posted.to = router.signal => router.admin = router.signal /\ router.allowSame
        /\ posted.to = Nobody =>
               \/ ~router.adminEnabled \/ AdminToggle[surface] \notin router.toggles
               \/ Classify(posted.marks)
               \/ router.admin = router.signal /\ "quality" \in posted.marks

=============================================================================
