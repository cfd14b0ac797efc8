----------------------------- MODULE EventPages -----------------------------
(***************************************************************************)
(* The page of an event as an alert's analyst note reads it:               *)
(* eventpagecontext.Provider refreshes it when it has aged, through        *)
(* eventpage.Client, which needs the build id of the site's current deploy *)
(* and the name the site uses for the event today.  Callers are goroutines *)
(* of one process; the rows are in the database and outlive it.            *)
(*                                                                         *)
(* Times are ages in units of RefreshImportant's size, far above a fetch's *)
(* timeout; Old stands for every age no rule tells apart any more, a row   *)
(* that was never written included.                                        *)
(***************************************************************************)
EXTENDS Naturals, FiniteSets

CONSTANTS
    Callers, Slugs,
    AsksFor,             \* model bound: the slugs a caller asks for
    Renamed,             \* model bound: the slugs the site may give up, and each one's other name
    RefreshInfo, RefreshImportant, BuildIDTTL, MaxRedirects,
    PageBudgets          \* model bounds: deploys, renames, faults, restarts

ASSUME PagesAssumption ==
    /\ RefreshImportant \in Nat /\ RefreshInfo \in Nat /\ BuildIDTTL \in Nat
    /\ RefreshImportant <= RefreshInfo /\ MaxRedirects \in Nat \ {0}
    /\ AsksFor \in [Callers -> SUBSET Slugs]
    /\ DOMAIN Renamed \subseteq Slugs /\ \A s \in DOMAIN Renamed : Renamed[s] \in Slugs \ DOMAIN Renamed
    /\ \A s, t \in DOMAIN Renamed : Renamed[s] = Renamed[t] => s = t

Old == (IF RefreshInfo > BuildIDTTL THEN RefreshInfo ELSE BuildIDTTL) + 1
None == "none"
Kinds == {"markets", "annotations"}

VARIABLES
    site,      \* the deployed build and, by slug, the name the site uses
    resolver,  \* BuildIDResolver: cachedID (0 for none), its age, who flies
    aliases,   \* canonicalSlug in memory and polymarket_event_slug_aliases
    fetches,   \* polymarket_event_page_fetches: the age of last_fetched_at
    pages,     \* by slug and kind, the age of what a reader finds
    kept,      \* history: what the last marked fetch of the slug read is still there
    caller,    \* what each goroutine does
    spare      \* what is left of the behaviour's budget

pageVars == <<site, resolver, aliases, fetches, pages, kept, caller, spare>>

Resting == [step |-> "idle"]
Fetching == {"resolve", "wait", "page", "landed", "json", "data", "html",
             "store", "rows", "mark", "fail"}

Same == [s \in Slugs |-> s]
NoFlight == [id |-> 0, age |-> Old, by |-> None]

PagesInit ==
    /\ site = [build |-> 1, name |-> Same]
    /\ resolver = NoFlight
    /\ aliases = [memory |-> Same, rows |-> Same]
    /\ fetches = [s \in Slugs |-> Old]
    /\ pages = [s \in Slugs |-> [k \in Kinds |-> Old]]
    /\ kept = [s \in Slugs |-> FALSE]
    /\ caller = [c \in Callers |-> Resting]
    /\ spare \in PageBudgets

\* Resolve takes the cached build id as it is.
Usable == resolver.id # 0 /\ resolver.age < BuildIDTTL

Use(what, n) == spare[what] >= n /\ spare' = [spare EXCEPT ![what] = @ - n]
Fault == Use("faults", 1)

To(c, step) == caller' = [caller EXCEPT ![c].step = step]

Older(age) == IF age < Old THEN age + 1 ELSE Old

\* A fetch is cut off by FetchTimeout long before time moves twice.
Grow ==
    /\ \A c \in Callers : caller[c].step \in Fetching => caller[c].age = 0
    /\ resolver' = [resolver EXCEPT !.age = Older(@)]
    /\ fetches' = [s \in Slugs |-> Older(fetches[s])]
    /\ pages' = [s \in Slugs |-> [k \in Kinds |-> Older(pages[s][k])]]
    /\ caller' = [c \in Callers |->
           CASE caller[c].step \in Fetching ->
                    [caller[c] EXCEPT !.age = 1, !.read = Older(@)]
             [] caller[c].step = "show" -> [caller[c] EXCEPT !.seen = Older(@)]
             [] OTHER -> caller[c]]
    /\ UNCHANGED <<site, aliases, kept, spare>>

\* Whoever is fetching while the site changes, or a request fails, has bad luck.
Unlucky == [c \in Callers |-> IF caller[c].step \in Fetching
                              THEN [caller[c] EXCEPT !.quiet = FALSE] ELSE caller[c]]

Deploy ==
    /\ Use("deploys", 1)
    /\ site' = [site EXCEPT !.build = @ + 1]
    /\ caller' = Unlucky
    /\ UNCHANGED <<resolver, aliases, fetches, pages, kept>>

\* An event takes another name, or its old one back.
Rename(s, name) ==
    /\ s \in DOMAIN Renamed /\ name \in {s, Renamed[s]} /\ name # site.name[s]
    /\ Use("renames", 1)
    /\ site' = [site EXCEPT !.name[s] = name, !.name[Renamed[s]] = name]
    /\ caller' = Unlucky
    /\ UNCHANGED <<resolver, aliases, fetches, pages, kept>>

\* A new process starts with empty caches.
Reboot ==
    /\ Use("restarts", 1)
    /\ resolver' = NoFlight
    /\ aliases' = [aliases EXCEPT !.memory = Same]
    /\ caller' = [c \in Callers |-> Resting]
    /\ UNCHANGED <<site, fetches, pages, kept>>

-----------------------------------------------------------------------------
(* eventpagecontext.Provider *)

\* refreshTTL
TTL(hot) == IF hot THEN RefreshImportant ELSE RefreshInfo

\* FetchState; an unreadable row counts as one that was never written.
LastFetchedAt(s, age) ==
    \/ age = fetches[s] /\ UNCHANGED spare
    \/ age = Old /\ fetches[s] # Old /\ Fault

\* Load, up to its decision
Load(c, s, hot) ==
    /\ caller[c].step = "idle" /\ s \in AsksFor[c]
    /\ \E age \in {fetches[s], Old} :
           /\ LastFetchedAt(s, age)
           /\ caller' = [caller EXCEPT ![c] =
                  IF age > TTL(hot) THEN [step |-> "acquire", slug |-> s]
                  ELSE [step |-> "show", slug |-> s, seen |-> age]]
    /\ UNCHANGED <<site, resolver, aliases, fetches, pages, kept>>

Busy(s) == \E c \in Callers : caller[c].step \in Fetching /\ caller[c].slug = s

\* resolveAlias: memory first, then the row, which it remembers
Alias(s) == IF aliases.memory[s] # s THEN aliases.memory[s] ELSE aliases.rows[s]

Begun(s, name) ==
    [step |-> "resolve", slug |-> s, name |-> name, id |-> 0, tries |-> 0, hops |-> 0,
     got |-> 0, age |-> 0, read |-> 0, quiet |-> TRUE, joined |-> FALSE, behind |-> FALSE]

\* refresh: one caller fetches a slug, the others do not wait for it.
Acquire(c) ==
    LET s == caller[c].slug IN
    /\ caller[c].step = "acquire"
    /\ \/ /\ Busy(s) /\ To(c, "reread")
          /\ UNCHANGED <<aliases, spare>>
       \/ /\ ~Busy(s)
          /\ caller' = [caller EXCEPT ![c] = Begun(s, Alias(s))]
          /\ aliases' = [aliases EXCEPT !.memory[s] = Alias(s)]
          /\ UNCHANGED spare
       \/ /\ ~Busy(s) /\ Alias(s) # aliases.memory[s] /\ Fault
          /\ caller' = [caller EXCEPT ![c] = Begun(s, s)]
          /\ UNCHANGED aliases
    /\ UNCHANGED <<site, resolver, fetches, pages, kept>>

-----------------------------------------------------------------------------
(* eventpage.BuildIDResolver *)

\* What Resolve hands back: a forced resolve that brings nothing new ends the fetch.
Resolved(r, id) ==
    IF r.tries = 1 /\ id = r.id THEN [r EXCEPT !.step = "fail"]
    ELSE [r EXCEPT !.step = "json", !.id = id]

\* History: both the build id and the name the fetch starts with are of yesterday.
Behind(name) == resolver.id # site.build /\ name # site.name[name]

Resolve(c) ==
    /\ caller[c].step = "resolve"
    /\ \/ /\ Usable /\ caller[c].tries = 0
          /\ caller' = [caller EXCEPT ![c] =
                 [Resolved(@, resolver.id) EXCEPT !.behind = Behind(caller[c].name)]]
          /\ UNCHANGED resolver
       \/ /\ ~Usable \/ caller[c].tries = 1
          /\ resolver.by # None
          /\ caller' = [caller EXCEPT ![c].step = "wait", ![c].joined = TRUE]
          /\ UNCHANGED resolver
       \/ /\ ~Usable \/ caller[c].tries = 1
          /\ resolver.by = None
          /\ resolver' = [resolver EXCEPT !.by = c]
          /\ To(c, "page")
    /\ UNCHANGED <<site, aliases, fetches, pages, kept, spare>>

\* The site renders the page; the answer travels.
FetchBuildID(c) ==
    /\ caller[c].step = "page"
    /\ caller' = [caller EXCEPT ![c].step = "landed", ![c].got = site.build]
    /\ UNCHANGED <<site, resolver, aliases, fetches, pages, kept, spare>>

\* close(flight.done): whoever waits takes what is cached now, old or new.
Woken(id) ==
    [c \in Callers |->
        IF caller[c].step # "wait" THEN caller[c]
        ELSE IF id = 0 THEN [caller[c] EXCEPT !.step = "fail"]
        ELSE Resolved(caller[c], id)]

Land(c) ==
    /\ caller[c].step = "landed"
    /\ resolver' = [id |-> caller[c].got, age |-> 0, by |-> None]
    /\ caller' = [Woken(caller[c].got) EXCEPT ![c] = [Resolved(@, @.got) EXCEPT !.got = 0]]
    /\ UNCHANGED <<site, aliases, fetches, pages, kept, spare>>

\* The fetch of the page failed: the flight ends and the old id stays.
FailToFetchBuildID(c) ==
    /\ caller[c].step \in {"page", "landed"} /\ Fault
    /\ resolver' = [resolver EXCEPT !.by = None]
    /\ caller' = [Woken(resolver.id) EXCEPT ![c] = [@ EXCEPT !.step = "fail", !.quiet = FALSE]]
    /\ UNCHANGED <<site, aliases, fetches, pages, kept>>

-----------------------------------------------------------------------------
(* eventpage.Client: tryFetch, handleRedirect and their answers *)

Ask == {"json", "data", "html"}

\* The page as the site has it now, 200 with a body that parses.
Served(c) ==
    caller' = [caller EXCEPT ![c] =
        [step |-> "store", slug |-> @.slug, name |-> @.name, age |-> @.age, read |-> 0,
         lost |-> {}, quiet |-> @.quiet, joined |-> FALSE, behind |-> FALSE]]

\* stashAlias: the row may get lost; a name given back is not unlearned.
Stash(s, name) ==
    \/ s = name /\ UNCHANGED <<aliases, spare>>
    \/ /\ s # name
       /\ aliases' = [memory |-> [aliases.memory EXCEPT ![s] = name],
                      rows |-> [aliases.rows EXCEPT ![s] = name]]
       /\ UNCHANGED spare
    \/ /\ s # name /\ Fault
       /\ aliases' = [aliases EXCEPT !.memory[s] = name]

\* parseEventTarget: a redirect to another name.  The first attempt remembers
\* it and tries once more under it with the same build id; the second fails.
Redirected(c, name) ==
    LET r == caller[c] IN
    IF r.tries = 1
    THEN /\ To(c, "fail")
         /\ UNCHANGED <<aliases, spare>>
    ELSE /\ caller' = [caller EXCEPT ![c] =
                [r EXCEPT !.step = "json", !.name = name, !.tries = 1, !.hops = 1]]
         /\ Stash(r.slug, name)

\* The data route of a build that is gone answers 404.
StaleBuild(c) ==
    IF caller[c].tries = 1 THEN To(c, "fail")
    ELSE caller' = [caller EXCEPT ![c].step = "resolve", ![c].tries = 1, ![c].hops = 1]

\* A redirect within the name, to the HTML page or another data route; the
\* caps differ by one, the count goes up on the way.
Bounced(c) ==
    LET r == caller[c] IN
    \/ caller' = [caller EXCEPT ![c] =
           IF r.hops + 1 > MaxRedirects THEN [r EXCEPT !.step = "fail", !.quiet = FALSE]
           ELSE [r EXCEPT !.step = "html", !.hops = @ + 1]]
    \/ caller' = [caller EXCEPT ![c] =
           IF r.hops >= MaxRedirects THEN [r EXCEPT !.step = "fail", !.quiet = FALSE]
           ELSE [r EXCEPT !.step = "data", !.hops = @ + 1]]

\* The HTML page needs no build id.
Gone(c) == caller[c].step # "html" /\ caller[c].id # site.build

\* One request under the caller's name: what the site says to it.
Request(c) ==
    LET name == site.name[caller[c].name] IN
    /\ caller[c].step \in Ask
    /\ \/ /\ Gone(c) /\ caller[c].step = "json"
          /\ StaleBuild(c) /\ UNCHANGED <<aliases, spare>>
       \/ /\ Gone(c) /\ caller[c].step = "data"
          /\ To(c, "fail") /\ UNCHANGED <<aliases, spare>>
       \/ /\ ~Gone(c) /\ name # caller[c].name
          /\ Redirected(c, name)
       \/ /\ ~Gone(c) /\ name = caller[c].name
          /\ Served(c) /\ UNCHANGED <<aliases, spare>>
    /\ UNCHANGED <<site, resolver, fetches, pages, kept>>

\* The site bounces a request about.
Bounce(c) ==
    /\ caller[c].step \in Ask /\ Fault
    /\ ~Gone(c)
    /\ Bounced(c)
    /\ UNCHANGED <<site, resolver, aliases, fetches, pages, kept>>

\* No answer, another status, a body that does not parse, or a deadline.
FailRequest(c) ==
    /\ caller[c].step \in Ask \cup {"wait"} /\ Fault
    /\ caller' = [caller EXCEPT ![c].step = "fail", ![c].quiet = FALSE]
    /\ UNCHANGED <<site, resolver, aliases, fetches, pages, kept>>

-----------------------------------------------------------------------------
(* The rest of refresh and of Load: what stays of a fetch *)

\* InsertSnapshot; when it fails the fetch is marked as failed.
StoreSnapshot(c) ==
    /\ caller[c].step = "store"
    /\ \/ To(c, "rows") /\ UNCHANGED spare
       \/ /\ caller' = [caller EXCEPT ![c].step = "fail", ![c].quiet = FALSE]
          /\ Fault
    /\ UNCHANGED <<site, resolver, aliases, fetches, pages, kept>>

\* History: c brings an older page over the one d has just stored.
Overtaken(d, c) ==
    caller[d].step = "mark" /\ caller[d].name = caller[c].name /\ caller[d].read < caller[c].read

\* InsertMarket and UpsertAnnotation, under the name the page came by; an
\* error of theirs is dropped.
StoreRows(c) ==
    /\ caller[c].step = "rows"
    /\ \E lost \in SUBSET Kinds :
           /\ Use("faults", Cardinality(lost))
           /\ pages' = [pages EXCEPT ![caller[c].name] =
                  [k \in Kinds |-> IF k \in lost THEN @[k] ELSE caller[c].read]]
           /\ kept' = [kept EXCEPT ![caller[c].name] =
                  @ /\ \A k \in Kinds \ lost : caller[c].read <= pages[caller[c].name][k]]
           /\ caller' = [d \in Callers |->
                  IF d = c THEN [caller[c] EXCEPT !.step = "mark", !.lost = lost]
                  ELSE IF Overtaken(d, c) THEN [caller[d] EXCEPT !.lost = Kinds]
                  ELSE caller[d]]
    /\ UNCHANGED <<site, resolver, aliases, fetches>>

\* Mutant: the fetch is dated by its end.
MarkAtEnd(c, all) ==
    LET s == caller[c].slug IN
    \/ /\ fetches' = [fetches EXCEPT ![s] = 0]
       /\ kept' = [kept EXCEPT ![s] = all]
       /\ UNCHANGED spare
    \/ Fault /\ UNCHANGED <<fetches, kept>>

\* MarkFetch, under the name the caller asked for, as of the fetch's start.
MarkFetch(c, all) ==
    LET s == caller[c].slug IN
    \/ /\ fetches' = [fetches EXCEPT ![s] = caller[c].age]
       /\ kept' = [kept EXCEPT ![s] = all]
       /\ UNCHANGED spare
    \/ Fault /\ UNCHANGED <<fetches, kept>>

\* release, deferred at whatever end
Released(c) == caller' = [caller EXCEPT ![c] = [step |-> "reread", slug |-> @.slug]]

MarkSuccess(c) ==
    /\ caller[c].step = "mark"
    /\ MarkFetch(c, caller[c].name = caller[c].slug /\ caller[c].lost = {})
    /\ Released(c)
    /\ UNCHANGED <<site, resolver, aliases, pages>>

MarkFailure(c) ==
    /\ caller[c].step = "fail"
    /\ MarkFetch(c, FALSE)
    /\ Released(c)
    /\ UNCHANGED <<site, resolver, aliases, pages>>

\* Load reads the row again, refreshed or not.
Reread(c) ==
    /\ caller[c].step = "reread"
    /\ \E age \in {fetches[caller[c].slug], Old} :
           /\ LastFetchedAt(caller[c].slug, age)
           /\ caller' = [caller EXCEPT ![c] =
                  [step |-> "show", slug |-> @.slug, seen |-> age]]
    /\ UNCHANGED <<site, resolver, aliases, fetches, pages, kept>>

\* buildSummary: what the rows under the caller's slug say, and how old it
\* says they are.  Nothing is kept of it here.
Stale(seen) == seen > RefreshInfo
Shown(s) == pages[s]

BuildSummary(c) ==
    /\ caller[c].step = "show"
    /\ caller' = [caller EXCEPT ![c] = Resting]
    /\ UNCHANGED <<site, resolver, aliases, fetches, pages, kept, spare>>

-----------------------------------------------------------------------------
CallerNext(c) ==
    \/ Acquire(c) \/ Resolve(c) \/ FetchBuildID(c) \/ Land(c) \/ FailToFetchBuildID(c)
    \/ Request(c) \/ Bounce(c) \/ FailRequest(c)
    \/ StoreSnapshot(c) \/ StoreRows(c) \/ MarkSuccess(c) \/ MarkFailure(c)
    \/ Reread(c) \/ BuildSummary(c)

PagesNext ==
    \/ Grow \/ Deploy \/ Reboot
    \/ \E s \in Slugs, name \in Slugs : Rename(s, name)
    \/ \E c \in Callers, s \in Slugs, hot \in BOOLEAN : Load(c, s, hot)
    \/ \E c \in Callers : CallerNext(c)

PagesSpec == PagesInit /\ [][PagesNext]_pageVars

-----------------------------------------------------------------------------
\* What a summary says of its age is true of what it shows: unless it calls
\* itself stale, nothing in it is older than the fetch it dates itself by,
\* except after a fetch that failed, lost a row or came by another name, or
\* when the fetch of another name brought an older page later.
SummaryIsAsOldAsItSays ==
    \A c \in Callers :
        caller[c].step = "show" /\ ~Stale(caller[c].seen) =>
            \/ ~kept[caller[c].slug]
            \/ \A k \in Kinds : Shown(caller[c].slug)[k] <= caller[c].seen

\* One retry is enough: a fetch during which the site did not change and no
\* request failed succeeds, unless it began with a build id and a name that
\* were both out of date, or took its build id from another's flight.
QuietFetchSucceeds ==
    \A c \in Callers :
        caller[c].step = "fail" /\ caller[c].quiet => caller[c].behind \/ caller[c].joined

\* What a caller shows is as old as it says, and a refresh that nothing
\* disturbed is never given up.
PagesKeepTheirWord == SummaryIsAsOldAsItSays /\ QuietFetchSucceeds

=============================================================================
