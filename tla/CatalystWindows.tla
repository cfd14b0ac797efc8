---------------------------- MODULE CatalystWindows ----------------------------
(***************************************************************************)
(* The catalysts of one event: what the importer (eventcatalyst/importer)  *)
(* keeps of the model's answers, which of them blocks an alert             *)
(* (eventcatalyst.Provider), and the catalystwindow strategy.              *)
(*                                                                         *)
(* The importer upserts what the model names, one row per kind and title,  *)
(* and then gives up the rows that the model named no more, that were not  *)
(* written for long and whose date has passed.  A row is told from a named *)
(* one by its title in lower case, whatever its kind, and of the rows as   *)
(* they were before the question.  Whether it may ask and what it pays is  *)
(* in AISurfaces.                                                          *)
(*                                                                         *)
(* The hook asks for the active and expected catalysts of the event,       *)
(* soonest expected first, and picks the one the alert is counted to:      *)
(* within the window of its kind, confident enough, and rather one still   *)
(* ahead than one that has passed.                                         *)
(***************************************************************************)
EXTENDS StagedInputs, SequencesExt

CONSTANTS
    Kinds,        \* catalyst types the importer accepts
    PreOf,        \* CATALYST_WINDOW_*_PRE, in units, of the kinds that have
                  \*   a window
    PostOf,       \* CATALYST_WINDOW_*_POST, likewise
    Furthest,     \* bound: how far a catalyst is from its time
    MaxCatalysts, \* bound: how many rows the event has
    Drafts,       \* what the model may name: records [kind, title, status,
                  \*   due, sure], well formed or not
    PlainOf,      \* title -> the title in lower case
    MaxDrafts,    \* bound: how many it names at once
    StaleAfter,   \* EVENT_CATALYST_STALE_AFTER, in units
    PromptItems   \* EVENT_CATALYST_PROMPT_MAX_ITEMS

ASSUME CatalystAssumption ==
    /\ Furthest \in Nat /\ StaleAfter \in Nat /\ PromptItems \in Nat \ {0}
    /\ MaxCatalysts \in Nat /\ IsFiniteSet(Drafts)
    /\ Drafts \subseteq [kind : STRING, title : STRING, status : STRING, due : Int, sure : Int]
    /\ DOMAIN PreOf = DOMAIN PostOf
    /\ \A k \in DOMAIN PreOf : PreOf[k] \in Nat /\ PostOf[k] \in Nat

\* A catalyst without a date comes after every other one and is in no window.
NoDate == Furthest + 1

\* Confidence: too low for the importer, enough for it, enough for the hook.
Doubtful == 0
Accepted == 1
Confident == 2

\* A question that fails, or whose answer is no JSON object.
NoAnswer == [none |-> TRUE]

LiveStatuses == {"expected", "active"}
Statuses == LiveStatuses \cup {"resolved", "stale", "invalidated"}

VARIABLE catalysts   \* polymarket_event_catalysts: [kind, title, status,
                     \*   due, sure, age]; due and age are relative to now

CatalystsInit == catalysts = {}

-----------------------------------------------------------------------------
(* The importer *)

\* validateExtractedCatalyst: a draft without a title, of a kind or a status
\* nobody knows is dropped, ...
WellFormed(d) == d.title # "" /\ d.kind \in Kinds /\ d.status \in Statuses \cup {""}

\* ... and of the others a missing status is `expected`, a date that cannot
\* be is none, and the confidence is put into its range.
Cleaned(d) ==
    [d EXCEPT !.status = IF @ = "" THEN "expected" ELSE @,
              !.due = IF @ \in -Furthest .. Furthest THEN @ ELSE NoDate,
              !.sure = IF @ < Doubtful THEN Doubtful ELSE IF @ > Confident THEN Confident ELSE @]

\* What a question may bring.
Replies == {{NoAnswer}} \cup UNION {kSubset(n, Drafts) : n \in 0 .. MaxDrafts}

\* ParseCatalystExtractionJSON: the most confident first; the order among equals
\* is any fixed one here.
Parsed(answer) ==
    LET cleaned == {Cleaned(d) : d \in {d \in answer : WellFormed(d)}}
    IN  InOrder(cleaned, {p \in cleaned \X cleaned : p[1].sure > p[2].sure})

SameRow(c, d) == c.kind = d.kind /\ c.title = d.title

\* UpsertEventCatalyst: a date and the higher confidence are kept, the status
\* is the last one named.
CatalystUpserted(rows, d) ==
    LET old == {c \in rows : SameRow(c, d)}
    IN  (rows \ old) \cup
        {[kind |-> d.kind, title |-> d.title, status |-> d.status, age |-> 0,
          due |-> IF d.due = NoDate /\ old # {} THEN (CHOOSE c \in old : TRUE).due ELSE d.due,
          sure |-> IF \E c \in old : c.sure > d.sure THEN (CHOOSE c \in old : TRUE).sure
                   ELSE d.sure]}

\* The named ones that are written: confident enough, and the write succeeds.
Written(drafts, failing) ==
    Kept(drafts, {i \in DOMAIN drafts : /\ drafts[i].sure >= Accepted
                                        /\ ~ \E f \in failing : SameRow(drafts[i], f)})

Plainly(named) == {PlainOf[named[i].title] : i \in DOMAIN named}

Passed(c) == c.due = NoDate \/ c.due <= 0

\* Mutant: an active row is never given up.
GivenUpOnceExpected(snapshot, named) ==
    {c \in snapshot : /\ c.status = "expected" /\ Passed(c)
                      /\ PlainOf[c.title] \notin Plainly(named)
                      /\ c.age > StaleAfter}

\* markStale
GivenUp(snapshot, named) ==
    {c \in snapshot : /\ c.status \in LiveStatuses /\ Passed(c)
                      /\ PlainOf[c.title] \notin Plainly(named)
                      /\ c.age > StaleAfter}

\* The rows as they were read before the question.
Snapshot(listed) == IF listed THEN catalysts ELSE {}

\* SetEventCatalystStatus, which counts as a write of the row.
Marked(rows, up) == (rows \ up) \cup {[c EXCEPT !.status = "stale", !.age = 0] : c \in up}

\* processOne with an answer: `listed` tells whether the rows could be read
\* before, `failing` the rows whose writes fail.
ImportCycle(answer, listed, failing) ==
    \E drafts \in {Parsed(answer)} : \E named \in {Written(drafts, failing)} :
        \E after \in {FoldLeft(CatalystUpserted, catalysts, named)} :
            LET up == {c \in GivenUp(Snapshot(listed), named) : ~ \E f \in failing : SameRow(c, f)}
            IN  /\ Cardinality(after) <= MaxCatalysts
                /\ catalysts' = Marked(after, {c \in after : \E d \in up : SameRow(c, d)})
                /\ row' = Verdict("importer", TRUE, ~listed \/ failing # {}, Plainly(named))
                /\ UNCHANGED <<lane, live, tape, cache>>

\* ... and without one.
ImportFails ==
    /\ row' = Verdict("importer", FALSE, TRUE, {})
    /\ UNCHANGED <<lane, live, tape, cache, catalysts>>

-----------------------------------------------------------------------------
(* What blocks an alert *)

LiveRows == {c \in catalysts : c.status \in LiveStatuses}

\* An active one comes before an expected one, and of one status the nearer.
Before(c, d) ==
    \/ c.status = "active" /\ d.status # "active"
    \/ c.status = d.status /\ c.due < d.due

\* ListActiveEventCatalysts
ActiveFirst(cs) == InOrder(cs, {p \in cs \X cs : Before(p[1], p[2])})

\* PrimaryCatalyst, walking the list once.
Primary(list) ==
    FoldLeft(LAMBDA best, c : IF \A b \in best : Before(c, b) THEN {c} ELSE best, {}, list)

\* RenderCatalystPromptBlock: the first items of the list.
Prompted(list) == SubSeq(list, 1, IF Len(list) < PromptItems THEN Len(list) ELSE PromptItems)

\* LoadActiveForFinding: a market without an event, or rows that cannot be
\* read, leave the alert unblocked.
LoadActive(failed) == IF failed THEN << >> ELSE ActiveFirst(LiveRows)

\* blockedFromCatalyst: "while active" or "until", with the date if it has one.
Blocked(c) == [kind |-> c.kind, title |-> c.title, active |-> c.status = "active", until |-> c.due]

\* StampBlockedAlert, and the model's prompt about the same alert.
AskBlocker(failed) ==
    /\ row' = LET list == LoadActive(failed)
              IN  Verdict("blocker", list # << >>, failed,
                          [block |-> {Blocked(c) : c \in Primary(list)},
                           prompt |-> {Blocked(c) : c \in ToSet(Prompted(list))}])
    /\ UNCHANGED <<lane, live, tape, cache, catalysts>>

-----------------------------------------------------------------------------
(* The strategy *)

\* The reader's order: the soonest expected first.
ByTime(cs) == Limited(InOrder(cs, {p \in cs \X cs : p[1].due < p[2].due}))

Fact(c) == [kind |-> c.kind, lead |-> c.due, sure |-> c.sure]

CatalystsOfEvent ==
    LET rows == ByTime(LiveRows) IN Reads(<<"c">>, [i \in DOMAIN rows |-> Fact(rows[i])], << >>)

InWindow(c) ==
    /\ c.sure >= Confident /\ c.lead # NoDate
    /\ c.kind \in DOMAIN PreOf
    /\ c.lead >= -PostOf[c.kind] /\ c.lead <= PreOf[c.kind]

\* Whether a candidate takes the place of the best so far: one ahead that of
\* one that has passed, of two ahead the further, of two passed the closer.
\* One that is due this very moment is in neither case of the first two.
Better(lead, best) ==
    \/ lead > 0 /\ best < 0
    \/ lead > 0 /\ best > 0 /\ lead > best
    \/ lead <= 0 /\ best <= 0 /\ lead > best

\* The pick, walking the list once; {} when nothing matches.
Pick(list) ==
    FoldLeft(LAMBDA best, c : IF /\ InWindow(c)
                                 /\ \A b \in best : Better(c.lead, b.lead)
                              THEN {c} ELSE best,
             {}, list)

\* How near the date is, in percent of its side of the window, and what the
\* alert gains by it.
Nearness(c) ==
    LET span == IF c.lead >= 0 THEN PreOf[c.kind] ELSE PostOf[c.kind]
    IN  100 - (100 * (IF c.lead >= 0 THEN c.lead ELSE -c.lead)) \div (IF span < 1 THEN 1 ELSE span)

Boost(c) == c.sure * (IF Nearness(c) < 0 THEN 0 ELSE Nearness(c))

\* classify
Class(c) ==
    IF c.lead >= 0
    THEN IF 2 * c.lead > PreOf[c.kind] THEN "pre_long" ELSE "pre_short"
    ELSE IF -2 * c.lead > PostOf[c.kind] THEN "post_long" ELSE "post_short"

\* The hook asks about an alert of now; leads kept in the cache have moved
\* on with it.
AskCatalyst ==
    /\ \E r \in CatalystsOfEvent :
           LET now == [i \in DOMAIN r.rows |->
                          [r.rows[i] EXCEPT !.lead = IF @ = NoDate THEN @ ELSE @ - r.age]]
           IN  Concludes(r, Verdict("catalystwindow", Pick(now) # {}, r.failed,
                                    [pick |-> Pick(now), known |-> now,
                                     class |-> {Class(c) : c \in Pick(now)},
                                     boost |-> {Boost(c) : c \in Pick(now)}]))
    /\ UNCHANGED catalysts

CatalystsElapse ==
    /\ FrameMoves \/ catalysts # {}
    /\ FrameElapses
    /\ catalysts' = {[c EXCEPT !.age = Older(@, StaleAfter + 1),
                              !.due = IF @ \in {NoDate, -Furthest} THEN @ ELSE @ - 1] :
                         c \in catalysts}

CatalystsNext ==
    \/ \E reply \in Replies :
           \/ NoAnswer \in reply /\ ImportFails
           \/ NoAnswer \notin reply /\ ImportCycle(reply, TRUE, {})
           \/ NoAnswer \notin reply /\ ImportCycle(reply, FALSE, {})
           \/ /\ NoAnswer \notin reply
              /\ \E f \in ToSet(Written(Parsed(reply), {})) \cup LiveRows : ImportCycle(reply, TRUE, {f})
    \/ AskBlocker(FALSE) \/ AskBlocker(TRUE)
    \/ AskCatalyst
    \/ CatalystsElapse

(***************************************************************************)
(* Properties                                                              *)
(***************************************************************************)

\* An alert is never counted to a catalyst that has passed while one ahead
\* of it, as sure and within its window, was in the answer; and it is counted
\* to one at all when one of them matches.
AheadBeatsBehind ==
    (row # NoRow /\ row.by = "catalystwindow") =>
        LET matching == {c \in ToSet(row.on.known) : InWindow(c)}
        IN  /\ row.on.pick = {} => matching = {}
            /\ \A c \in row.on.pick, d \in matching : c.lead < 0 => d.lead <= 0

\* After a cycle in which nothing failed, every catalyst that still counts has
\* been written of late, or lies ahead, or its title was named.
LiveRowsHaveCause ==
    (row # NoRow /\ row.by = "importer" /\ ~row.failed) =>
        \A c \in LiveRows :
            c.age <= StaleAfter \/ ~Passed(c) \/ PlainOf[c.title] \in row.on

\* An alert is blocked by a catalyst that counts, if there is any: an active
\* one before an expected one, and none nearer of its status.  The model is
\* told of that one, however few it is told of.
BlockerIsTold ==
    (row # NoRow /\ row.by = "blocker" /\ ~row.failed) =>
        /\ row.on.block = {} <=> LiveRows = {}
        /\ row.on.block \subseteq row.on.prompt
        /\ \A b \in row.on.block :
               \E c \in LiveRows :
                   /\ b = Blocked(c)
                   /\ \A d \in LiveRows : d.status = "active" => c.status = "active"
                   /\ \A d \in LiveRows : d.status = c.status => c.due <= d.due

\* The catalysts that count are the ones that should, for whoever asks.
CatalystsTellAhead == AheadBeatsBehind /\ LiveRowsHaveCause /\ BlockerIsTold

\* The comment of Detector.Decide: "picks the soonest matching catalyst", "the one
\* closest to (or just past) the signal time wins".  Of two ahead it is the further
\* one that the code takes (Better).
SoonestWins ==
    (row # NoRow /\ row.by = "catalystwindow") =>
        \A c \in row.on.pick, d \in ToSet(row.on.known) :
            (InWindow(d) /\ c.lead > 0 /\ d.lead > 0) => c.lead <= d.lead

=============================================================================
