-------------------------------- MODULE Tours -------------------------------
(***************************************************************************)
(* Guided tours.  The provider of the consumer's pages asks the API which  *)
(* tours the user has seen, plays "getting started" and then the tour of   *)
(* the page, each once, and saves how it ended.  A save that fails waits   *)
(* in a queue in the browser for the next load.  Loading, saving, flushing *)
(* the queue, the delay before a tour starts, dialogs, navigation, a new   *)
(* release and the end of the page interleave.  One user, one tab.         *)
(***************************************************************************)
EXTENDS Naturals, FiniteSets, Sequences

CONSTANT
    TourScenes      \* what the API knows of the user at the start, what happens besides
                    \* loading and playing, and bounds: releases, mounts, plays, faults

gs == "consumer.getting-started"
Tour == {gs, "consumer.dashboard", "consumer.my-tickets"}
AutoOff == "tours.auto-off"
NoTour == "no tour"
Onboarding == "the onboarding wizard"
NoRow == [version |-> 0, status |-> "none"]

VARIABLES
    tourScene,
    release,    \* TOUR_META: the version of the tours, on the API and in a new bundle
    progressOf, \* UserTourProgress: the rows of the user
    queue,      \* localStorage: rows to save
    provider,   \* the TourProvider of the page
    saves,      \* PUTs under way
    faults,
    ended,      \* the ends a user has seen: tour, version
    settled     \* those of them whose save was answered or queued

tourVars == <<tourScene, release, progressOf, queue, provider, saves, faults, ended, settled>>

Known == Tour \cup {AutoOff}
Row(v, s) == [version |-> v, status |-> s]

\* A row of the newer version replaces one of the older; at a tie the second wins.
mergeProgress(rows, pending) ==
    [t \in Known |-> IF pending[t] # NoRow /\ pending[t].version >= rows[t].version
                     THEN pending[t] ELSE rows[t]]

None == [t \in Known |-> NoRow]

\* The API has rows of the current version only, which is the first.
ASSUME TourAssumption ==
    \A scene \in TourScenes :
        scene.seen \in [Known -> {NoRow} \cup [version : {1}, status : {"COMPLETED", "DISMISSED"}]]

-----------------------------------------------------------------------------
\* Auto-play.

isTourSeen(p, t) == p.progress[t].version >= p.bundle

\* The effect of the provider: what its timer will play, from the state it sees now.  A
\* tour that was asked for first, then "getting started", then the tour of the page.
gettingStartedDone(p) == gs \in p.seen \/ (p.loaded /\ isTourSeen(p, gs))

shouldAutoPlay(p, t) ==
    /\ p.loaded /\ ~p.impersonating /\ p.running = NoTour /\ ~p.dialog
    /\ t \notin p.seen /\ p.progress[AutoOff] = NoRow /\ ~isTourSeen(p, t)
    /\ t = gs \/ gettingStartedDone(p)

candidate(p) ==
    IF p.requested # NoTour /\ p.page = p.requested /\ p.ready
       /\ p.running = NoTour /\ ~p.dialog
    THEN [tour |-> p.requested, asked |-> TRUE]
    ELSE IF p.page # Onboarding /\ shouldAutoPlay(p, gs) THEN [tour |-> gs, asked |-> FALSE]
    ELSE IF p.page \in Tour /\ p.ready /\ shouldAutoPlay(p, p.page)
         THEN [tour |-> p.page, asked |-> FALSE]
         ELSE [tour |-> NoTour, asked |-> FALSE]

\* A render: the timer is set anew.
Rendered(p) == provider' = [p EXCEPT !.timer = candidate(p)]

\* A new provider: its bundle, the user's own page or an impersonator's; the queue is read
\* at once, the rows of the API are asked for.  known: what was settled before.
Provider(bundle, imp) ==
    [bundle |-> bundle, impersonating |-> imp, known |-> settled,
     loading |-> "asked", loaded |-> FALSE, answer |-> None, progress |-> None,
     pending |-> queue, flush |-> {}, failing |-> None,
     seen |-> {}, running |-> NoTour, auto |-> FALSE, shown |-> FALSE,
     requested |-> NoTour, page |-> NoTour, ready |-> FALSE, dialog |-> FALSE,
     off |-> "unset", early |-> FALSE, timer |-> [tour |-> NoTour, asked |-> FALSE],
     loads |-> 1, plays |-> 0]

Has(act) == act \in tourScene.acts

TourInit ==
    /\ tourScene \in TourScenes
    /\ release = 1
    /\ progressOf = tourScene.seen
    /\ queue = None
    /\ saves = {} /\ faults = 0
    /\ ended = {<<t, progressOf[t].version>> : t \in {u \in Tour : progressOf[u] # NoRow}}
    /\ settled = ended
    /\ \E imp \in BOOLEAN : (imp => Has("impersonate")) /\ provider = Provider(1, imp)

-----------------------------------------------------------------------------
\* Loading.

\* tours.service.list; or the request fails and the progress stays unknown.
ListServed ==
    /\ provider.loading = "asked"
    /\ provider' = [provider EXCEPT !.loading = "answered", !.answer = progressOf]
    /\ UNCHANGED <<tourScene, release, progressOf, queue, saves, faults, ended, settled>>

ListFails ==
    /\ provider.loading = "asked" /\ faults < tourScene.faults
    /\ provider' = [provider EXCEPT !.loading = "over"]
    /\ faults' = faults + 1
    /\ UNCHANGED <<tourScene, release, progressOf, queue, saves, ended, settled>>

\* The answer is merged with the queue as it was read before; then the queue is flushed.
Loaded ==
    /\ provider.loading = "answered"
    /\ Rendered([provider EXCEPT
         !.loading = "over", !.loaded = TRUE,
         !.progress = mergeProgress(provider.answer, provider.pending),
         !.flush = IF provider.impersonating THEN {}
                   ELSE {t \in Tour : provider.pending[t] # NoRow}])
    /\ UNCHANGED <<tourScene, release, progressOf, queue, saves, faults, ended, settled>>

\* tours.service.save: a version that is not the current one is refused for good.
save(t, row) ==
    progressOf' = IF row.version = release THEN [progressOf EXCEPT ![t] = row] ELSE progressOf

\* flushPending, one row after the other: saved or dropped, or it fails and stays; and
\* after the last the queue is read again.
reconcilePendingAfterFlush(current, attempted, failing) ==
    mergeProgress([t \in Known |-> IF attempted[t] = current[t] THEN NoRow ELSE current[t]],
                  failing)

FlushOne(t, fails) ==
    LET row == provider.pending[t]
        failing == IF fails THEN [provider.failing EXCEPT ![t] = row] ELSE provider.failing
        rest == provider.flush \ {t}
    IN
    /\ t \in provider.flush
    /\ fails => faults < tourScene.faults
    /\ faults' = faults + (IF fails THEN 1 ELSE 0)
    /\ IF fails THEN UNCHANGED progressOf ELSE save(t, row)
    /\ provider' = [provider EXCEPT !.flush = rest, !.failing = failing]
    /\ queue' = IF rest # {} THEN queue
                ELSE reconcilePendingAfterFlush(queue, provider.pending, failing)
    /\ UNCHANGED <<tourScene, release, saves, ended, settled>>

-----------------------------------------------------------------------------
\* Playing.

Play(p, t, auto) ==
    /\ p.running = NoTour /\ p.plays < tourScene.plays
    /\ Rendered([p EXCEPT !.running = t, !.auto = auto, !.plays = @ + 1])
    /\ UNCHANGED <<tourScene, release, progressOf, queue, saves, faults, ended, settled>>

\* The timer fires.  What is not among the effect's dependencies is looked at again; a
\* tour that was asked for plays for an impersonator too.
Fire ==
    LET t == provider.timer IN
    /\ t.tour # NoTour
    /\ IF provider.dialog
       THEN /\ provider' = [provider EXCEPT !.timer = [tour |-> NoTour, asked |-> FALSE]]
            /\ UNCHANGED <<tourScene, release, progressOf, queue, saves, faults, ended, settled>>
       ELSE Play(IF t.asked THEN [provider EXCEPT !.requested = NoTour] ELSE provider,
                 t.tour, ~t.asked)

\* The menu "?": play, or ask for another tour and go to its page; and the switch, which
\* is saved without the queue, by an impersonator too, and whose requests come in order.
start(t) ==
    /\ Has("menu")
    /\ t \in {gs, provider.page}
    /\ Play(provider, t, FALSE)

Go(p, page) == Rendered([p EXCEPT !.page = page, !.ready = FALSE])

requestTour(t) ==
    /\ Has("other tours") /\ t \in Tour \ {gs, provider.page}
    /\ Go([provider EXCEPT !.requested = t], t)
    /\ UNCHANGED <<tourScene, release, progressOf, queue, saves, faults, ended, settled>>

setAutoOff(fails) ==
    LET p == provider
        off == IF p.off = "unset" THEN p.progress[AutoOff] # NoRow ELSE p.off = "on"
        row == IF off THEN NoRow ELSE Row(1, "DISMISSED")
    IN
    /\ Has("switch")
    /\ fails => faults < tourScene.faults
    /\ faults' = faults + (IF fails THEN 1 ELSE 0)
    /\ Rendered([p EXCEPT
         !.off = IF off THEN "off" ELSE "on", !.early = p.loading # "over",
         !.progress = IF p.loaded THEN [@ EXCEPT ![AutoOff] = row] ELSE @])
    /\ progressOf' = IF fails THEN progressOf ELSE [progressOf EXCEPT ![AutoOff] = row]
    /\ UNCHANGED <<tourScene, release, queue, saves, ended, settled>>

\* runTour: the library is loaded and the steps are resolved against the page; a step
\* whose target is missing, or a library that does not load, ends it at once.
Shown ==
    /\ provider.running # NoTour /\ ~provider.shown
    /\ provider' = [provider EXCEPT !.shown = TRUE]
    /\ UNCHANGED <<tourScene, release, progressOf, queue, saves, faults, ended, settled>>

nextTour(t) == IF t = "consumer.dashboard" THEN "consumer.my-tickets" ELSE NoTour

\* The tour is over; an outcome other than "aborted" is kept and saved, unless the page is
\* an impersonator's; a completed tour may lead to the next.
persisted(outcome) == outcome # "aborted" /\ ~provider.impersonating

Ends(outcome) ==
    LET p == provider
        t == p.running
        row == Row(p.bundle, IF outcome = "completed" THEN "COMPLETED" ELSE "DISMISSED")
        over == [p EXCEPT !.running = NoTour, !.shown = FALSE, !.seen = @ \cup {t},
                   !.progress = IF persisted(outcome) /\ p.loaded
                                THEN [@ EXCEPT ![t] = mergeProgress(p.progress,
                                                        [None EXCEPT ![t] = row])[t]]
                                ELSE @]
    IN
    /\ t # NoTour /\ (p.shown <=> outcome # "aborted")
    /\ IF outcome = "completed" /\ nextTour(t) # NoTour
       THEN Go([over EXCEPT !.requested = nextTour(t)], nextTour(t))
       ELSE Rendered(over)
    /\ saves' = IF persisted(outcome)
                THEN saves \cup {[tour |-> t, row |-> row, heard |-> TRUE, result |-> "sent"]}
                ELSE saves
    /\ ended' = IF outcome # "aborted" /\ ~p.impersonating
                THEN ended \cup {<<t, p.bundle>>} ELSE ended
    /\ UNCHANGED <<tourScene, release, progressOf, queue, faults, settled>>

-----------------------------------------------------------------------------
\* Saving.

SaveServed(s, lost) ==
    /\ s \in saves /\ s.result = "sent"
    /\ lost => faults < tourScene.faults
    /\ faults' = faults + (IF lost THEN 1 ELSE 0)
    /\ save(s.tour, s.row)
    /\ saves' = (saves \ {s}) \cup
         {[s EXCEPT !.result = IF lost THEN "retry"
                               ELSE IF s.row.version = release THEN "ok" ELSE "drop"]}
    /\ UNCHANGED <<tourScene, release, queue, provider, ended, settled>>

SaveFails(s) ==
    /\ s \in saves /\ s.result = "sent" /\ faults < tourScene.faults
    /\ faults' = faults + 1
    /\ saves' = (saves \ {s}) \cup {[s EXCEPT !.result = "retry"]}
    /\ UNCHANGED <<tourScene, release, progressOf, queue, provider, ended, settled>>

\* Mutant: a save that fails is forgotten.
applySaveResultToPending_Forget(pending, result, t, row) == [pending EXCEPT ![t] = NoRow]
applySaveResultToPending(pending, result, t, row) ==
    IF result = "retry" THEN mergeProgress(pending, [None EXCEPT ![t] = row])
    ELSE [pending EXCEPT ![t] = NoRow]

\* The answer reaches the script that sent the request, which outlives its page when the
\* user leaves it inside the application.
SaveAnswered(s) ==
    /\ s \in saves /\ s.result # "sent"
    /\ saves' = saves \ {s}
    /\ queue' = IF s.heard THEN applySaveResultToPending(queue, s.result, s.tour, s.row)
                ELSE queue
    /\ settled' = IF s.heard /\ s.result # "drop"
                  THEN settled \cup {<<s.tour, s.row.version>>} ELSE settled
    /\ UNCHANGED <<tourScene, release, progressOf, provider, faults, ended>>

-----------------------------------------------------------------------------
\* The page.

registerPageTour(page) ==
    /\ Has("visit")
    /\ Go(provider, page)
    /\ UNCHANGED <<tourScene, release, progressOf, queue, saves, faults, ended, settled>>

PageReady ==
    /\ provider.page \in Tour /\ ~provider.ready
    /\ Rendered([provider EXCEPT !.ready = TRUE])
    /\ UNCHANGED <<tourScene, release, progressOf, queue, saves, faults, ended, settled>>

\* A dialog opens or closes: nothing renders.
Dialog ==
    /\ Has("dialog")
    /\ provider' = [provider EXCEPT !.dialog = ~@]
    /\ UNCHANGED <<tourScene, release, progressOf, queue, saves, faults, ended, settled>>

\* The provider is unmounted and mounted again: a tour that is open is destroyed and not
\* saved, a flush does not write the queue.  When the page was loaded anew it has the bundle
\* of the release, and nobody hears the answers to the saves of the old one.
Remount(reload, imp) ==
    /\ imp => Has("impersonate")
    /\ provider.loads < tourScene.mounts
    /\ provider' = [Provider(IF reload THEN release ELSE provider.bundle, imp) EXCEPT
                      !.loads = provider.loads + 1, !.plays = provider.plays]
    /\ saves' = IF reload THEN {[s EXCEPT !.heard = FALSE] : s \in saves} ELSE saves
    /\ UNCHANGED <<tourScene, release, progressOf, queue, faults, ended, settled>>

Release ==
    /\ release < tourScene.releases
    /\ release' = release + 1
    /\ UNCHANGED <<tourScene, progressOf, queue, provider, saves, faults, ended, settled>>

TourNext ==
    \/ ListServed \/ ListFails \/ Loaded
    \/ \E t \in Tour, f \in BOOLEAN : FlushOne(t, f)
    \/ Fire \/ Shown \/ PageReady \/ Dialog \/ Release
    \/ \E t \in Tour : start(t) \/ requestTour(t)
    \/ \E f \in BOOLEAN : setAutoOff(f)
    \/ \E o \in {"completed", "dismissed", "aborted"} : Ends(o)
    \/ \E s \in saves : SaveFails(s) \/ SaveAnswered(s)
                        \/ \E lost \in BOOLEAN : SaveServed(s, lost)
    \/ \E page \in (Tour \ {gs}) \cup {Onboarding} : registerPageTour(page)
    \/ \E reload, imp \in BOOLEAN : Remount(reload, imp)

TourSpec == TourInit /\ [][TourNext]_tourVars

-----------------------------------------------------------------------------
\* Properties.

\* A tour starts by itself.
AutoStarts == provider.running = NoTour /\ provider'.running # NoTour /\ provider'.auto

\* Never again: a tour that the user has ended, and whose save was answered or queued before
\* the page was mounted, does not start by itself in the same version, whatever failed in
\* between; nor does one that has already ended in the page.
NeverReplays ==
    [][AutoStarts =>
        /\ provider'.running \notin provider.seen
        /\ provider.bundle = release => <<provider'.running, release>> \notin provider.known
      ]_tourVars

\* Rows are earned: the API, the queue and the page hold a row of a tour only when the user
\* saw that version to its end or closed it; one that could not be shown, was cut off by
\* leaving the page or was played by an impersonator leaves none.
RowsAreEarned ==
    \A rows \in {progressOf, queue, provider.progress}, t \in Tour :
        rows[t] # NoRow => <<t, rows[t].version>> \in ended

\* Off means off: no tour starts by itself while the menu says that none will, when the
\* switch was used after the progress was loaded.
OffMeansOff == [][AutoStarts /\ provider.off = "on" => provider.early]_tourVars

\* First things first: the tour of a page starts by itself only after "getting started"
\* was played in this page or seen before.
StartsFirst ==
    [][AutoStarts /\ provider'.running # gs =>
        gs \in provider.seen \/ \E v \in provider.bundle..release : <<gs, v>> \in ended]_tourVars

\* A tour starts by itself exactly as often as it should, across failed saves, reloads,
\* releases and impersonation: rows are earned, nothing replays, the switch is obeyed and
\* "getting started" comes first (tour-provider.tsx, progress.ts).
ToursPlayOnce == []RowsAreEarned /\ NeverReplays /\ OffMeansOff /\ StartsFirst
=============================================================================
