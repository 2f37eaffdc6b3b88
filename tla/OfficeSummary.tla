---------------------------- MODULE OfficeSummary ---------------------------
(***************************************************************************)
(* The dashboard of the office.  DashboardService.getSummary answers from  *)
(* a cache, one entry for each range of days, kept for a minute; otherwise *)
(* computeSummary reads figure after figure, the last ones side by side,   *)
(* without a transaction, while the tickets go on changing.  The action    *)
(* centre of the page links each number to a list of tickets.  Days are    *)
(* abstracted to how long ago a ticket was created and whether it was left *)
(* alone for a week; the business figures are in Reporting.                *)
(***************************************************************************)
EXTENDS Integers, Sequences, FiniteSets, FiniteSetsExt

CONSTANTS
    Matter,         \* tickets
    Desks,          \* the possible rows of the tickets at the start
    SummaryReq,     \* requests that may be under way
    Worth,          \* amounts a ticket may cost, or have been paid
    SummaryLimit    \* bound on the changes of the tickets and the summaries together

VARIABLES
    matter,         \* the columns of each ticket
    reading,        \* the requests
    statsCache,     \* the cached answers
    happened        \* changes made and summaries begun so far

summaryVars == <<matter, reading, statsCache, happened>>

MatterStatus == {"UNPAID", "IN_PROGRESS", "WAITING_APPROVAL", "COMPLETED", "DELIVERED"}
DayRange == {"7d", "30d"}
PKR == 1            \* a column rate of rupees; other rates convert dollars
NoRate == 0         \* a dollar ticket created while no rate was set

\* byHand: somebody moved the ticket between submitting its costs and deciding on them.
MatterRow == [status : MatterStatus, archived : BOOLEAN,
              approval : {"NONE", "SUBMITTED", "VERIFIED", "REJECTED"}, byHand : BOOLEAN,
              created : {"week", "month", "older"}, left : BOOLEAN,
              total : Nat, paid : Nat, rate : Nat]

ASSUME SummaryAssumption ==
    /\ IsFiniteSet(Matter) /\ Worth \subseteq Nat
    /\ Desks \subseteq [Matter -> MatterRow]
    /\ \A rows \in Desks, t \in Matter :
          rows[t].approval = "SUBMITTED" /\ ~rows[t].byHand => rows[t].status = "WAITING_APPROVAL"

NoAnswer == [state |-> "none", unmoved |-> FALSE, got |-> <<>>]
NotAsked == [state |-> "idle", range |-> "7d", step |-> 1, unmoved |-> FALSE, got |-> <<>>]

SummaryInit ==
    /\ matter \in Desks
    /\ reading = [q \in SummaryReq |-> NotAsked]
    /\ statsCache = [d \in DayRange |-> NoAnswer]
    /\ happened = 0

-----------------------------------------------------------------------------
\* What happens to the columns the dashboard reads.

Move(t, columns) ==
    /\ happened < SummaryLimit /\ happened' = happened + 1
    /\ matter' = [matter EXCEPT ![t] = columns]
    /\ reading' = [q \in SummaryReq |-> [reading[q] EXCEPT !.unmoved = FALSE]]
    /\ statsCache' = [d \in DayRange |-> [statsCache[d] EXCEPT !.unmoved = FALSE]]

\* updateStatus and overrideStatus leave the approval of the costs as it is.
MoveByHand(t, s) ==
    /\ s # matter[t].status
    /\ Move(t, [matter[t] EXCEPT !.status = s, !.left = FALSE,
                                 !.byHand = @ \/ matter[t].approval = "SUBMITTED"])

SubmitMatter(t) ==
    /\ matter[t].status = "IN_PROGRESS"
    /\ Move(t, [matter[t] EXCEPT !.status = "WAITING_APPROVAL", !.approval = "SUBMITTED",
                                 !.left = FALSE, !.byHand = FALSE])

SendBackMatter(t) ==
    /\ matter[t].status = "WAITING_APPROVAL"
    /\ Move(t, [matter[t] EXCEPT !.status = "IN_PROGRESS", !.approval = "REJECTED", !.left = FALSE])

ReviewMatter(t, total) ==
    /\ matter[t].status = "WAITING_APPROVAL"
    /\ Move(t, [matter[t] EXCEPT !.status = "COMPLETED", !.total = total, !.left = FALSE,
                                 !.approval = IF @ = "SUBMITTED" THEN "VERIFIED" ELSE @])

\* A payment, or a change of the price.
PayOrPrice(t, total, paid) ==
    /\ <<total, paid>> # <<matter[t].total, matter[t].paid>>
    /\ total = matter[t].total \/ paid = matter[t].paid
    /\ Move(t, [matter[t] EXCEPT !.total = total, !.paid = paid, !.left = FALSE])

ArchiveMatter(t) == Move(t, [matter[t] EXCEPT !.archived = ~@, !.left = FALSE])
WeekPasses(t) == ~matter[t].left /\ Move(t, [matter[t] EXCEPT !.left = TRUE])

-----------------------------------------------------------------------------
\* The figures.

unarchivedMatter == {t \in Matter : ~matter[t].archived}
withStatus(s) == {t \in unarchivedMatter : matter[t].status = s}

\* sumMixedCurrencyToPkr: rows without a rate are left out and counted.
sumMixedCurrencyToPkr(rows, amount) ==
    [pkr |-> SumFunctionOnSet([t \in Matter |-> amount[t] * matter[t].rate], rows),
     excluded |-> Cardinality({t \in rows : matter[t].rate = NoRate})]

getRevenueKpis ==
    LET total == sumMixedCurrencyToPkr(unarchivedMatter, [t \in Matter |-> matter[t].total])
        paid == sumMixedCurrencyToPkr(unarchivedMatter, [t \in Matter |-> matter[t].paid])
    IN  [totalRevenue |-> paid.pkr, outstandingBalance |-> Max({0, total.pkr - paid.pkr}),
         excluded |-> total.excluded]

\* Each remainder is floored by itself.
aged == {t \in unarchivedMatter : matter[t].created = "older" /\ matter[t].status # "DELIVERED"}
remainder(t) == Max({0, matter[t].total - matter[t].paid})

\* Mutant: dollars without a rate are added as they are.
getAgedOutstandingKpi_Raw ==
    [pkr |-> SumFunctionOnSet([t \in Matter |-> remainder(t) * Max({1, matter[t].rate})], aged),
     excluded |-> 0]

getAgedOutstandingKpi == sumMixedCurrencyToPkr(aged, [t \in Matter |-> remainder(t)])

createdIn(range) ==
    {t \in unarchivedMatter : matter[t].created \in IF range = "7d" THEN {"week"} ELSE {"week", "month"}}

\* One query, or one helper, of computeSummary.
figure(f, range) ==
    CASE f = "total" -> Cardinality(unarchivedMatter)
      [] f = "completed" -> Cardinality(withStatus("COMPLETED"))
      [] f = "revenue" -> getRevenueKpis
      [] f = "byStatus" -> [s \in MatterStatus |-> Cardinality(withStatus(s))]
      [] f = "recent" -> Cardinality(createdIn(range))
      [] f = "unpaid" -> Cardinality(withStatus("UNPAID"))
      [] f = "waiting" -> Cardinality(withStatus("WAITING_APPROVAL"))
      [] f = "submitted" -> Cardinality({t \in unarchivedMatter : matter[t].approval = "SUBMITTED"})
      [] f = "stuck" -> Cardinality({t \in withStatus("IN_PROGRESS") : matter[t].left})
      [] f = "aged" -> getAgedOutstandingKpi

\* In order; those of one step are read side by side.
Reads == <<{"total"}, {"completed"}, {"revenue"}, {"byStatus"}, {"recent"},
           {"unpaid", "waiting", "submitted", "stuck", "aged"}>>

\* buildPendingActions: the number and the list the link opens.
buildPendingActions(got) ==
    {[key |-> "unpaid_tickets", count |-> got.unpaid, list |-> "UNPAID"],
     [key |-> "waiting_approval", count |-> got.waiting, list |-> "WAITING_APPROVAL"],
     [key |-> "clerk_submitted", count |-> got.submitted, list |-> "WAITING_APPROVAL"],
     [key |-> "stuck_in_progress", count |-> got.stuck, list |-> "IN_PROGRESS"]}

-----------------------------------------------------------------------------
\* getSummary.

\* A page asks and the entry of its range has expired.
GetSummary(q, range) ==
    /\ happened < SummaryLimit /\ happened' = happened + 1
    /\ reading[q].state = "idle" /\ statsCache[range].state # "fresh"
    /\ reading' = [reading EXCEPT ![q] = [state |-> "open", range |-> range, step |-> 1,
                                      unmoved |-> TRUE, got |-> <<>>]]
    /\ UNCHANGED <<matter, statsCache>>

ReadFigure(q, f) ==
    LET a == reading[q]
        got == [g \in DOMAIN a.got \cup {f} |-> IF g = f THEN figure(f, a.range) ELSE a.got[g]]
    IN
    /\ a.state = "open" /\ a.step \in DOMAIN Reads
    /\ f \in Reads[a.step] \ DOMAIN a.got
    /\ reading' = [reading EXCEPT ![q] =
         [a EXCEPT !.got = got,
                   !.step = IF Reads[a.step] \subseteq DOMAIN got THEN @ + 1 ELSE @]]
    /\ UNCHANGED <<matter, statsCache, happened>>

SummaryDone(q) ==
    LET a == reading[q] IN
    /\ a.state = "open" /\ a.step = Len(Reads) + 1
    /\ statsCache' = [statsCache EXCEPT ![a.range] =
                        [state |-> "fresh", unmoved |-> a.unmoved, got |-> a.got]]
    /\ reading' = [reading EXCEPT ![q] = NotAsked]
    /\ UNCHANGED <<matter, happened>>

\* A query fails: nothing is cached.
SummaryFails(q) ==
    /\ reading[q].state = "open"
    /\ reading' = [reading EXCEPT ![q] = NotAsked]
    /\ UNCHANGED <<matter, statsCache, happened>>

\* A minute passes.
SummaryExpires(range) ==
    /\ statsCache[range].state = "fresh"
    /\ statsCache' = [statsCache EXCEPT ![range].state = "expired"]
    /\ UNCHANGED <<matter, reading, happened>>

SummaryNext ==
    \/ \E t \in Matter :
         \/ \E s \in MatterStatus : MoveByHand(t, s)
         \/ SubmitMatter(t) \/ SendBackMatter(t) \/ ArchiveMatter(t) \/ WeekPasses(t)
         \/ \E total \in Worth : ReviewMatter(t, total)
         \/ \E total, paid \in Worth : PayOrPrice(t, total, paid)
    \/ \E q \in SummaryReq :
         \/ \E range \in DayRange : GetSummary(q, range)
         \/ \E f \in UNION {Reads[i] : i \in DOMAIN Reads} : ReadFigure(q, f)
         \/ SummaryDone(q) \/ SummaryFails(q)
    \/ \E range \in DayRange : SummaryExpires(range)

SummarySpec == SummaryInit /\ [][SummaryNext]_summaryVars

-----------------------------------------------------------------------------
\* Properties.  Both speak of answers during and after whose computation nothing has changed;
\* of the others only so much can be said as of a picture with a moving subject.

StillTrue == {d \in DayRange : statsCache[d].unmoved}

\* A number of the action centre is the number of tickets its link opens, or a part of them:
\* what was submitted is found among what waits for approval, unless somebody moved a
\* submitted ticket by hand.
CountsMatchTheirLinks ==
    \A d \in StillTrue : \A a \in buildPendingActions(statsCache[d].got) :
        LET opened == Cardinality(withStatus(a.list)) IN
        CASE a.key \in {"unpaid_tickets", "waiting_approval"} -> a.count = opened
          [] a.key = "clerk_submitted" -> (\E t \in Matter : matter[t].byHand) \/ a.count <= opened
          [] OTHER -> a.count <= opened

\* The figures of one answer are of one picture: the statuses add up to the total, the
\* counters agree with them, a wider range counts more, and the aged debts are a part of all
\* debts, with dollars converted or left out alike, as long as no ticket is paid more than it
\* costs.
OnePicture ==
    \A d \in StillTrue :
        LET got == statsCache[d].got IN
        /\ SumFunctionOnSet(got.byStatus, MatterStatus) = got.total
        /\ got.completed = got.byStatus["COMPLETED"] /\ got.recent <= got.total
        /\ \A e \in StillTrue : d = "7d" /\ e = "30d" => got.recent <= statsCache[e].got.recent
        /\ (\A t \in Matter : matter[t].paid <= matter[t].total) =>
              /\ got.aged.pkr <= got.revenue.outstandingBalance
              /\ got.aged.excluded <= got.revenue.excluded

\* What the dashboard shows agrees with itself and with the lists behind its links, for an
\* answer whose twenty reads no change has crossed (dashboard.service.ts:916-1180).
FiguresAgree == CountsMatchTheirLinks /\ OnePicture
=============================================================================
