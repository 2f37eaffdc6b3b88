----------------------------- MODULE Reporting -----------------------------
(***************************************************************************)
(* What the lists, the counters and the dashboards say about the same      *)
(* tickets: TicketsService.findAll, countsByStatus and findOne for each    *)
(* kind of caller, the consumer's and the representative's dashboards, and *)
(* the business figures of the office with their drill-down by person.     *)
(* The tickets change by the steps of TicketWorkflow, reduced here to the  *)
(* columns these screens read; every screen is a function of the rows.     *)
(***************************************************************************)
EXTENDS Integers, Sequences, FiniteSets, FiniteSetsExt, Functions

CONSTANTS
    ViewTicket,         \* tickets
    Owner,              \* [ViewTicket -> the consumer of the ticket]
    ViewRep,            \* representatives
    PaidIn,             \* [ViewTicket -> {"PKR", "USD"}], the currency of the ticket
    Unset,              \* a null column
    FeeLimit,           \* the largest charge a representative or the office enters
    RowLimit,           \* bound on the assignments of a ticket
    ViewEventLimit      \* bound on the changes of the tickets

ASSUME ViewAssumption ==
    /\ IsFiniteSet(ViewTicket) /\ IsFiniteSet(ViewRep)
    /\ Unset \notin Int /\ FeeLimit \in Nat /\ RowLimit \in Nat /\ ViewEventLimit \in Nat

VARIABLES
    row,                \* the columns of each ticket
    served,             \* its Assignment rows, oldest first
    changes             \* changes made so far

viewVars == <<row, served, changes>>

ViewStatus == {"UNPAID", "PAID", "ASSIGNED", "IN_PROGRESS", "WAITING_APPROVAL",
               "COMPLETED", "DELIVERED"}
Finished == {"COMPLETED", "DELIVERED"}
LiveRow == {"ACTIVE", "ACCEPTED"}
FxRate == 2             \* rupees per dollar, where a rate is stamped
PDF_CLERK_FEE == 3
TicketTotal == 9

NewTicket(rate, pdf, cost) ==
    [status |-> "PAID", archived |-> FALSE, rate |-> rate, clerkCost |-> cost,
     defaultClerkCost |-> 1, submitted |-> Unset, final |-> 0, wantPdf |-> pdf, visible |-> FALSE]

\* A dollar ticket has the rate of its creation, or none was set then.
ViewInit ==
    /\ \E rate \in [ViewTicket -> {Unset, FxRate}], pdf \in SUBSET ViewTicket :
          /\ \A t \in ViewTicket : PaidIn[t] = "PKR" => rate[t] = Unset
          /\ row = [t \in ViewTicket |-> NewTicket(rate[t], t \in pdf, Unset)]
    /\ served = [t \in ViewTicket |-> <<>>]
    /\ changes = 0

(***************************************************************************)
(* The columns the handlers of a ticket leave behind.                      *)
(***************************************************************************)
Change(t, r, a) ==
    /\ changes < ViewEventLimit
    /\ row' = [row EXCEPT ![t] = r]
    /\ served' = [served EXCEPT ![t] = a]
    /\ changes' = changes + 1

\* updateStatus and overrideStatus: the assignments stay as they are.
SetStatus(t, s) ==
    /\ s # row[t].status
    /\ Change(t, [row[t] EXCEPT !.status = s], served[t])

\* assign: only ACTIVE rows are superseded; the cost is the one the office agreed, or none.
AssignRep(t, rep, cost) ==
    /\ row[t].status \in {"UNPAID", "PAID"}
    /\ Len(served[t]) < RowLimit
    /\ Change(t, [row[t] EXCEPT !.status = "ASSIGNED", !.clerkCost = cost],
              Append([i \in DOMAIN served[t] |->
                        IF served[t][i].status = "ACTIVE"
                        THEN [served[t][i] EXCEPT !.status = "SUPERSEDED"] ELSE served[t][i]],
                     [rep |-> rep, status |-> "ACTIVE"]))

\* acceptAssignment and rejectAssignment act on the newest ACTIVE row.
AnswerAssignment(t, accepts) ==
    LET I == {i \in DOMAIN served[t] : served[t][i].status = "ACTIVE"} IN
    /\ row[t].status = "ASSIGNED" /\ I # {}
    /\ Change(t, [row[t] EXCEPT !.status = IF accepts THEN "IN_PROGRESS" ELSE "PAID"],
              [served[t] EXCEPT ![Max(I)].status = IF accepts THEN "ACCEPTED" ELSE "REJECTED"])

\* submitClerkCosts writes the representative's figure twice: theirs, and the charge.
SubmitCosts(t, fee) ==
    /\ row[t].status = "IN_PROGRESS"
    /\ Change(t, [row[t] EXCEPT !.status = "WAITING_APPROVAL", !.submitted = fee, !.final = fee],
              served[t])

\* reviewAndComplete: the office corrects the charge in either direction.
Complete(t, fee) ==
    /\ row[t].status = "WAITING_APPROVAL"
    /\ Change(t, [row[t] EXCEPT !.status = "COMPLETED", !.final = fee], served[t])

\* bulkAction ARCHIVE and RESTORE; a document becomes visible to the consumer.
ArchiveOrRestore(t) == Change(t, [row[t] EXCEPT !.archived = ~@], served[t])
ShowDocument(t) == ~row[t].visible /\ Change(t, [row[t] EXCEPT !.visible = TRUE], served[t])

ViewNext ==
    \E t \in ViewTicket :
        \/ \E s \in ViewStatus : SetStatus(t, s)
        \/ \E rep \in ViewRep, cost \in {Unset, 2} : AssignRep(t, rep, cost)
        \/ \E accepts \in BOOLEAN : AnswerAssignment(t, accepts)
        \/ \E fee \in 0..FeeLimit : SubmitCosts(t, fee) \/ Complete(t, fee)
        \/ ArchiveOrRestore(t)
        \/ ShowDocument(t)

ViewSpec == ViewInit /\ [][ViewNext]_viewVars

(***************************************************************************)
(* The lists.  A caller is the office, a consumer or a representative.     *)
(***************************************************************************)
Everyone == {[role |-> "staff", id |-> "office"]}
    \cup {[role |-> "consumer", id |-> Owner[t]] : t \in ViewTicket}
    \cup {[role |-> "representative", id |-> p] : p \in ViewRep}

everServed(t, p) == \E i \in DOMAIN served[t] : served[t][i].rep = p

holds(t, p) == \E i \in DOMAIN served[t] : served[t][i].rep = p /\ served[t][i].status \in LiveRow

inScope(t, caller) ==
    CASE caller.role = "consumer" -> Owner[t] = caller.id
      [] caller.role = "representative" -> everServed(t, caller.id)
      [] OTHER -> TRUE

\* What a consumer may see of the documents.
redactTicketForConsumer(t) == row[t].status \in Finished /\ row[t].visible

listed(caller) == {t \in ViewTicket : ~row[t].archived /\ inScope(t, caller)}

\* A row of the list: whose phone number it carries and whether it offers the documents.
findAll(caller) ==
    {[id |-> t, status |-> row[t].status,
      phone |-> caller.role = "representative" => holds(t, caller.id),
      documents |-> caller.role = "consumer" /\ redactTicketForConsumer(t)] : t \in listed(caller)}

countsByStatus(caller, s) ==
    Cardinality({t \in ViewTicket : ~row[t].archived /\ inScope(t, caller) /\ row[t].status = s})

opens(t, caller) ==
    CASE caller.role = "consumer" -> Owner[t] = caller.id /\ ~row[t].archived
      [] caller.role = "representative" -> everServed(t, caller.id)
      [] OTHER -> TRUE

findOne(t, caller) ==
    [id |-> t, status |-> row[t].status,
     phone |-> caller.role = "representative" => holds(t, caller.id),
     documents |-> caller.role = "consumer" /\ redactTicketForConsumer(t)]

(***************************************************************************)
(* The figures.                                                            *)
(***************************************************************************)
\* computeClerkEarningsBreakdown: a charge is paid up to what was submitted.
earnings(t) ==
    LET r == row[t] IN
    (IF r.clerkCost # Unset THEN r.clerkCost ELSE r.defaultClerkCost)
      + (IF r.submitted = Unset THEN r.final ELSE Min({r.submitted, r.final}))
      + (IF r.wantPdf THEN PDF_CLERK_FEE ELSE 0)

earned(tickets) == SumFunction([t \in tickets |-> earnings(t)])

convertible(t) == PaidIn[t] = "PKR" \/ row[t].rate # Unset
inPkr(t) == IF PaidIn[t] = "PKR" THEN TicketTotal ELSE TicketTotal * row[t].rate
unarchived == {t \in ViewTicket : ~row[t].archived}
live(t) == {i \in DOMAIN served[t] : served[t][i].status \in LiveRow}

\* A dollar ticket without a rate counts in neither figure.
getBusinessKpis ==
    LET counted == {t \in unarchived : convertible(t)}
        business == SumFunction([t \in counted |-> inPkr(t)])
        payable == earned({t \in counted : live(t) # {}}) IN
    [totalBusiness |-> business, representativeProfit |-> payable,
     wusuqProfit |-> business - payable]

\* Mutant: a ticket with two live rows is counted for both of them.
earner_Each(t, p) == \E i \in live(t) : served[t][i].rep = p

\* The newest live row takes the ticket (seenTickets).
earner(t, p) == live(t) # {} /\ served[t][Max(live(t))].rep = p

getRepresentativeEarnings(p) ==
    LET mine == {t \in unarchived : convertible(t) /\ earner(t, p)} IN
    [realized |-> earned({t \in mine : row[t].status \in Finished}),
     pending |-> earned({t \in mine : row[t].status \notin Finished}),
     total |-> earned(mine)]

\* The representative's own dashboard: every ticket that was ever theirs.
getClerkSummary(p) ==
    LET mine == {t \in unarchived : everServed(t, p)} IN
    [realized |-> earned({t \in mine : row[t].status \in Finished}),
     pending |-> earned({t \in mine :
                    row[t].status \in {"IN_PROGRESS", "WAITING_APPROVAL"}}),
     counts |-> [s \in ViewStatus |-> Cardinality({t \in mine : row[t].status = s})]]

activeOf(tickets) == Cardinality({t \in tickets : row[t].status \notin Finished})

getConsumerSummary(c) ==
    LET mine == {t \in unarchived : Owner[t] = c} IN
    [total |-> Cardinality(mine),
     pending |-> Cardinality({t \in mine : row[t].status = "UNPAID"}),
     active |-> activeOf(mine)]

\* The tabs of My Tickets count the rows of the list they were given.
myTicketsTab(c, tab) ==
    {r \in findAll([role |-> "consumer", id |-> c]) :
        CASE tab = "active" -> r.status \notin Finished
          [] tab = "completed" -> r.status \in Finished
          [] tab = "unpaid" -> r.status = "UNPAID"
          [] OTHER -> TRUE}

(***************************************************************************)
(* Properties.                                                             *)
(***************************************************************************)
\* The rows of the drill-down sum to the figure they explain, also when a ticket that was
\* sent back to PAID has two live assignments or has no exchange rate, and the two parts
\* of a row make its total.
EarningsSumToProfit ==
    /\ SumFunction([p \in ViewRep |-> getRepresentativeEarnings(p).total])
         = getBusinessKpis.representativeProfit
    /\ \A p \in ViewRep : LET e == getRepresentativeEarnings(p) IN e.total = e.realized + e.pending

\* What the office counts as earned by a representative is on that person's own
\* dashboard: the office never owes somebody work their dashboard does not show.
OwedIsShown ==
    \A p \in ViewRep : getRepresentativeEarnings(p).realized <= getClerkSummary(p).realized

\* A consumer reads the same numbers on the dashboard, the tabs of My Tickets and the
\* counters of the menu; a representative on the dashboard and the menu.
CountersAgree ==
    /\ \A c \in {Owner[t] : t \in ViewTicket} :
          LET s == getConsumerSummary(c)
              caller == [role |-> "consumer", id |-> c]
              rows == findAll(caller) IN
          /\ s.active = Cardinality(myTicketsTab(c, "active"))
          /\ s.total = s.active + Cardinality(myTicketsTab(c, "completed"))
          /\ s.pending = Cardinality(myTicketsTab(c, "unpaid"))
          /\ \A st \in ViewStatus :
                countsByStatus(caller, st) = Cardinality({r \in rows : r.status = st})
    /\ \A p \in ViewRep :
          LET counts == getClerkSummary(p).counts IN
          \A st \in ViewStatus :
              counts[st] = countsByStatus([role |-> "representative", id |-> p], st)

\* A ticket a caller finds in a list opens, and shows what the list showed: the same
\* status, the consumer's number only to the representative who holds the ticket, and the
\* documents only once it is finished.
ListAgreesWithDetail ==
    \A caller \in Everyone : \A r \in findAll(caller) :
        opens(r.id, caller) /\ findOne(r.id, caller) = r

\* Two screens that show the same thing show the same: payouts and their drill-down, the
\* office's figures and a representative's, counters and tabs, a list and its details.
NumbersAgree == EarningsSumToProfit /\ OwedIsShown /\ CountersAgree /\ ListAgreesWithDetail
=============================================================================
