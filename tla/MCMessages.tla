----------------------------- MODULE MCMessages -----------------------------
(***************************************************************************)
(* Small instances of what reaches the system or a user late, twice or     *)
(* never: the callbacks of the payment gateway, the notifications that are *)
(* dispatched after an operation, the bell of a tab, the guided tours, and *)
(* the cached figures of the dashboard.  They share no variable, so a      *)
(* behaviour moves one of them, chosen at the start.                       *)
(***************************************************************************)
EXTENDS MCPaymentGateway, Notifications, BellTab, Tours, OfficeSummary

CONSTANT Part

VARIABLE focus

\* Notifications: an assignment turned down, taken over and accepted; any other event by
\* itself, with accounts that are switched off and writes that fail.
CONSTANTS senior, chief, staff, buyer, a1, a2
Roles == senior :> "lead-admin" @@ chief :> "super-admin" @@ staff :> "staff-admin"
         @@ buyer :> "consumer" @@ a1 :> "representative" @@ a2 :> "representative"
Bells(events, limit, off, failing) ==
    [events |-> events, limit |-> limit, turns |-> off, faults |-> failing,
     overrides |-> "ticketStatusChanged" \in events]
Assigning == {"ticketAssigned", "ticketReassigned", "ticketAssignmentAccepted",
              "ticketAssignmentRejected", "ticketStatusChanged"}
BellsRung == {Bells({"ticketAssigned", "ticketAssignmentRejected"}, 3, 1, FALSE),
              Bells({"ticketAssigned", "ticketReassigned", "ticketStatusChanged"}, 2, 0, FALSE),
              Bells({"ticketAssigned", "ticketAssignmentAccepted"}, 2, 1, TRUE),
              Bells(BellEvent \ Assigning, 1, 2, TRUE)}

\* Tours: page loads and releases with failing saves; the same with replays from the menu;
\* one page with dialogs and chained tours; an impersonator; the switch.
ToursOf(seen, acts, releases, loads, plays, failures) ==
    [seen |-> seen, acts |-> acts, releases |-> releases, mounts |-> loads,
     plays |-> plays, faults |-> failures]
ToursPlayed == {ToursOf(None, {}, 2, 3, 2, 2), ToursOf(None, {"menu"}, 1, 3, 3, 2),
                ToursOf(None, {"visit", "other tours", "dialog"}, 1, 1, 2, 0),
                ToursOf([None EXCEPT ![gs] = Row(1, "COMPLETED")], {"visit", "impersonate"},
                        2, 2, 2, 0),
                ToursOf(None, {"switch", "dialog"}, 1, 2, 2, 1)}

\* The dashboard: a submitted ticket beside one in progress, paid in rupees and in dollars
\* with and without a rate; a finished one beside an old one that is owed.
CONSTANTS m1, m2
Matters(status, approval, created, rate, paid) ==
    [status |-> status, archived |-> FALSE, approval |-> approval, byHand |-> FALSE,
     created |-> created, left |-> FALSE, total |-> 2, paid |-> paid, rate |-> rate]
DesksSeen ==
    {m1 :> Matters("WAITING_APPROVAL", "SUBMITTED", "week", PKR, 2)
       @@ m2 :> Matters("IN_PROGRESS", "NONE", "older", rate, 1) : rate \in {NoRate, 3}}
    \cup {m1 :> Matters("UNPAID", "NONE", "month", NoRate, 0)
            @@ m2 :> Matters("COMPLETED", "VERIFIED", "older", PKR, 1)}

\* A component that does not move starts in one of its initial states only.
Still(part, one) == focus = part \/ one

MessagesInit ==
    /\ focus \in Part
    /\ Init /\ Still("gateway", ticket.service = 2)
    /\ BellInit /\ Still("bells", bellScene.events = BellEvent \ Assigning)
    /\ TabInit
    /\ TourInit /\ Still("tours", tourScene.mounts = 1)
    /\ SummaryInit /\ Still("summary", matter[m1].status = "UNPAID")

MessagesNext ==
    \/ focus = "gateway" /\ Next /\ UNCHANGED <<focus, bellVars, tabVars, tourVars, summaryVars>>
    \/ focus = "bells" /\ BellNext /\ UNCHANGED <<focus, vars, tabVars, tourVars, summaryVars>>
    \/ focus = "tab" /\ TabNext /\ UNCHANGED <<focus, vars, bellVars, tourVars, summaryVars>>
    \/ focus = "tours" /\ TourNext /\ UNCHANGED <<focus, vars, bellVars, tabVars, summaryVars>>
    \/ focus = "summary" /\ SummaryNext /\ UNCHANGED <<focus, vars, bellVars, tabVars, tourVars>>

\* Payments are interchangeable.
MessagesSymmetry == Permutations(Payment)

MessagesSpec ==
    MessagesInit /\ [][MessagesNext]_<<focus, vars, bellVars, tabVars, tourVars, summaryVars>>
=============================================================================
