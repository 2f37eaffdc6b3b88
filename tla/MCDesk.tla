------------------------------- MODULE MCDesk -------------------------------
(***************************************************************************)
(* Small instances of the components that must eventually answer somebody: *)
(* sessions and codes, hearing reminders, the documents of a ticket, the   *)
(* intake form with its picker and its previews.  They share no variable,  *)
(* so a behaviour moves one of them, chosen at the start; the others rest  *)
(* in an initial state in which none of their fair actions is enabled.     *)
(***************************************************************************)
EXTENDS Sessions, Hearings, TicketDocuments, IntakePicker, TicketBoard

CONSTANTS b1, b2, g1, g2, g3, x, y, j1, j2, j3, Part

VARIABLE focus

\* Two calls in one tab and one in another.
Tabs == [f \in {g1, g2, g3} |-> IF f = g3 THEN b2 ELSE b1]

\* Two courts in one city and one in the other, a High Court in the first only.
Courts ==
    [c \in {x, y} |-> [t \in CourtType |->
        CASE t = "Lower Court" -> IF c = x THEN {j1, j2} ELSE {j3}
          [] t = "High Court" /\ c = x -> {j1}
          [] OTHER -> {}]]

\* Boards: the course of a ticket with the review, overrides in the middle of it, and the
\* dialog of the costs, of who holds the ticket and of who does not hold it any more.
Scenes == {{"accept", "reject", "hearing", "dispatch", "assign", "sendBack", "deliver", "archive",
            "restore", "pay", "finalize", "figures", "complete"},
           {"ASSIGNED", "IN_PROGRESS", "WAITING_APPROVAL", "DELIVERED", "accept", "reject", "receipt",
            "dispatch", "assign", "deliver", "pay", "finalize", "figures"},
           {"costs", "sendBack"}}

DeskInit ==
    /\ focus \in Part
    /\ SessionInit /\ DocInit
    /\ HearingInit /\ (IF focus = "hearings"
          THEN \A t \in HearingTicket : docket[t].pending
                 /\ docket[t].status = IF t \in Undeliverable THEN "ASSIGNED" ELSE "UNPAID"
          ELSE \A t \in HearingTicket : docket[t].status = "UNPAID" /\ docket[t].pending)
    /\ FormInit
    /\ BoardInit /\ ("costs" \in buttons <=> \A k \in BoardTicket : site[k].status = "IN_PROGRESS")
                 /\ (focus = "board" \/ \A k \in BoardTicket : site[k].accepted = "clerk")

DeskNext ==
    \/ focus = "tokens" /\ TokenNext /\ UNCHANGED <<focus, hearingVars, docVars, formVars, boardVars>>
    \/ focus = "codes" /\ OtpNext /\ UNCHANGED <<focus, hearingVars, docVars, formVars, boardVars>>
    \/ focus = "hearings" /\ HearingNext /\ UNCHANGED <<focus, sessionVars, docVars, formVars, boardVars>>
    \/ focus = "documents" /\ DocNext /\ UNCHANGED <<focus, sessionVars, hearingVars, formVars, boardVars>>
    \/ focus = "picker" /\ PickerNext /\ UNCHANGED <<focus, sessionVars, hearingVars, docVars, boardVars>>
    \/ focus = "preview" /\ PreviewNext /\ UNCHANGED <<focus, sessionVars, hearingVars, docVars, boardVars>>
    \/ focus = "board" /\ BoardNext /\ UNCHANGED <<focus, sessionVars, hearingVars, docVars, formVars>>

deskVars == <<focus, sessionVars, hearingVars, docVars, formVars, boardVars>>
DeskSpec == /\ DeskInit /\ [][DeskNext]_deskVars
            /\ SessionFairness /\ HearingFairness /\ DocFairness /\ PickerFairness /\ BoardFairness

-----------------------------------------------------------------------------
\* Everybody is answered: a call of a page comes to its end although calls and tabs share one
\* refresh that may be lost, and overlapping guesses stay bounded (SessionsHold); a clerk is
\* reminded in spite of failed reminders and crashes; a held bell is released; the courts
\* stop loading; and the button of the costs comes back (api-client.ts:39-154,
\* next-hearing-reminder.job.ts:37-75, tickets.service.ts:3586, intake-wizard.tsx:1478,
\* ticket-board.tsx:1096-1164).
EverybodyIsAnswered ==
    SessionsHold /\ RemindedEventually /\ HeldBellReleased /\ CourtsLoad /\ SubmitButtonReturns
=============================================================================
