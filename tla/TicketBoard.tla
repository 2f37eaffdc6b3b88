----------------------------- MODULE TicketBoard -----------------------------
(***************************************************************************)
(* The ticket board (ticket-board.tsx) as the staff and two                *)
(* representatives use it, each in a browser of their own.  A row is what  *)
(* the last list said, however long ago: its buttons may be those of an    *)
(* earlier state of the ticket, and the server decides again.  The select  *)
(* of a row overrides the status, whatever it is.  A dialog is filled by a *)
(* fetch that may fail or come late, and submitting costs is up to three   *)
(* requests of which any may fail.  A ticket is one in PKR that has pages  *)
(* and a delivery: a page charge, that the server keeps when its field is  *)
(* blank, and a delivery charge.  The dialogs that edit a price belong to  *)
(* Invoicing and WalletLedger.                                             *)
(***************************************************************************)
EXTENDS Integers, FiniteSets

CONSTANTS
    BoardTicket,
    BoardScenes,        \* which buttons a behaviour uses
    PageCharge,         \* page charges that are typed in
    DeliveryCharge,     \* delivery charges that are typed in
    NoTicket,           \* no dialog
    RunLimit,           \* submissions of the costs dialog under way at once
    ReceiptLimit        \* copies of the receipt the server stores

ASSUME BoardAssumption ==
    /\ NoTicket \notin BoardTicket
    /\ PageCharge \cup DeliveryCharge \subseteq Nat \ {0} /\ RunLimit \in Nat
    /\ ReceiptLimit \in Nat \ {0}

VARIABLES
    buttons,            \* the buttons that are used
    site,               \* the tickets of the server
    finalize,           \* the dialog Review & Complete, and its fetch
    costs,              \* the dialog of the costs
    runs,               \* submissions of the costs under way
    submittingCosts     \* the flag that disables the button

boardVars == <<buttons, site, finalize, costs, runs, submittingCosts>>

\* "clerk" is the representative whose dialog of the costs is looked at.
Clerks == {"clerk", "other"}
Staff == {"staff", "super-admin"}
BoardUser == Clerks \cup Staff
BoardStatus == {"UNPAID", "PAID", "ASSIGNED", "IN_PROGRESS", "WAITING_APPROVAL", "COMPLETED",
                "DELIVERED"}
\* active, accepted: the representative of the newest assignment that is ACTIVE and of the
\* newest that is ACCEPTED; final: remainderFinalizedAt; sent: what the last costs the server
\* took were submitted with.  History: overridden.
SiteRow == [status : BoardStatus, approval : {"NONE", "SUBMITTED", "VERIFIED", "REJECTED"},
            active : Clerks \cup {"nobody"}, accepted : Clerks \cup {"nobody"}, final : BOOLEAN,
            overridden : BOOLEAN,
            dispatched : BOOLEAN, paid : BOOLEAN, archived : BOOLEAN, hearing : BOOLEAN,
            pages : {0} \cup PageCharge, delivery : {0} \cup DeliveryCharge, receipts : 0..ReceiptLimit,
            sent : SUBSET {"hearing", "receipt"}]

NewTicket(status, accepted) ==
    [status |-> status, approval |-> "NONE", active |-> "nobody", accepted |-> accepted,
     final |-> FALSE, overridden |-> FALSE, dispatched |-> FALSE, paid |-> FALSE,
     archived |-> FALSE, hearing |-> FALSE, pages |-> 0, delivery |-> 0, receipts |-> 0,
     sent |-> {}]
NoFinalize == [ticket |-> NoTicket, pages |-> 0, delivery |-> 0, loading |-> {}, busy |-> FALSE]
NoCosts == [ticket |-> NoTicket, pages |-> 0, delivery |-> 0, with |-> {}]

-----------------------------------------------------------------------------
\* The actions that are one request each.

\* findAll withholds the charges from a representative, so only the status tells.
hasSubmittedClerkCosts(row) == row.status = "WAITING_APPROVAL"
canUploadForAdminApproval(row) ==
    hasSubmittedClerkCosts(row) /\ row.approval \notin {"SUBMITTED", "VERIFIED"}

\* The buttons of a row, in the tab of its status or in the archive.
clerkActions(row) ==
    CASE row.status = "ASSIGNED" -> {"accept", "reject"}
      [] row.status \in {"IN_PROGRESS", "WAITING_APPROVAL"} ->
           {"document", "costs"} \cup (IF canUploadForAdminApproval(row) THEN {"receipt"} ELSE {})
      [] row.status = "COMPLETED" /\ ~row.dispatched -> {"dispatch"}
      [] OTHER -> {}
staffActions(row) ==
    IF row.archived THEN {"restore"}
    ELSE {"archive", "editCost"}
         \cup (IF row.status # "DELIVERED" THEN {"edit"} ELSE {})
         \cup (CASE row.status \in {"UNPAID", "PAID"} -> {"assign"}
                 [] row.status = "WAITING_APPROVAL" -> {"finalize", "sendBack"}
                 [] row.status = "COMPLETED" ->
                      (IF row.dispatched THEN {"deliver"} ELSE {})
                        \cup (IF row.hearing THEN {"nextHearing"} ELSE {})
                 [] OTHER -> {})
\* The options of the select of a row, which the archive shows too.
overrides(row) == BoardStatus \ {row.status}

\* A representative is listed whatever was ever assigned to them; either may have been.
offered(user, row) ==
    IF user \in Clerks THEN (IF row.archived THEN {} ELSE clerkActions(row))
    ELSE staffActions(row) \cup overrides(row)

\* The representative whom ensureClerkActionAllowed lets act; the staff always may.
holder(t) == IF t.active # "nobody" THEN t.active ELSE t.accepted
mayAct(user, t) == user \in Staff \/ holder(t) = user

\* What TicketsService checks before it acts.
accepts(user, op, t) ==
    CASE op = "accept" -> t.status = "ASSIGNED" /\ t.active = user
      [] op = "reject" -> t.status = "ASSIGNED" /\ mayAct(user, t)
      [] op = "receipt" -> t.status \in {"IN_PROGRESS", "WAITING_APPROVAL"} /\ mayAct(user, t)
      [] op = "costs" ->
           t.status \in {"IN_PROGRESS", "WAITING_APPROVAL"} /\ mayAct(user, t) /\ ~t.final
      [] op = "dispatch" -> t.status = "COMPLETED" /\ ~t.dispatched /\ mayAct(user, t)
      [] op \in {"document", "hearing"} -> mayAct(user, t)
      [] op = "assign" -> t.status \in {"UNPAID", "PAID"}
      [] op \in {"finalize", "sendBack", "complete"} -> t.status = "WAITING_APPROVAL"
      [] op = "deliver" -> t.status = "COMPLETED" /\ t.dispatched /\ t.paid
      [] op = "DELIVERED" -> user = "super-admin" \/ (t.paid /\ t.dispatched)
      [] op = "nextHearing" -> t.hearing
      [] op = "edit" -> t.status # "DELIVERED"
      [] OTHER -> TRUE

\* The ticket after a request that is accepted; an option of the select is a status.
after(user, op, t) ==
    CASE op = "accept"   -> [t EXCEPT !.status = "IN_PROGRESS", !.active = "nobody", !.accepted = user]
      [] op = "reject"   -> [t EXCEPT !.status = "PAID", !.active = "nobody"]
      [] op = "receipt"  -> [t EXCEPT !.status = "WAITING_APPROVAL", !.approval = "SUBMITTED"]
      [] op = "dispatch" -> [t EXCEPT !.dispatched = TRUE]
      [] op = "sendBack" -> [t EXCEPT !.status = "IN_PROGRESS", !.approval = "REJECTED"]
      [] op = "complete" -> [t EXCEPT !.status = "COMPLETED"]
      [] op = "deliver"  -> [t EXCEPT !.status = "DELIVERED"]
      [] op \in BoardStatus -> [t EXCEPT !.status = op, !.overridden = TRUE]
      [] op = "archive"  -> [t EXCEPT !.archived = TRUE]
      [] op = "restore"  -> [t EXCEPT !.archived = FALSE]
      [] op = "hearing"  -> [t EXCEPT !.hearing = TRUE]
      [] OTHER -> t

\* Mutant: a blank field is sent as zero.
pagePair_Zero(typed, kept) == typed
pagePair(typed, kept) == IF typed # 0 THEN typed ELSE kept

withCosts(t, form) == [t EXCEPT !.status = "WAITING_APPROVAL", !.approval = "SUBMITTED",
                                !.pages = pagePair(form.pages, @), !.delivery = form.delivery,
                                !.sent = form.with]

\* One request, of a row that may be old; one that is refused changes nothing.
RowAction(user, op, k) ==
    /\ op # "hearing" => (user \in Clerks <=> op \in {"accept", "reject", "receipt", "dispatch"})
    /\ accepts(user, op, site[k])
    /\ site' = [site EXCEPT ![k] = after(user, op, @)]
    /\ UNCHANGED <<buttons, finalize, costs, runs, submittingCosts>>

\* Assigning supersedes the ACTIVE assignment, if there is one.
Assign(k) ==
    /\ "assign" \in buttons /\ accepts("staff", "assign", site[k])
    /\ \E c \in Clerks : site' = [site EXCEPT ![k].status = "ASSIGNED", ![k].active = c]
    /\ UNCHANGED <<buttons, finalize, costs, runs, submittingCosts>>

\* The figures of the representative in charge, when only the review is looked at.
Figures(k) ==
    \E p \in {0} \cup PageCharge, d \in DeliveryCharge :
        /\ "figures" \in buttons /\ accepts(holder(site[k]), "costs", site[k])
        /\ site' = [site EXCEPT ![k] = withCosts(@, [pages |-> p, delivery |-> d, with |-> {}])]
        /\ UNCHANGED <<buttons, finalize, costs, runs, submittingCosts>>

\* The consumer pays in full.
ConsumerPays(k) ==
    /\ "pay" \in buttons /\ ~site[k].paid
    /\ site' = [site EXCEPT ![k].paid = TRUE,
                            ![k].status = IF @ = "UNPAID" THEN "PAID" ELSE @]
    /\ UNCHANGED <<buttons, finalize, costs, runs, submittingCosts>>

-----------------------------------------------------------------------------
\* Review & Complete.  The form opens with what the row says and is filled by a fetch,
\* whose answer is stored whichever ticket the dialog is then open for.

openFinalizeModal(k) ==
    /\ finalize.ticket = NoTicket /\ "finalize" \in buttons
    /\ \E old \in {0} \cup DeliveryCharge :
         finalize' = [finalize EXCEPT !.ticket = k, !.pages = 0, !.delivery = old,
                                      !.loading = @ \cup {k}]
    /\ UNCHANGED <<buttons, site, costs, runs, submittingCosts>>

DetailAnswered(k) ==
    /\ k \in finalize.loading
    /\ \/ finalize' = [finalize EXCEPT !.loading = @ \ {k}]
       \/ finalize' = [finalize EXCEPT
            !.loading = @ \ {k},
            !.pages = IF site[k].pages # 0 THEN site[k].pages ELSE @,
            !.delivery = IF site[k].delivery # 0 THEN site[k].delivery ELSE @]
    /\ UNCHANGED <<buttons, site, costs, runs, submittingCosts>>

EditFinalize ==
    \E p \in PageCharge, d \in {0} \cup DeliveryCharge :
        /\ finalize.ticket # NoTicket
        /\ finalize' = [finalize EXCEPT !.pages = p, !.delivery = d]
        /\ UNCHANGED <<buttons, site, costs, runs, submittingCosts>>

CancelFinalize ==
    /\ finalize.ticket # NoTicket /\ ~finalize.busy
    /\ finalize' = [NoFinalize EXCEPT !.loading = finalize.loading]
    /\ UNCHANGED <<buttons, site, costs, runs, submittingCosts>>

submitFinalize ==
    /\ finalize.ticket # NoTicket /\ ~finalize.busy
    /\ finalize' = [finalize EXCEPT !.busy = TRUE]
    /\ UNCHANGED <<buttons, site, costs, runs, submittingCosts>>

\* The server completes the ticket, and makes the charges final unless they are, after which
\* more may be owed; or it refuses.  The answer arrives, or the page sees a failure and keeps
\* the dialog open.
Reviewed(t, paid) ==
    [t EXCEPT !.status = "COMPLETED",
              !.approval = IF @ = "SUBMITTED" THEN "VERIFIED" ELSE @,
              !.final = TRUE, !.paid = paid,
              !.pages = IF t.final THEN @ ELSE pagePair(finalize.pages, @),
              !.delivery = IF t.final THEN @ ELSE finalize.delivery]
FinalizeAnswered ==
    LET k == finalize.ticket IN
    /\ finalize.busy
    /\ \E sent, heard, paid \in BOOLEAN :
         LET done == sent /\ accepts("staff", "finalize", site[k]) IN
         /\ (site[k].final => paid = site[k].paid) /\ (paid => site[k].paid)
         /\ site' = IF done THEN [site EXCEPT ![k] = Reviewed(@, paid)] ELSE site
         /\ IF done /\ heard
              THEN finalize' = [NoFinalize EXCEPT !.loading = finalize.loading]
              ELSE finalize' = [finalize EXCEPT !.busy = FALSE]
    /\ UNCHANGED <<buttons, costs, runs, submittingCosts>>

-----------------------------------------------------------------------------
\* The costs: the date of the next hearing, the courier's receipt, then the figures.  A
\* submission works with the values of the click that started it, the flag included.

openCostsModal(k) ==
    \E p \in {0} \cup PageCharge, d \in DeliveryCharge, with \in SUBSET {"hearing", "receipt"} :
        /\ costs.ticket = NoTicket /\ "costs" \in buttons
        /\ costs' = [ticket |-> k, pages |-> p, delivery |-> d, with |-> with]
        /\ UNCHANGED <<buttons, site, finalize, runs, submittingCosts>>

CancelCosts ==
    /\ costs.ticket # NoTicket
    /\ costs' = NoCosts
    /\ UNCHANGED <<buttons, site, finalize, runs, submittingCosts>>

firstStep(with) == IF "hearing" \in with THEN "hearing" ELSE IF "receipt" \in with THEN "receipt"
                   ELSE "costs"

ClickSubmitCosts ==
    /\ costs.ticket # NoTicket /\ ~submittingCosts
    /\ Cardinality(runs) < RunLimit
    /\ \A r \in runs : r.step = "hearing"
    /\ runs' = runs \cup {[form |-> costs, step |-> firstStep(costs.with),
                           n |-> 1 + Cardinality(runs)]}
    /\ submittingCosts' = ("hearing" \notin costs.with)
    /\ UNCHANGED <<buttons, site, finalize, costs>>

RunGoesOn(r, step) ==
    /\ runs' = (runs \ {r}) \cup {[r EXCEPT !.step = step]}
    /\ submittingCosts' = TRUE

\* The flag is cleared on every way out of submitClerkCosts.
RunEnds(r) ==
    /\ runs' = runs \ {r}
    /\ submittingCosts' = (submittingCosts /\ r.step = "hearing")

\* What the server may have done with the date, and with the receipt.
Dated(k) == IF mayAct("clerk", site[k]) THEN {[site EXCEPT ![k].hearing = TRUE]} ELSE {}
Stored(k) == IF mayAct("clerk", site[k])
             THEN {[site EXCEPT ![k].receipts = IF @ < ReceiptLimit THEN @ + 1 ELSE @]} ELSE {}

HearingAnswered(r) ==
    LET k == r.form.ticket IN
    /\ r.step = "hearing"
    /\ \/ /\ site' \in Dated(k)
          /\ costs' = [costs EXCEPT !.with = @ \ {"hearing"}]
          /\ RunGoesOn(r, firstStep(r.form.with \ {"hearing"}))
       \/ /\ site' \in {site} \cup Dated(k)
          /\ RunEnds(r) /\ UNCHANGED costs
    /\ UNCHANGED <<buttons, finalize>>

ReceiptAnswered(r) ==
    /\ r.step = "receipt"
    /\ \/ site' \in Stored(r.form.ticket) /\ RunGoesOn(r, "costs")
       \/ site' \in {site} \cup Stored(r.form.ticket) /\ RunEnds(r)
    /\ UNCHANGED <<buttons, finalize, costs>>

CostsAnswered(r) ==
    LET k == r.form.ticket IN
    /\ r.step = "costs"
    /\ \E sent, heard \in BOOLEAN :
         LET done == sent /\ accepts("clerk", "costs", site[k]) IN
         /\ site' = IF ~done THEN site
                    ELSE [site EXCEPT ![k] = withCosts(@, r.form)]
         /\ IF done /\ heard
              THEN costs' = NoCosts ELSE UNCHANGED costs
    /\ RunEnds(r)
    /\ UNCHANGED <<buttons, finalize>>

-----------------------------------------------------------------------------
BoardInit ==
    /\ buttons \in BoardScenes
    /\ \/ site = [k \in BoardTicket |-> NewTicket("UNPAID", "nobody")]
       \/ \E c \in Clerks : site = [k \in BoardTicket |-> NewTicket("IN_PROGRESS", c)]
    /\ finalize = NoFinalize /\ costs = NoCosts
    /\ runs = {} /\ submittingCosts = FALSE

RunStep(r) == HearingAnswered(r) \/ ReceiptAnswered(r) \/ CostsAnswered(r)

BoardNext ==
    \/ \E user \in BoardUser, op \in buttons \ {"assign", "finalize", "costs", "figures", "pay"},
          k \in BoardTicket : RowAction(user, op, k)
    \/ \E k \in BoardTicket :
         \/ Assign(k) \/ Figures(k) \/ ConsumerPays(k)
         \/ openFinalizeModal(k) \/ DetailAnswered(k) \/ openCostsModal(k)
    \/ EditFinalize \/ CancelFinalize \/ submitFinalize \/ FinalizeAnswered
    \/ CancelCosts \/ ClickSubmitCosts
    \/ \E r \in runs : RunStep(r)

\* Every request is answered, or fails.
BoardFairness == WF_boardVars(\E r \in runs : RunStep(r)) /\ WF_boardVars(FinalizeAnswered)
BoardSpec == BoardInit /\ [][BoardNext]_boardVars /\ BoardFairness

-----------------------------------------------------------------------------
\* What a board offers on a fresh row the server accepts, of everybody's buttons and of the
\* select: the two conditions were written apart, and the ticket went through any requests of
\* stale rows, of both dialogs and of overrides before.  Refused are only (a) a delivery, by
\* its button or the select, for want of the payment or the dispatch they do not look at;
\* (b) a representative to whom the ticket was assigned once and is not any more; and on a
\* ticket that was overridden (c) the update of costs that are final already, and (d) the
\* acceptance of an assignment that is not there or was answered (README, Disagreements).
\* ticket-board.tsx:1721-1935.
OfferedIsAccepted ==
    \A user \in BoardUser, k \in BoardTicket :
        \A op \in offered(user, site[k]) :
            \/ accepts(user, op, site[k])
            \/ op = "deliver" /\ ~site[k].paid
            \/ op = "DELIVERED" /\ user = "staff" /\ ~(site[k].paid /\ site[k].dispatched)
            \/ user \in Clerks /\ holder(site[k]) # user
            \/ /\ site[k].overridden
               /\ \/ op = "costs" /\ site[k].final
                  \/ op = "accept" /\ site[k].active = "nobody"

\* The figures are on the ticket only with what was to be sent before them: the upload of
\* the receipt and the date, of the same click or an earlier one.  ticket-board.tsx:1121:
\* "Abort the whole submit on upload failure".
CostsComplete ==
    \A k \in BoardTicket :
        /\ "receipt" \in site[k].sent => site[k].receipts > 0
        /\ "hearing" \in site[k].sent => site[k].hearing

\* Completing a ticket never zeroes its page charge, although the fetch that fills the
\* form failed or has not come back ("a failed prefill must never silently zero charges",
\* ticket-board.tsx:501).
PagesNeverZeroed ==
    [][\A k \in BoardTicket : site[k].pages # 0 => site'[k].pages # 0]_boardVars

\* The button of the costs comes back, whichever of the three requests fails.
\* ticket-board.tsx:1096-1164.
SubmitButtonReturns == submittingCosts ~> ~submittingCosts

\* The board works: what it offers is accepted, the three requests of the costs leave no
\* figures without their receipt and date, and a failed prefill zeroes nothing
\* (ticket-board.tsx:424-1935).
BoardIsReliable ==
    /\ [](site \in [BoardTicket -> SiteRow])
    /\ []OfferedIsAccepted /\ []CostsComplete /\ PagesNeverZeroed
=============================================================================
