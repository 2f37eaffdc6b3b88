----------------------------- MODULE Invoicing -----------------------------
(***************************************************************************)
(* Invoices (InvoicesService.generate, invoice-lines.ts) and the ones that *)
(* the completion of a ticket issues (TicketsService.autoIssueInvoice).    *)
(* generate reads the tickets and writes the invoice in one READ COMMITTED *)
(* transaction without locks, so tickets move between the read and the     *)
(* commit; the unique key InvoiceItem.ticketId is the last guard.  Whoever *)
(* writes the columns an invoice is made of is here: the representative's  *)
(* costs and drafts, the finalization, and the edits of the finance desk,  *)
(* which read the ticket first and write it later without a condition.     *)
(***************************************************************************)
EXTENDS Integers, Sequences, FiniteSets, Functions

CONSTANTS
    Bill,           \* tickets
    BillKinds,      \* what a ticket may look like when it is opened
    Proposal,       \* phase-2 charges a clerk may submit, or an admin approve
    InvoiceReq,     \* calls of generate, and edits of a price, that overlap
    InvoiceLimit,   \* how many invoice numbers are drawn
    BillScenes      \* of a behaviour: tickets that move, what else happens, invoices drawn

ASSUME InvoiceAssumption ==
    /\ Proposal \subseteq Nat /\ InvoiceLimit \in Nat /\ IsFiniteSet(Bill)
    /\ \A kind \in BillKinds : /\ kind.service \in Nat /\ kind.discount \in Nat
                              /\ kind.taxRate \in Nat /\ kind.consumer \in {"a", "b"}
                              /\ kind.currency \in {"PKR", "USD"}
    /\ \A s \in BillScenes : s.bills \subseteq Bill /\ s.invoices \in 0..InvoiceLimit

VARIABLES bill, invoice, invoiceReq, invoiceSeq, billScene

invoiceVars == <<bill, invoice, invoiceReq, invoiceSeq, billScene>>

\* IN_PROGRESS stands for the statuses before it too.
BillStatus == {"IN_PROGRESS", "WAITING_APPROVAL", "COMPLETED", "DELIVERED"}

\* service is serviceCost + additionalServiceCost; phase2 the five clerk columns.
\* History: approved is the phase-2 amount an administrator wrote last, loose that
\* it was changed since by somebody who was not typing a charge as administrator.
BillRow == [service : Nat, discount : Nat, taxRate : Nat, consumer : {"a", "b"},
            currency : {"PKR", "USD"}, phase2 : Nat, remainderFinalizedAt : BOOLEAN,
            status : BillStatus, archived : BOOLEAN, approved : Nat, loose : BOOLEAN]
OpenBill(kind) ==
    [service |-> kind.service, discount |-> kind.discount, taxRate |-> kind.taxRate,
     consumer |-> kind.consumer, currency |-> kind.currency, phase2 |-> 0,
     remainderFinalizedAt |-> FALSE, status |-> "IN_PROGRESS", archived |-> FALSE,
     approved |-> 0, loose |-> FALSE]

IdleInvoiceReq == [pc |-> "idle", ids |-> {}, rows |-> <<>>, typed |-> FALSE]

InvoicingInit ==
    /\ billScene \in BillScenes
    /\ \E kind \in [Bill -> BillKinds] : bill = [t \in Bill |-> OpenBill(kind[t])]
    /\ invoice = {}
    /\ invoiceReq = [r \in InvoiceReq |-> IdleInvoiceReq]
    /\ invoiceSeq = 0

invoiced == UNION {inv.tickets : inv \in invoice}

-----------------------------------------------------------------------------
\* The money of an invoice over the rows that were read.
NonNeg(n) == IF n < 0 THEN 0 ELSE n
Least(m, n) == IF m < n THEN m ELSE n

\* Phase-2 columns count only once the remainder is final.
phase2(row) == IF row.remainderFinalizedAt THEN row.phase2 ELSE 0

lineTotal(row) == row.service + phase2(row)

\* Mutant: a discount is taken in full although its ticket's line is smaller.
clampedDiscount_Raw(row) == row.discount
\* Each discount is clamped to the line of its own ticket before they are added.
clampedDiscount(row) == Least(row.discount, lineTotal(row))

invoiceRate(rows) == LET t == CHOOSE t \in DOMAIN rows : TRUE
                     IN  IF rows[t].currency = "USD" THEN 0 ELSE rows[t].taxRate

\* summariseInvoice: tax on the service base less the discount.
summariseInvoice(rows) ==
    LET ids == DOMAIN rows
        subtotal == SumFunctionOnSet([t \in ids |-> lineTotal(rows[t])], ids)
        discount == SumFunctionOnSet([t \in ids |-> clampedDiscount(rows[t])], ids)
        service == SumFunctionOnSet([t \in ids |-> rows[t].service], ids)
        tax == NonNeg(service - discount) * invoiceRate(rows)
    IN  [subtotal |-> subtotal, discount |-> discount, taxAmount |-> tax,
         grandTotal |-> NonNeg(subtotal - discount) + tax]

-----------------------------------------------------------------------------
\* The guards of generate, on the rows of its one read.
mayInvoice(ids) ==
    /\ ids # {}
    /\ \A t \in ids : ~bill[t].archived /\ bill[t].status # "WAITING_APPROVAL"
    /\ \A t, u \in ids : /\ bill[t].consumer = bill[u].consumer
                         /\ bill[t].currency = bill[u].currency
                         /\ bill[t].currency = "USD" \/ bill[t].taxRate = bill[u].taxRate
    /\ ids \cap invoiced = {}

GenerateRead(r, ids) ==
    /\ mayInvoice(ids)
    /\ invoiceSeq < billScene.invoices
    /\ invoiceReq' = [invoiceReq EXCEPT ![r] =
                        [IdleInvoiceReq EXCEPT !.pc = "commit", !.ids = ids,
                                               !.rows = [t \in ids |-> bill[t]]]]
    /\ UNCHANGED <<bill, invoice, invoiceSeq, billScene>>

\* A clerk of the office selects tickets.
Generate(r) ==
    invoiceReq[r] = IdleInvoiceReq /\ \E ids \in SUBSET billScene.bills : GenerateRead(r, ids)

\* autoIssueInvoice looks at the ticket again before it calls generate.
AutoIssueInvoice(r) ==
    /\ invoiceReq[r].pc = "auto"
    /\ LET ids == invoiceReq[r].ids IN
       IF \A t \in ids : /\ bill[t].status \in {"COMPLETED", "DELIVERED"}
                         /\ ~bill[t].archived /\ t \notin invoiced
         THEN GenerateRead(r, ids)
         ELSE /\ invoiceReq' = [invoiceReq EXCEPT ![r] = IdleInvoiceReq]
              /\ UNCHANGED <<bill, invoice, invoiceSeq, billScene>>

uniqueTicketId(ids) == ids \cap invoiced = {}

\* nextval, the insert and the commit; a number drawn by a transaction that fails is
\* not given back, and P2002 becomes a 409.
GenerateCommit(r) ==
    LET q == invoiceReq[r] IN
    /\ q.pc = "commit"
    /\ invoiceSeq < billScene.invoices
    /\ invoiceSeq' = invoiceSeq + 1
    /\ invoice' = IF uniqueTicketId(q.ids)
                    THEN invoice \cup {[invoiceNo |-> invoiceSeq + 1, tickets |-> q.ids,
                                        rows |-> q.rows, total |-> summariseInvoice(q.rows)]}
                    ELSE invoice
    /\ invoiceReq' = [invoiceReq EXCEPT ![r] = IdleInvoiceReq]
    /\ UNCHANGED <<bill, billScene>>

InvoiceReqDies(r) ==
    /\ invoiceReq[r] # IdleInvoiceReq
    /\ invoiceReq' = [invoiceReq EXCEPT ![r] = IdleInvoiceReq]
    /\ UNCHANGED <<bill, invoice, invoiceSeq, billScene>>

-----------------------------------------------------------------------------
\* What happens to the ticket meanwhile (TicketWorkflow).

\* The phase-2 columns after an administrator has typed them, and after a write that
\* asks no administrator.
Approved(row, p) == [row EXCEPT !.phase2 = p, !.approved = p, !.loose = FALSE]
Rewritten(row, p) == [row EXCEPT !.phase2 = p, !.loose = row.loose \/ p # row.phase2]

Moves(t, row) ==
    /\ t \in billScene.bills
    /\ bill' = [bill EXCEPT ![t] = row]
    /\ UNCHANGED <<invoice, invoiceSeq, billScene>>
InScene(op) == op \in billScene.ops

\* A charge that is not typed keeps what the column holds.
Typed(t) == Proposal \cup {bill[t].phase2}

\* Mutant: nothing closes the submission once the charges are final.
SubmitCosts_Late(t) ==
    /\ bill[t].status \in {"IN_PROGRESS", "WAITING_APPROVAL"}
    /\ \E p \in Typed(t) :
         Moves(t, [bill[t] EXCEPT !.status = "WAITING_APPROVAL", !.phase2 = p])
    /\ UNCHANGED invoiceReq

\* submitClerkCosts, also again while it waits; closed once the charges are final,
\* which the update itself checks.
SubmitCosts(t) ==
    /\ bill[t].status \in {"IN_PROGRESS", "WAITING_APPROVAL"}
    /\ ~bill[t].remainderFinalizedAt
    /\ \E p \in Typed(t) :
         Moves(t, [bill[t] EXCEPT !.status = "WAITING_APPROVAL", !.phase2 = p])
    /\ UNCHANGED invoiceReq

\* The flow and the currency have phase-2 charges.
hasCaps(row) == row.currency = "PKR"

\* saveClerkCharges looks at neither the status nor remainderFinalizedAt.
SaveClerkCharges(t) ==
    /\ InScene("draft") /\ hasCaps(bill[t])
    /\ \E p \in Proposal : Moves(t, Rewritten(bill[t], p))
    /\ UNCHANGED invoiceReq

SendBack(t) ==
    /\ bill[t].status = "WAITING_APPROVAL"
    /\ Moves(t, [bill[t] EXCEPT !.status = "IN_PROGRESS"])
    /\ UNCHANGED invoiceReq

Finalized(row, p) == [Approved(row, p) EXCEPT !.remainderFinalizedAt = TRUE]

\* The standalone finalizeRemainder issues no invoice; that it wants the ticket not
\* dispatched is left out.
FinalizeRemainder(t) ==
    /\ InScene("status")
    /\ bill[t].status \in {"WAITING_APPROVAL", "COMPLETED"}
    /\ ~bill[t].remainderFinalizedAt
    /\ \E p \in Typed(t) : Moves(t, Finalized(bill[t], p))
    /\ UNCHANGED invoiceReq

\* reviewAndComplete finalizes unless that was done or there is nothing to finalize,
\* and then issues the invoice; what has no delivery and is paid is delivered at once.
ReviewAndComplete(t, r) ==
    /\ bill[t].status = "WAITING_APPROVAL"
    /\ invoiceReq[r] = IdleInvoiceReq
    /\ \E p \in Typed(t), s \in {"COMPLETED", "DELIVERED"} :
         LET final == hasCaps(bill[t]) /\ ~bill[t].remainderFinalizedAt
             row == IF final THEN Finalized(bill[t], p) ELSE bill[t]
         IN  /\ hasCaps(bill[t]) => s = "COMPLETED"
             /\ Moves(t, [row EXCEPT !.status = s])
    /\ invoiceReq' = [invoiceReq EXCEPT ![r] = [IdleInvoiceReq EXCEPT !.pc = "auto", !.ids = {t}]]

\* updateStatus, alone or in bulk, and overrideStatus, which skips the order: neither
\* finalizes, neither issues an invoice.
STATUS_TRANSITIONS(s) == CASE s = "IN_PROGRESS" -> {"WAITING_APPROVAL"}
                           [] s = "WAITING_APPROVAL" -> {"COMPLETED", "IN_PROGRESS"}
                           [] s = "COMPLETED" -> {"DELIVERED"}
                           [] OTHER -> {}
MoveStatus(t) ==
    /\ InScene("status")
    /\ \E s \in STATUS_TRANSITIONS(bill[t].status) \cup (IF InScene("override") THEN BillStatus ELSE {}) :
         Moves(t, [bill[t] EXCEPT !.status = s])
    /\ UNCHANGED invoiceReq

ArchiveBill(t) ==
    /\ InScene("archive")
    /\ Moves(t, [bill[t] EXCEPT !.archived = ~bill[t].archived])
    /\ UNCHANGED invoiceReq

\* An edit reads the ticket without a lock and works out the columns it will write: a
\* price, and a phase-2 charge that is typed or what it read.
Columns(price, p) == [service |-> price.service, discount |-> price.discount,
                      taxRate |-> price.taxRate, phase2 |-> p]
EditRead(t, r, kind, cols, typed) ==
    /\ InScene("edit") /\ t \in billScene.bills
    /\ invoiceReq[r] = IdleInvoiceReq
    /\ invoiceReq' = [invoiceReq EXCEPT ![r] = [pc |-> kind, ids |-> {t},
                                                rows |-> [b \in {t} |-> cols], typed |-> typed]]
    /\ UNCHANGED <<bill, invoice, invoiceSeq, billScene>>

Prices(t) == {kind \in BillKinds : kind.currency = bill[t].currency}

\* updateCharge refuses a discount above the charges it has put together.
UpdateCharge(t, r) ==
    \E price \in Prices(t) \cup {bill[t]}, p \in Typed(t), typed \in BOOLEAN :
        /\ ~typed => p = bill[t].phase2
        /\ price.discount <= price.service + p
        /\ EditRead(t, r, "charge", Columns(price, p), typed)

\* repriceTicket resolves the price anew and takes the tax rate of today; a delivered
\* ticket is refused, and a price in USD has no charges on top.
RepriceTicket(t, r) ==
    /\ bill[t].status # "DELIVERED"
    /\ \E price \in Prices(t), p \in Typed(t), typed \in BOOLEAN :
         IF hasCaps(bill[t])
         THEN (~typed => p = bill[t].phase2) /\ EditRead(t, r, "reprice", Columns(price, p), typed)
         ELSE EditRead(t, r, "reprice", Columns(price, 0), TRUE)

\* The write of an edit repeats none of its checks; only a reprice has a tax rate.
EditWrite(r) ==
    /\ invoiceReq[r].pc \in {"charge", "reprice"}
    /\ \E t \in invoiceReq[r].ids :
         LET q == invoiceReq[r]
             new == q.rows[t]
             row == IF q.typed THEN Approved(bill[t], new.phase2)
                               ELSE Rewritten(bill[t], new.phase2)
         IN  Moves(t, [row EXCEPT !.service = new.service, !.discount = new.discount,
                                  !.taxRate = IF q.pc = "reprice" THEN new.taxRate
                                                                  ELSE row.taxRate])
    /\ invoiceReq' = [invoiceReq EXCEPT ![r] = IdleInvoiceReq]

InvoicingNext ==
    \/ \E r \in InvoiceReq :
         \/ Generate(r) \/ AutoIssueInvoice(r) \/ GenerateCommit(r) \/ InvoiceReqDies(r)
         \/ EditWrite(r)
         \/ \E t \in Bill : ReviewAndComplete(t, r) \/ UpdateCharge(t, r) \/ RepriceTicket(t, r)
    \/ \E t \in Bill :
         \/ SubmitCosts(t) \/ SaveClerkCharges(t) \/ SendBack(t) \/ FinalizeRemainder(t)
         \/ MoveStatus(t) \/ ArchiveBill(t)

InvoicingSpec == InvoicingInit /\ [][InvoicingNext]_invoiceVars

-----------------------------------------------------------------------------
\* Properties.

\* Type correctness of the tickets, the calls and the issued totals.
InvoicingTypeOK ==
    /\ bill \in [Bill -> BillRow]
    /\ invoiceSeq \in 0..InvoiceLimit
    /\ billScene \in BillScenes
    /\ \A r \in InvoiceReq : invoiceReq[r].pc \in {"idle", "auto", "commit", "charge", "reprice"}
                             /\ invoiceReq[r].ids \subseteq Bill
    /\ \A inv \in invoice : /\ inv.invoiceNo \in 1..invoiceSeq /\ inv.tickets \subseteq Bill
                            /\ inv.total \in [subtotal : Nat, discount : Nat, taxAmount : Nat,
                                              grandTotal : Nat]

\* A ticket is on at most one invoice and no two invoices share a number, although two
\* calls of generate, or one and a completion, pass the guards with the same ticket.
OnOneInvoice ==
    \A inv, other \in invoice : inv # other =>
        inv.tickets \cap other.tickets = {} /\ inv.invoiceNo # other.invoiceNo

\* A proposal of the representative is never billed: the phase-2 amount on an invoice
\* is nothing or what an administrator wrote last, however the ticket is resubmitted,
\* sent back, completed or overridden between generate's read and its commit.  There are
\* two exceptions, both writes to a ticket whose charges are final (README,
\* Disagreements): a draft of the representative, and an edit that brings back what it
\* read before somebody else wrote.
ProposalNeverBilled ==
    \A inv \in invoice : \A t \in inv.tickets :
        phase2(inv.rows[t]) \in {0, inv.rows[t].approved} \/ inv.rows[t].loose

\* A discount larger than its ticket's line costs the other tickets of the invoice
\* nothing: subtotal less discount is the sum of what each ticket is worth by itself.
NetIsSumOfNets ==
    \A inv \in invoice :
        inv.total.subtotal - inv.total.discount =
            SumFunctionOnSet([t \in inv.tickets |->
                                NonNeg(lineTotal(inv.rows[t]) - inv.rows[t].discount)], inv.tickets)

\* "one ticket's excess discount ... can never erode another ticket's contribution to
\* subtotal/grandTotal": an invoice totals what invoices of the single tickets would.
\* The code does not keep it (README, Disagreements).
NoErosion ==
    \A inv \in invoice :
        inv.total.grandTotal =
            SumFunctionOnSet([t \in inv.tickets |->
                summariseInvoice([u \in {t} |-> inv.rows[t]]).grandTotal], inv.tickets)

\* An invoice is sound: it shares no ticket and no number with another, bills no proposal
\* but in the two cases above, and its discounts stay within their own lines, however
\* generate, the automatic issue, completions, send-backs, overrides and edits interleave
\* (invoices.service.ts:92-260).
InvoicesAreSound ==
    InvoicingTypeOK /\ OnOneInvoice /\ ProposalNeverBilled /\ NetIsSumOfNets
=============================================================================
