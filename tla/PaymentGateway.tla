--------------------------- MODULE PaymentGateway ---------------------------
(***************************************************************************)
(* Hosted-checkout payments of one ticket (PaymentsService).               *)
(*                                                                         *)
(* initiate() is not a transaction: it reads the ticket, cancels the live  *)
(* payments, opens a session at the gateway and inserts the Payment row in *)
(* four steps of their own.  The gateway reports the outcome of a session  *)
(* by a webhook that may be delivered late, more than once and in any      *)
(* order.  The wallet pays the same ticket meanwhile.                      *)
(***************************************************************************)
EXTENDS Integers, FiniteSets, Functions

CONSTANTS
    Payment,        \* identities of Payment rows and of their sessions
    Request,        \* requests served at the same time
    Amount,         \* amounts the wallet pays and the gateway reports
    Services,       \* values of Ticket.serviceCost (above Total: a discount)
    Total,          \* Ticket.totalAmount
    NULL            \* no payment

ASSUME GatewayAssumption ==
    /\ Amount \subseteq Nat \ {0}
    /\ Services \subseteq Nat
    /\ Total \in Nat
    /\ NULL \notin Payment
    /\ IsFiniteSet(Payment)

VARIABLES
    ticket,         \* the Ticket row: status, serviceCost, amountPaid, archivedAt
    wallet,         \* sum of the ticket's wallet debits
    payment,        \* the Payment rows
    session,        \* what the consumer did with each session at the gateway
    req             \* what every request is doing

vars == <<ticket, wallet, payment, session, req>>

TicketRow == [status : {"UNPAID", "PAID"}, service : Nat, paid : Nat,
              archived : BOOLEAN]

PaymentRow == [status : {"NONE", "INITIATED", "SUCCESS", "FAILED", "CANCELLED"},
               amount : Nat]

Outcome == {"SUCCESS", "FAILED", "CANCELLED"}

Pc == {"idle", "cancel", "session", "create", "flip"}

RequestRow == [pc : Pc, pay : Payment \cup {NULL}, amount : Nat]

Idle == [pc |-> "idle", pay |-> NULL, amount |-> 0]

Init ==
    /\ ticket \in {[status |-> "UNPAID", service |-> c, paid |-> 0,
                    archived |-> FALSE] : c \in Services}
    /\ wallet = 0
    /\ payment = [p \in Payment |-> [status |-> "NONE", amount |-> 0]]
    /\ session = [p \in Payment |-> "NONE"]
    /\ req = [r \in Request |-> Idle]

Goto(r, q) == req' = [req EXCEPT ![r] = q]

-----------------------------------------------------------------------------
\* The ticket after a receives: PAID once the base is covered.
received(a) ==
    [ticket EXCEPT !.paid = ticket.paid + a,
                   !.status = IF ticket.paid + a >= ticket.service THEN "PAID"
                              ELSE ticket.status]

\* initiate: the unlocked read, and the amount the session will ask for.
Initiate(r) ==
    /\ req[r].pc = "idle"
    /\ ~ticket.archived
    /\ ticket.status = "UNPAID"
    /\ Total - ticket.paid > 0
    /\ Goto(r, [Idle EXCEPT !.pc = "cancel", !.amount = Total - ticket.paid])
    /\ UNCHANGED <<ticket, wallet, payment, session>>

\* Mutant: superseding also rewrites payments that already completed.
CancelLive_All(r) ==
    /\ req[r].pc = "cancel"
    /\ payment' = [p \in Payment |->
                     IF payment[p].status = "NONE" THEN payment[p]
                     ELSE [payment[p] EXCEPT !.status = "CANCELLED"]]
    /\ Goto(r, [req[r] EXCEPT !.pc = "session"])
    /\ UNCHANGED <<ticket, wallet, session>>

\* The live payments of the ticket are superseded.
CancelLive(r) ==
    /\ req[r].pc = "cancel"
    /\ payment' = [p \in Payment |->
                     IF payment[p].status = "INITIATED"
                     THEN [payment[p] EXCEPT !.status = "CANCELLED"]
                     ELSE payment[p]]
    /\ Goto(r, [req[r] EXCEPT !.pc = "session"])
    /\ UNCHANGED <<ticket, wallet, session>>

\* The gateway opens a session under a transaction id of its own.
OpenSession(r, p) ==
    /\ req[r].pc = "session"
    /\ payment[p].status = "NONE"
    /\ \A o \in Request : req[o].pay # p
    /\ Goto(r, [req[r] EXCEPT !.pc = "create", !.pay = p])
    /\ UNCHANGED <<ticket, wallet, payment, session>>

\* The provider refuses or is out of reach: the request ends, the payments it
\* superseded stay cancelled.
SessionFails(r) ==
    /\ req[r].pc = "session"
    /\ Goto(r, Idle)
    /\ UNCHANGED <<ticket, wallet, payment, session>>

\* The row is inserted and the consumer is sent to the session.
CreatePayment(r) ==
    /\ req[r].pc = "create"
    /\ payment' = [payment EXCEPT ![req[r].pay] =
                     [status |-> "INITIATED", amount |-> req[r].amount]]
    /\ Goto(r, Idle)
    /\ UNCHANGED <<ticket, wallet, session>>

-----------------------------------------------------------------------------
\* The consumer completes, fails or leaves a session, whatever its row says.
Checkout(p, o) ==
    /\ payment[p].status # "NONE"
    /\ session[p] = "NONE"
    /\ session' = [session EXCEPT ![p] = o]
    /\ UNCHANGED <<ticket, wallet, payment, req>>

\* Mutant: the webhook is acted on whatever amount it reports.
WebhookSuccess_AnyAmount(r, p, a) ==
    /\ req[r].pc = "idle"
    /\ session[p] = "SUCCESS"
    /\ payment[p].status = "INITIATED"
    /\ Goto(r, [pc |-> "flip", pay |-> p, amount |-> a])
    /\ UNCHANGED <<ticket, wallet, payment, session>>

\* handleWebhook, SUCCESS: the unlocked read.  A row that is not live is
\* acknowledged without effect, an amount that differs is refused.
WebhookSuccess(r, p, a) ==
    /\ req[r].pc = "idle"
    /\ session[p] = "SUCCESS"
    /\ payment[p].status = "INITIATED"
    /\ a = payment[p].amount
    /\ Goto(r, [pc |-> "flip", pay |-> p, amount |-> a])
    /\ UNCHANGED <<ticket, wallet, payment, session>>

\* Mutant: the credit does not depend on the flip.
FlipAndCredit_Always(r) ==
    /\ req[r].pc = "flip"
    /\ payment' = [payment EXCEPT ![req[r].pay].status = "SUCCESS"]
    /\ ticket' = received(req[r].amount)
    /\ Goto(r, Idle)
    /\ UNCHANGED <<wallet, session>>

\* The transaction, under the ticket's lock: the conditional flip decides
\* whether the ticket is credited.
FlipAndCredit(r) ==
    LET p == req[r].pay
    IN  /\ req[r].pc = "flip"
        /\ IF payment[p].status = "INITIATED"
           THEN /\ payment' = [payment EXCEPT ![p].status = "SUCCESS"]
                /\ ticket' = received(req[r].amount)
           ELSE UNCHANGED <<payment, ticket>>
        /\ Goto(r, Idle)
        /\ UNCHANGED <<wallet, session>>

\* handleWebhook, any other outcome: a conditional update.
WebhookFailure(p) ==
    /\ session[p] \in {"FAILED", "CANCELLED"}
    /\ payment[p].status = "INITIATED"
    /\ payment' = [payment EXCEPT ![p].status = session[p]]
    /\ UNCHANGED <<ticket, wallet, session, req>>

-----------------------------------------------------------------------------
\* The rest of the system: the wallet pays some of what is left, under the
\* ticket's lock (settlement, even of a ticket archived meanwhile), and the
\* ticket is archived and restored.
WalletPays(a) ==
    /\ a <= Total - ticket.paid
    /\ ticket' = received(a)
    /\ wallet' = wallet + a
    /\ UNCHANGED <<payment, session, req>>

BulkAction ==
    /\ ticket' = [ticket EXCEPT !.archived = ~ticket.archived]
    /\ UNCHANGED <<wallet, payment, session, req>>

Next ==
    \/ \E r \in Request : Initiate(r)
    \/ \E r \in Request : CancelLive(r)
    \/ \E r \in Request, p \in Payment : OpenSession(r, p)
    \/ \E r \in Request : SessionFails(r)
    \/ \E r \in Request : CreatePayment(r)
    \/ \E p \in Payment, o \in Outcome : Checkout(p, o)
    \/ \E r \in Request, p \in Payment, a \in Amount : WebhookSuccess(r, p, a)
    \/ \E r \in Request : FlipAndCredit(r)
    \/ \E p \in Payment : WebhookFailure(p)
    \/ \E a \in Amount : WalletPays(a)
    \/ BulkAction

Spec == Init /\ [][Next]_vars

-----------------------------------------------------------------------------
\* Properties.

\* Every row and every request's locals have their type.
TypeOK ==
    /\ ticket \in TicketRow
    /\ wallet \in Nat
    /\ payment \in [Payment -> PaymentRow]
    /\ session \in [Payment -> Outcome \cup {"NONE"}]
    /\ req \in [Request -> RequestRow]

\* The ticket has received exactly its wallet debits and one amount for each
\* successful payment: no webhook, however often and late it is delivered,
\* credits twice or erases what the wallet paid.
CreditedOnce ==
    ticket.paid = wallet + SumFunctionOnSet([p \in Payment |-> payment[p].amount],
                             {p \in Payment : payment[p].status = "SUCCESS"})

\* A payment that ended keeps its outcome: a superseded or failed payment is
\* never completed by a late webhook, a completed one never cancelled by a
\* later initiate.
OutcomeIsFinal ==
    [][\A p \in Payment : payment[p].status \in Outcome => payment'[p] = payment[p]]_vars

\* What a webhook's transaction will credit is what its session was opened for,
\* and the consumer completed that session.
FlipIsForItsSession ==
    \A r \in Request : req[r].pc = "flip" =>
        /\ session[req[r].pay] = "SUCCESS"
        /\ payment[req[r].pay].status # "NONE"
        /\ req[r].amount = payment[req[r].pay].amount

\* A consumer is never charged for what the wallet has already covered.
NoDoubleCharge == ticket.paid <= Total
=============================================================================
