------------------------------ MODULE PayPage -------------------------------
(***************************************************************************)
(* A consumer pays for a ticket: the card that offers it, the page that    *)
(* asks for an amount, and what the server makes of the amount.  The page  *)
(* works on the ticket as it was when it was loaded; the wallet's credit   *)
(* arrives later; staff verify claims and finalize the ticket meanwhile.   *)
(* A claim is two requests, and the answer of either may be lost.  Amounts *)
(* are hundredths of the ticket's currency, or of a rupee, and rates are   *)
(* rupees for a hundred dollars: round2 rounds to a whole number.          *)
(***************************************************************************)
EXTENDS Integers

CONSTANTS
    PayKinds,       \* the tickets: [model, currency, service, total, rate], rate 0 if none
    PayMethods,     \* the methods the settings may name, in the order of the page
    TypedAmounts,   \* what the consumer may type
    FinalCharges,   \* what the review may add to the total of a SPLIT ticket
    Credits,        \* the wallet at the start
    ClaimLimit      \* claims of a behaviour

PKR_RAILS == {"JAZZ_CASH", "EASY_PAISA"}

ASSUME PayAssumption ==
    /\ PayKinds \subseteq [model : {"SPLIT", "ONE_TIME"}, currency : {"PKR", "USD"},
                           service : Nat, total : Nat, rate : Nat]
    /\ \A k \in PayKinds : k.currency = "USD" => k.model = "ONE_TIME"
    /\ \A k \in PayKinds : k.rate = 0 \/ k.rate >= 100
    \* At intake the total of a SPLIT ticket is its base, discounted and taxed.
    /\ \A k \in PayKinds : k.model = "SPLIT" /\ k.total > 0 => k.service > 0
    /\ PayMethods \subseteq {"BANK_TRANSFER"} \cup PKR_RAILS
    /\ TypedAmounts \subseteq Nat /\ FinalCharges \subseteq Nat /\ Credits \subseteq Nat
    /\ ClaimLimit \in Nat

VARIABLES
    order,      \* the ticket
    credit,     \* walletBalance
    page,       \* the page or the dialog that is open
    claims,     \* payments that wait for verification
    made,       \* how many claims there were
    settling    \* a finalization has yet to settle the consumer's tickets

payVars == <<order, credit, page, claims, made, settling>>

isPkrRail(method) == method \in PKR_RAILS
Lesser(a, b) == IF a < b THEN a ELSE b
Floor0(n) == IF n > 0 THEN n ELSE 0

\* round2 of n / d, for n >= 0 and d > 0: half up.
Round(n, d) == (2 * n + d) \div (2 * d)

\* What is owed now: of a SPLIT ticket the base, until the remainder is finalized.
dueNow(t) == IF t.model = "SPLIT" /\ ~t.finalized THEN t.service - t.paid ELSE t.total - t.paid
computeDueNow(t) == Floor0(dueNow(t))
computeFullUpfrontAmount(t) == IF t.model = "SPLIT" THEN Floor0(t.total - t.paid) ELSE 0
fullyPaid(t) == t.total > 0 /\ t.paid >= t.total

-----------------------------------------------------------------------------
\* The page.

fxRateMissing(t, method) == t.currency = "USD" /\ isPkrRail(method) /\ t.rate = 0

computeAmountField(t, method) ==
    IF t.currency = "USD" /\ isPkrRail(method)
      THEN IF t.rate = 0 THEN 0 ELSE Round(computeDueNow(t) * t.rate, 100)
      ELSE computeDueNow(t)

Closed == [form |-> "closed"]
OpenForm(form, row, method) ==
    [form |-> form, row |-> row, method |-> method, credit |-> 0, receipt |-> FALSE, busy |-> "no",
     amount |-> IF form = "pay" THEN computeAmountField(row, method) ELSE 0]

\* A ticket that is paid shows nothing to fill in.
OpenPage(method) ==
    /\ page = Closed /\ ~fullyPaid(order)
    /\ page' = OpenForm("pay", order, method)
    /\ UNCHANGED <<order, credit, claims, made, settling>>

OpenTopup(method) ==
    /\ page = Closed
    /\ page' = OpenForm("topup", order, method)
    /\ UNCHANGED <<order, credit, claims, made, settling>>

FormIdle == page # Closed /\ page.busy = "no"
OnPage(new) == page' = new /\ UNCHANGED <<order, credit, claims, made, settling>>

CreditAnswered == page # Closed /\ page.form = "pay" /\ OnPage([page EXCEPT !.credit = credit])

ChooseMethod(method) ==
    /\ FormIdle
    /\ OnPage([page EXCEPT !.method = method,
                           !.amount = IF page.form = "pay" THEN computeAmountField(page.row, method) ELSE @])

TypeAmount(n) ==
    /\ FormIdle /\ (page.form = "pay" => ~fxRateMissing(page.row, page.method))
    /\ OnPage([page EXCEPT !.amount = n])

PayUpfront ==
    /\ FormIdle /\ page.form = "pay"
    /\ computeFullUpfrontAmount(page.row) > computeDueNow(page.row)
    /\ OnPage([page EXCEPT !.amount = computeFullUpfrontAmount(page.row)])

AttachReceipt == FormIdle /\ OnPage([page EXCEPT !.receipt = TRUE])

handleSubmit ==
    /\ FormIdle /\ page.amount > 0 /\ page.receipt
    /\ page.form = "pay" => ~fxRateMissing(page.row, page.method)
    /\ OnPage([page EXCEPT !.busy = "receipt"])

\* The receipt is stored, or is not: the claim is not made without it.
ReceiptAnswered ==
    /\ page # Closed /\ page.busy = "receipt"
    /\ \E next \in {"claim", "no"} : OnPage([page EXCEPT !.busy = next])

LeavePage == page # Closed /\ OnPage(Closed)

-----------------------------------------------------------------------------
\* The server.

\* The amount that is credited, or nothing if it cannot be told.
resolveTopupAmount(t, amount, method) ==
    IF t.currency = "USD" /\ isPkrRail(method)
      THEN IF t.rate = 0 THEN {} ELSE {Round(amount * 100, t.rate)}
      ELSE {amount}

Claim(amount) ==
    [id |-> made, amount |-> amount, form |-> page.form, row |-> page.row,
     kept |-> page.amount = computeAmountField(page.row, page.method)]

\* The claim is stored and the form says so, the answer is lost and the form can be sent
\* again, or the server refuses.
TopupAnswered ==
    /\ page # Closed /\ page.busy = "claim" /\ made < ClaimLimit
    /\ LET credited == IF page.form = "pay" THEN resolveTopupAmount(order, page.amount, page.method)
                       ELSE {page.amount}
       IN /\ claims' = claims \cup {Claim(n) : n \in credited}
          /\ made' = made + 1
          /\ \/ credited # {} /\ page' = Closed
             \/ page' = [page EXCEPT !.busy = "no"]
    /\ UNCHANGED <<order, credit, settling>>

handlePayFromWallet ==
    /\ FormIdle /\ page.form = "pay" /\ page.credit > 0 /\ computeDueNow(page.row) > 0
    /\ OnPage([page EXCEPT !.busy = "wallet"])

Pay(t, amount) == [t EXCEPT !.paid = @ + amount]

\* Mutant: all that is left of the total, as before review finding 4.
payTicketFromWallet_Total == Lesser(credit, order.total - order.paid)

payTicketFromWallet == Lesser(credit, dueNow(order))

WalletAnswered ==
    /\ page # Closed /\ page.busy = "wallet"
    /\ \/ /\ order.total > 0 /\ dueNow(order) > 0 /\ credit > 0
          /\ order' = Pay(order, payTicketFromWallet)
          /\ credit' = credit - payTicketFromWallet
          /\ page' = Closed
       \/ /\ order.total = 0 \/ dueNow(order) =< 0 \/ credit =< 0
          /\ page' = [page EXCEPT !.busy = "no"] /\ UNCHANGED <<order, credit>>
    /\ UNCHANGED <<claims, made, settling>>

\* What the settlement of the consumer's tickets takes for this one.
settled(balance) == IF order.total > 0 THEN Lesser(balance, Floor0(order.total - order.paid)) ELSE 0

VerifyClaim(c) ==
    /\ claims' = claims \ {c}
    /\ order' = Pay(order, settled(credit + c.amount))
    /\ credit' = credit + c.amount - settled(credit + c.amount)
    /\ UNCHANGED <<page, made, settling>>

RejectClaim(c) ==
    /\ claims' = claims \ {c}
    /\ UNCHANGED <<order, credit, page, made, settling>>

\* The review adds the remainder, and settles it from the wallet in a transaction after.
FinalizeOrder(charge) ==
    /\ order.model = "SPLIT" /\ ~order.finalized
    /\ order' = [order EXCEPT !.finalized = TRUE, !.total = @ + charge]
    /\ settling' = TRUE
    /\ UNCHANGED <<credit, page, claims, made>>

SettleOrder ==
    /\ settling /\ settling' = FALSE
    /\ order' = Pay(order, settled(credit))
    /\ credit' = credit - settled(credit)
    /\ UNCHANGED <<page, claims, made>>

PayInit ==
    /\ \E k \in PayKinds :
         order = [model |-> k.model, currency |-> k.currency, service |-> k.service,
                  total |-> k.total, rate |-> k.rate, paid |-> 0, finalized |-> FALSE]
    /\ credit \in Credits
    /\ page = Closed /\ claims = {} /\ made = 0 /\ settling = FALSE

PayNext ==
    \/ \E method \in PayMethods : OpenPage(method) \/ OpenTopup(method) \/ ChooseMethod(method)
    \/ \E n \in TypedAmounts : TypeAmount(n)
    \/ CreditAnswered \/ PayUpfront \/ AttachReceipt \/ handleSubmit \/ ReceiptAnswered \/ LeavePage
    \/ TopupAnswered \/ handlePayFromWallet \/ WalletAnswered
    \/ \E c \in claims : VerifyClaim(c) \/ RejectClaim(c)
    \/ \E charge \in FinalCharges : FinalizeOrder(charge)
    \/ SettleOrder

PaySpec == PayInit /\ [][PayNext]_payVars

-----------------------------------------------------------------------------
\* The card and the drawer of My Tickets.

showFinalPayment(t) == t.finalized /\ ~fullyPaid(t) /\ t.total > t.paid
showPayNow(t) ==
    /\ ~showFinalPayment(t) /\ ~fullyPaid(t)
    /\ IF t.service = 0 THEN t.total > t.paid ELSE t.paid < t.service

\* What the page asks for is what is credited: an amount the consumer left as the page
\* filled it in is credited as the sum that was due, after the conversion to rupees on
\* the page and back on the server, whichever method was chosen last ("converting on
\* both sides would divide by the rate twice", pay/page.tsx:222; wallet.service.ts:923).
PrefillCreditsDue ==
    \A c \in claims : c.form = "pay" /\ c.kept => c.amount = computeDueNow(c.row)

\* And it is enough: verifying such a claim leaves nothing to pay of a ticket that has
\* not changed since its page was loaded (clearPendingTickets takes from the total, the
\* page asks for the base).  A ticket discounted to a total of nothing is asked for its
\* base all the same, and what is paid stays in the wallet (README, Disagreements).
ClaimSettles ==
    \A c \in claims :
        VerifyClaim(c) /\ c.form = "pay" /\ c.kept /\ c.row = order /\ order.total > 0
        => dueNow(order') =< 0 \/ fullyPaid(order')

\* The wallet pays no more than the button said, "taking money the consumer was never
\* shown" (wallet.service.ts:583), unless the ticket was finalized since the page was
\* loaded; and exactly that if the ticket and the wallet are as they were.
NoMoreThanShown ==
    page # Closed /\ page.busy = "wallet" /\ order' # order /\ page' = Closed
    => LET shown == Lesser(page.credit, computeDueNow(page.row))
           applied == order'.paid - order.paid
       IN /\ page.row.finalized = order.finalized => applied =< Lesser(credit, computeDueNow(page.row))
          /\ page.row = order /\ page.credit = credit => applied = shown

\* A button that offers to pay leads to a page with something to pay, and of a SPLIT
\* ticket whatever is due is offered.
OfferedIsDue ==
    /\ order.total > 0 /\ (showPayNow(order) \/ showFinalPayment(order)) => dueNow(order) > 0
    /\ order.model = "SPLIT" /\ dueNow(order) > 0 /\ ~fullyPaid(order) /\ order.total > 0
       => showPayNow(order) \/ showFinalPayment(order)

\* The wallet is never overdrawn and a ticket never overpaid by what the page, the
\* verification and the settlement of a finalization do in any order.
NeverOverpaid ==
    /\ credit >= 0
    /\ order.paid =< order.total \/ order.paid =< order.service

\* The consumer pays what is due and was shown: from the button through the page, the
\* conversions and the verification to the settlement, in any order of these with a
\* finalization (pay/page.tsx, wallet.service.ts:560-930).
PaysWhatIsDue ==
    [][/\ PrefillCreditsDue' /\ OfferedIsDue' /\ NeverOverpaid'
       /\ ClaimSettles /\ NoMoreThanShown]_payVars
=============================================================================
