---------------------------- MODULE WalletLedger ----------------------------
(***************************************************************************)
(* The money of the system: prepaid wallet credit (User.walletBalance),    *)
(* what each ticket costs and has received (Ticket.totalAmount,            *)
(* Ticket.amountPaid) and the WalletTransaction rows that explain both.    *)
(*                                                                         *)
(* Every HTTP request is a process.  A request runs Postgres transactions  *)
(* at READ COMMITTED: it takes row locks (SELECT ... FOR UPDATE) one at a  *)
(* time, waits while another request holds the row, and its writes become  *)
(* visible together when it commits, which is also when its locks are      *)
(* released.  Reads that the code makes without a lock are steps of their  *)
(* own, so what they saw may be stale when it is used.                     *)
(*                                                                         *)
(* Money is an integer number of paisa.  The TICKET_DEBIT and              *)
(* ADMIN_ADJUSTMENT rows are append-only and only their sums matter:       *)
(* "ledger" sums them per user, "book" per ticket.  The rows that          *)
(* reconcilePayment writes also have type TICKET_DEBIT, but their money    *)
(* did not come out of the wallet: they are summed apart, as book.cash.    *)
(***************************************************************************)
EXTENDS Integers, FiniteSets, Functions

CONSTANTS
    User,           \* wallet owners (consumers, lawyers, companies)
    Ticket,         \* tickets that exist
    Topup,          \* identities of the top-up rows that may be created
    Request,        \* HTTP requests; each is served once
    Consumer,       \* Ticket.consumerId
    CreatedAt,      \* Ticket.createdAt
    Split,          \* tickets under the SPLIT payment model
    Physical,       \* tickets whose flow has a delivery leg
    Amount,         \* money amounts a caller may enter
    Charges,        \* prices a ticket may be given: [service, total]
    InitStatus,     \* statuses of the tickets when the run starts
    Endpoints,      \* endpoints the requests call
    NULL            \* no user, ticket, row or lock holder

Status == {"UNPAID", "PAID", "ASSIGNED", "IN_PROGRESS", "WAITING_APPROVAL",
           "COMPLETED", "DELIVERED"}

Endpoint == {"topup", "verifyTopup", "rejectTopup", "adjustWallet",
             "settleTicketsForUser", "payTicketFromWallet", "reconcilePayment",
             "updateCharge", "finalizeRemainder", "repriceTicket",
             "updateStatus", "dispatchDelivery", "archive", "restore", "abort"}

Pc == {"new", "lockUser", "lockTicket", "settle", "insert", "write", "done"}

Price == [service : Nat, total : Nat]

\* A ticket belongs to one consumer, and no two of a consumer's tickets are
\* equally old: the FIFO order of settlement is total.
ASSUME LedgerAssumption ==
    /\ Consumer \in [Ticket -> User]
    /\ CreatedAt \in [Ticket -> Nat]
    /\ \A s, t \in Ticket : s # t => CreatedAt[s] # CreatedAt[t]
    /\ Split \subseteq Physical
    /\ Physical \subseteq Ticket
    /\ Amount \subseteq Nat \ {0}
    /\ Charges \subseteq Price
    /\ InitStatus \subseteq Status \ {"DELIVERED"}
    /\ Endpoints \subseteq Endpoint
    /\ NULL \notin User \cup Ticket \cup Topup \cup Request
    /\ IsFiniteSet(Ticket) /\ IsFiniteSet(Topup)

-----------------------------------------------------------------------------
\* Tables and requests.

VARIABLES
    balance,        \* User.walletBalance
    ticket,         \* the Ticket rows' money and workflow columns
    topup,          \* WalletTransaction rows of type TOPUP / TICKET_PAYMENT
    ledger,         \* sums of the other rows, and of the credits, per user
    book,           \* sums of the rows that name a ticket, per ticket
    userLock,       \* request holding the User row, or NULL
    ticketLock,     \* request holding the Ticket row, or NULL
    topupLock,      \* request holding the top-up's row, or NULL
    req             \* what every request is doing

vars == <<balance, ticket, topup, ledger, book, userLock, ticketLock,
          topupLock, req>>

TicketRow == [status : Status, service : Nat, total : Nat, paid : Nat,
              finalized : BOOLEAN, dispatched : BOOLEAN, archived : BOOLEAN]

TopupRow == [user : User \cup {NULL}, amount : Nat,
             status : {"NONE", "PENDING_VERIFICATION", "VERIFIED", "REJECTED"}]

Ledger == [topup : Nat, adjust : Int, surplus : Nat, debit : Nat]

Book == [debit : Nat, cash : Nat, surplus : Nat]

\* A request in flight: the endpoint it serves, the rows it works on, what it
\* was asked to write ("amt", "price", "next"), the status it read ("seen"),
\* and the locals of a settlement: the running balance, the sum of the debits
\* so far, the candidates still to visit and the debit of each visited ticket.
RequestRow == [op : Endpoint \cup {"none"}, pc : Pc,
               user : User \cup {NULL}, ticket : Ticket \cup {NULL},
               topup : Topup \cup {NULL}, amt : Int, price : Price,
               seen : Status, next : Status,
               bal : Nat, spent : Nat, cand : SUBSET Ticket,
               ded : [Ticket -> Nat]]

Blank == [op |-> "none", pc |-> "new", user |-> NULL, ticket |-> NULL,
          topup |-> NULL, amt |-> 0, price |-> [service |-> 0, total |-> 0],
          seen |-> "UNPAID", next |-> "UNPAID",
          bal |-> 0, spent |-> 0, cand |-> {}, ded |-> [t \in Ticket |-> 0]]

Done == [Blank EXCEPT !.pc = "done"]

-----------------------------------------------------------------------------
\* Pure parts of the handlers.

STATUS_TRANSITIONS == [
    UNPAID           |-> {"PAID"},
    PAID             |-> {"ASSIGNED"},
    ASSIGNED         |-> {"IN_PROGRESS"},
    IN_PROGRESS      |-> {"WAITING_APPROVAL"},
    WAITING_APPROVAL |-> {"COMPLETED", "IN_PROGRESS"},
    COMPLETED        |-> {"DELIVERED"},
    DELIVERED        |-> {}]

isBaseCovered(paid, service) == paid >= service

isFullyPaid(row) == row.paid >= row.total

\* Mutant: the payment overwrites amountPaid instead of incrementing it.
applyPaymentToTicket_Overwrite(row, a) ==
    [row EXCEPT !.paid = a,
                !.status = IF row.status = "UNPAID" /\ isBaseCovered(a, row.service)
                           THEN "PAID" ELSE row.status]

\* The row after a payment of a: an UNPAID ticket whose base is covered by it
\* becomes PAID; every other status is kept.
applyPaymentToTicket(row, a) ==
    [row EXCEPT !.paid = row.paid + a,
                !.status = IF /\ row.status = "UNPAID"
                              /\ isBaseCovered(row.paid + a, row.service)
                           THEN "PAID" ELSE row.status]

\* What the consumer is asked to pay now: a SPLIT ticket owes its base only
\* until the remainder is finalized.
dueNow(t) ==
    IF t \in Split /\ ~ticket[t].finalized
    THEN ticket[t].service - ticket[t].paid
    ELSE ticket[t].total - ticket[t].paid

\* What settlement still wants for ticket t: nothing for a delivered or an
\* unpriced one, never a negative amount.
settleRemaining(t) ==
    IF \/ ticket[t].status = "DELIVERED"
       \/ ticket[t].total <= 0
       \/ ticket[t].total <= ticket[t].paid
    THEN 0
    ELSE ticket[t].total - ticket[t].paid

\* Mutant: the query forgets whose wallet is being settled.
candidateIds_AnyConsumer(u) ==
    {t \in Ticket : ticket[t].status # "DELIVERED" /\ ~ticket[t].archived}

\* The unlocked read of the tickets a settlement will visit.
candidateIds(u) ==
    {t \in Ticket : /\ Consumer[t] = u
                    /\ ticket[t].status # "DELIVERED"
                    /\ ~ticket[t].archived}

Oldest(S) == CHOOSE t \in S : \A s \in S : CreatedAt[t] <= CreatedAt[s]

Least(a, b) == IF a <= b THEN a ELSE b

canFinalize(t) ==
    /\ ~ticket[t].finalized
    /\ \/ ticket[t].status = "WAITING_APPROVAL"
       \/ ticket[t].status = "COMPLETED" /\ ~ticket[t].dispatched

mayDeliver(t) ==
    /\ isFullyPaid(ticket[t])
    /\ t \in Physical => ticket[t].dispatched

\* Mutant: a surplus is never noticed.
surplusOver_None(t, newTotal) == 0

\* The amount by which what was paid exceeds the new total.
surplusOver(t, newTotal) ==
    IF ticket[t].paid > newTotal THEN ticket[t].paid - newTotal ELSE 0

-----------------------------------------------------------------------------
Init ==
    /\ balance = [u \in User |-> 0]
    /\ ticket \in
         [Ticket -> {[status |-> s, service |-> c.service, total |-> c.total,
                      paid |-> 0, finalized |-> FALSE, dispatched |-> FALSE,
                      archived |-> FALSE] : s \in InitStatus, c \in Charges}]
    /\ topup = [w \in Topup |-> [user |-> NULL, amount |-> 0, status |-> "NONE"]]
    /\ ledger = [u \in User |-> [topup |-> 0, adjust |-> 0, surplus |-> 0,
                                 debit |-> 0]]
    /\ book = [t \in Ticket |-> [debit |-> 0, cash |-> 0, surplus |-> 0]]
    /\ userLock = [u \in User |-> NULL]
    /\ ticketLock = [t \in Ticket |-> NULL]
    /\ topupLock = [w \in Topup |-> NULL]
    /\ req = [r \in Request |-> Blank]

Calls(r, e) == e \in Endpoints /\ req[r].pc = "new"

tables == <<balance, ticket, topup, ledger, book>>
locks == <<userLock, ticketLock, topupLock>>

\* The request ends: its locks are released.
Release(r) ==
    /\ userLock' = [u \in User |-> IF userLock[u] = r THEN NULL ELSE userLock[u]]
    /\ ticketLock' =
         [t \in Ticket |-> IF ticketLock[t] = r THEN NULL ELSE ticketLock[t]]
    /\ topupLock' =
         [w \in Topup |-> IF topupLock[w] = r THEN NULL ELSE topupLock[w]]

Finish(r) == req' = [req EXCEPT ![r] = Done]

-----------------------------------------------------------------------------
\* Top-ups.

\* topup: one insert.  Its foreign key waits for a locked User row.
Topup_(r, w, u, a) ==
    /\ Calls(r, "topup")
    /\ topup[w].status = "NONE"
    /\ userLock[u] = NULL
    /\ topup' = [topup EXCEPT ![w] = [user |-> u, amount |-> a,
                                      status |-> "PENDING_VERIFICATION"]]
    /\ Finish(r)
    /\ UNCHANGED <<balance, ticket, ledger, book, locks>>

\* Mutant: only a rejected row ends a second verify.
VerifyTopup_RejectedOnly(r, w) ==
    /\ Calls(r, "verifyTopup")
    /\ topup[w].status # "NONE"
    /\ topupLock[w] = NULL
    /\ IF topup[w].status # "REJECTED"
       THEN /\ topupLock' = [topupLock EXCEPT ![w] = r]
            /\ req' = [req EXCEPT ![r] =
                 [Blank EXCEPT !.op = "verifyTopup", !.pc = "lockUser",
                               !.topup = w, !.user = topup[w].user,
                               !.amt = topup[w].amount]]
            /\ UNCHANGED <<userLock, ticketLock>>
       ELSE Finish(r) /\ UNCHANGED locks
    /\ UNCHANGED tables

\* verifyTopup up to its second lock: the row is locked and read again; one
\* that is no longer pending ends the request (alreadyProcessed).
VerifyTopup(r, w) ==
    /\ Calls(r, "verifyTopup")
    /\ topup[w].status # "NONE"
    /\ topupLock[w] = NULL
    /\ IF topup[w].status = "PENDING_VERIFICATION"
       THEN /\ topupLock' = [topupLock EXCEPT ![w] = r]
            /\ req' = [req EXCEPT ![r] =
                 [Blank EXCEPT !.op = "verifyTopup", !.pc = "lockUser",
                               !.topup = w, !.user = topup[w].user,
                               !.amt = topup[w].amount]]
            /\ UNCHANGED <<userLock, ticketLock>>
       ELSE Finish(r) /\ UNCHANGED locks
    /\ UNCHANGED tables

\* rejectTopup: lock, re-read, conditional flip.
RejectTopup(r, w) ==
    /\ Calls(r, "rejectTopup")
    /\ topup[w].status # "NONE"
    /\ topupLock[w] = NULL
    /\ topup' = IF topup[w].status = "PENDING_VERIFICATION"
                THEN [topup EXCEPT ![w].status = "REJECTED"] ELSE topup
    /\ Finish(r)
    /\ UNCHANGED <<balance, ticket, ledger, book, locks>>

-----------------------------------------------------------------------------
\* Wallet settlement (clearPendingTickets), shared by verifyTopup, adjustWallet
\* and settleTicketsForUser.

\* The request holds u's row and starts clearing with a credit: it reads the
\* balance under the lock and the candidates without one.
Settling(r, e, u, credit, cands) ==
    [Blank EXCEPT !.op = e, !.pc = "settle", !.user = u, !.amt = credit,
                  !.topup = req[r].topup, !.bal = balance[u] + credit,
                  !.cand = cands]

\* Mutant: the User row is read without FOR UPDATE.
TakeUser_NoWait(r, u) ==
    /\ userLock' = [userLock EXCEPT ![u] = r]
    /\ UNCHANGED <<ticketLock, topupLock>>

TakeUser(r, u) ==
    /\ userLock[u] = NULL
    /\ userLock' = [userLock EXCEPT ![u] = r]
    /\ UNCHANGED <<ticketLock, topupLock>>

\* Mutant: adjustWallet may overdraw.
AdjustWallet_NoFloor(r, u, a) ==
    /\ Calls(r, "adjustWallet")
    /\ TakeUser(r, u)
    /\ req' = [req EXCEPT ![r] =
                 Settling(r, "adjustWallet", u, a,
                          IF a > 0 THEN candidateIds(u) ELSE {})]
    /\ UNCHANGED tables

\* adjustWallet: refused when the credit would go negative; only a positive
\* adjustment clears tickets.
AdjustWallet(r, u, a) ==
    /\ Calls(r, "adjustWallet")
    /\ IF balance[u] + a < 0
       THEN userLock[u] = NULL /\ Finish(r) /\ UNCHANGED locks
       ELSE /\ TakeUser(r, u)
            /\ req' = [req EXCEPT ![r] =
                 Settling(r, "adjustWallet", u, a,
                          IF a > 0 THEN candidateIds(u) ELSE {})]
    /\ UNCHANGED tables

SettleTicketsForUser(r, u) ==
    /\ Calls(r, "settleTicketsForUser")
    /\ TakeUser(r, u)
    /\ req' = [req EXCEPT ![r] =
                 Settling(r, "settleTicketsForUser", u, 0, candidateIds(u))]
    /\ UNCHANGED tables

\* The User lock of a request that got here by another step: verifyTopup holds
\* the top-up's row, finalizeRemainder has committed and settles afterwards,
\* repriceTicket has read the ticket.
LockUser(r) ==
    /\ req[r].pc = "lockUser"
    /\ TakeUser(r, req[r].user)
    /\ req' = [req EXCEPT ![r] =
         IF req[r].op = "repriceTicket" THEN [req[r] EXCEPT !.pc = "lockTicket"]
         ELSE Settling(r, req[r].op, req[r].user, req[r].amt,
                       candidateIds(req[r].user))]
    /\ UNCHANGED tables

\* Mutant: the loop does not advance past the candidate it has locked.
SettleTicket_NoAdvance(r) ==
    /\ req[r].pc = "settle" /\ req[r].bal > 0 /\ req[r].cand # {}
    /\ ticketLock[Oldest(req[r].cand)] \in {NULL, r}
    /\ ticketLock' = [ticketLock EXCEPT ![Oldest(req[r].cand)] = r]
    /\ UNCHANGED <<tables, userLock, topupLock, req>>

\* One round of the loop: lock the oldest candidate, re-read it under the lock
\* and debit what the running balance covers.
SettleTicket(r) ==
    /\ req[r].pc = "settle"
    /\ req[r].bal > 0
    /\ \E t \in req[r].cand :
         LET d == Least(req[r].bal, settleRemaining(t))
         IN  /\ t = Oldest(req[r].cand)
             /\ ticketLock[t] = NULL
             /\ ticketLock' = [ticketLock EXCEPT ![t] = r]
             /\ req' = [req EXCEPT ![r] =
                  [req[r] EXCEPT !.cand = req[r].cand \ {t},
                                 !.bal = req[r].bal - d,
                                 !.spent = req[r].spent + d,
                                 !.ded = [req[r].ded EXCEPT ![t] = d]]]
    /\ UNCHANGED <<tables, userLock, topupLock>>

\* The loop is over: the absolute balance is written and the transaction
\* commits the debits, the credit's row and their ledger rows.
SettleCommit(r) ==
    LET q == req[r]
    IN  /\ q.pc = "settle"
        /\ q.cand = {} \/ q.bal <= 0
        /\ balance' = [balance EXCEPT ![q.user] = q.bal]
        /\ ticket' = [t \in Ticket |->
                        IF q.ded[t] > 0
                        THEN applyPaymentToTicket(ticket[t], q.ded[t])
                        ELSE ticket[t]]
        /\ topup' = IF q.op = "verifyTopup"
                    THEN [topup EXCEPT ![q.topup].status = "VERIFIED"]
                    ELSE topup
        /\ ledger' = [ledger EXCEPT ![q.user] =
             [topup   |-> ledger[q.user].topup
                          + (IF q.op = "verifyTopup" THEN q.amt ELSE 0),
              adjust  |-> ledger[q.user].adjust
                          + (IF q.op = "adjustWallet" THEN q.amt ELSE 0),
              surplus |-> ledger[q.user].surplus,
              debit   |-> ledger[q.user].debit + q.spent]]
        /\ book' = [t \in Ticket |->
                      [debit   |-> book[t].debit + q.ded[t],
                       cash    |-> book[t].cash,
                       surplus |-> book[t].surplus]]
        /\ Release(r)
        /\ Finish(r)

-----------------------------------------------------------------------------
\* Requests that lock the User row, then one Ticket row.

PayTicketFromWallet(r, u, t) ==
    /\ Calls(r, "payTicketFromWallet")
    /\ TakeUser(r, u)
    /\ req' = [req EXCEPT ![r] =
         [Blank EXCEPT !.op = "payTicketFromWallet", !.pc = "lockTicket",
                       !.user = u, !.ticket = t, !.bal = balance[u]]]
    /\ UNCHANGED tables

\* finalizeRemainder with the total that the reviewed charges add up to.
FinalizeRemainder(r, t, newTotal) ==
    /\ Calls(r, "finalizeRemainder")
    /\ TakeUser(r, Consumer[t])
    /\ req' = [req EXCEPT ![r] =
         [Blank EXCEPT !.op = "finalizeRemainder", !.pc = "lockTicket",
                       !.user = Consumer[t], !.ticket = t,
                       !.price = [service |-> 0, total |-> newTotal]]]
    /\ UNCHANGED tables

\* repriceTicket reads the ticket without a lock; only the amount paid is read
\* again under it.
RepriceTicket(r, t, c) ==
    /\ Calls(r, "repriceTicket")
    /\ req' = [req EXCEPT ![r] =
         IF ticket[t].status = "DELIVERED" THEN Done
         ELSE [Blank EXCEPT !.op = "repriceTicket", !.pc = "lockUser",
                            !.user = Consumer[t], !.ticket = t, !.price = c]]
    /\ UNCHANGED <<tables, locks>>

\* The ticket's last lock is free, the request takes it, does its work and
\* commits.
AtTicket(r, op) ==
    /\ req[r].pc = "lockTicket"
    /\ req[r].op = op
    /\ ticketLock[req[r].ticket] = NULL

PayCommit(r) ==
    LET q == req[r]
        t == q.ticket
        due == dueNow(t)
        applied == Least(q.bal, due)
    IN  /\ AtTicket(r, "payTicketFromWallet")
        /\ IF \/ ticket[t].archived
              \/ Consumer[t] # q.user
              \/ ticket[t].total <= 0
              \/ due <= 0
              \/ q.bal <= 0
           THEN UNCHANGED tables
           ELSE /\ balance' = [balance EXCEPT ![q.user] = q.bal - applied]
                /\ ticket' = [ticket EXCEPT ![t] =
                                applyPaymentToTicket(ticket[t], applied)]
                /\ ledger' = [ledger EXCEPT ![q.user].debit =
                                ledger[q.user].debit + applied]
                /\ book' = [book EXCEPT ![t].debit = book[t].debit + applied]
                /\ UNCHANGED topup
        /\ Release(r)
        /\ Finish(r)

\* Mutant: the surplus gets its row, the wallet gets nothing.
CreditSurplus_RowOnly(u, t, s) ==
    /\ UNCHANGED balance
    /\ ledger' = [ledger EXCEPT ![u].surplus = ledger[u].surplus + s]
    /\ book' = [book EXCEPT ![t].surplus = book[t].surplus + s]

\* The surplus over the new total returns to the wallet, with its row.
CreditSurplus(u, t, s) ==
    /\ balance' = [balance EXCEPT ![u] = balance[u] + s]
    /\ ledger' = [ledger EXCEPT ![u].surplus = ledger[u].surplus + s]
    /\ book' = [book EXCEPT ![t].surplus = book[t].surplus + s]

\* finalizeRemainderCore, and then afterRemainderFinalized: the request settles
\* the consumer's tickets in a transaction of its own.
FinalizeCommit(r) ==
    LET q == req[r]
        t == q.ticket
        s == surplusOver(t, q.price.total)
    IN  /\ AtTicket(r, "finalizeRemainder")
        /\ IF canFinalize(t)
           THEN /\ CreditSurplus(q.user, t, s)
                /\ ticket' = [ticket EXCEPT
                     ![t].total = q.price.total,
                     ![t].paid = ticket[t].paid - s,
                     ![t].finalized = TRUE]
                /\ req' = [req EXCEPT ![r] =
                     [Blank EXCEPT !.op = "settleTicketsForUser",
                                   !.pc = "lockUser", !.user = q.user]]
                /\ UNCHANGED topup
           ELSE Finish(r) /\ UNCHANGED tables
        /\ Release(r)

RepriceCommit(r) ==
    LET q == req[r]
        t == q.ticket
        s == surplusOver(t, q.price.total)
    IN  /\ AtTicket(r, "repriceTicket")
        /\ CreditSurplus(q.user, t, s)
        /\ ticket' = [ticket EXCEPT
             ![t].service = q.price.service,
             ![t].total = q.price.total,
             ![t].paid = ticket[t].paid - s]
        /\ UNCHANGED topup
        /\ Release(r)
        /\ Finish(r)

-----------------------------------------------------------------------------
\* Finance desk.

\* Mutant: the amount is checked against the total, not against what remains.
ReconcilePayment_WholeTotal(r, t, a) ==
    /\ Calls(r, "reconcilePayment")
    /\ ticketLock[t] = NULL
    /\ IF a > ticket[t].total
       THEN Finish(r) /\ UNCHANGED ticketLock
       ELSE /\ ticketLock' = [ticketLock EXCEPT ![t] = r]
            /\ req' = [req EXCEPT ![r] =
                 [Blank EXCEPT !.op = "reconcilePayment", !.pc = "insert",
                               !.ticket = t, !.user = Consumer[t], !.amt = a]]
    /\ UNCHANGED <<tables, userLock, topupLock>>

\* reconcilePayment locks the Ticket row only and refuses more than remains.
ReconcilePayment(r, t, a) ==
    /\ Calls(r, "reconcilePayment")
    /\ ticketLock[t] = NULL
    /\ IF a > ticket[t].total - ticket[t].paid
       THEN Finish(r) /\ UNCHANGED ticketLock
       ELSE /\ ticketLock' = [ticketLock EXCEPT ![t] = r]
            /\ req' = [req EXCEPT ![r] =
                 [Blank EXCEPT !.op = "reconcilePayment", !.pc = "insert",
                               !.ticket = t, !.user = Consumer[t], !.amt = a]]
    /\ UNCHANGED <<tables, userLock, topupLock>>

\* The insert of its WalletTransaction row: the foreign key to User takes a
\* KEY SHARE lock, which waits while the User row is locked FOR UPDATE.
ReconcileCommit(r) ==
    LET q == req[r]
        t == q.ticket
    IN  /\ q.pc = "insert"
        /\ userLock[q.user] = NULL
        /\ ticket' = [ticket EXCEPT ![t] = applyPaymentToTicket(ticket[t], q.amt)]
        /\ book' = [book EXCEPT ![t].cash = book[t].cash + q.amt]
        /\ UNCHANGED <<balance, topup, ledger>>
        /\ Release(r)
        /\ Finish(r)

\* updateCharge reads the ticket without a lock, checks the new total against
\* the amount paid it read, and writes.
UpdateCharge(r, t, c) ==
    /\ Calls(r, "updateCharge")
    /\ req' = [req EXCEPT ![r] =
         IF c.total < ticket[t].paid THEN Done
         ELSE [Blank EXCEPT !.op = "updateCharge", !.pc = "write",
                            !.ticket = t, !.price = c]]
    /\ UNCHANGED <<tables, locks>>

UpdateChargeWrite(r) ==
    LET t == req[r].ticket
    IN  /\ req[r].pc = "write"
        /\ req[r].op = "updateCharge"
        /\ ticketLock[t] = NULL
        /\ ticket' = [ticket EXCEPT ![t].service = req[r].price.service,
                                    ![t].total = req[r].price.total]
        /\ Finish(r)
        /\ UNCHANGED <<balance, topup, ledger, book, locks>>

-----------------------------------------------------------------------------
\* The parts of the ticket workflow that read or are read by the money.

\* updateStatus checks the transition and the delivery gates on an unlocked
\* read ...
UpdateStatus(r, t, s) ==
    /\ Calls(r, "updateStatus")
    /\ req' = [req EXCEPT ![r] =
         IF /\ s \in STATUS_TRANSITIONS[ticket[t].status]
            /\ s = "DELIVERED" => mayDeliver(t)
         THEN [Blank EXCEPT !.op = "updateStatus", !.pc = "write",
                            !.ticket = t, !.seen = ticket[t].status, !.next = s]
         ELSE Done]
    /\ UNCHANGED <<tables, locks>>

\* ... and then flips the row if the status is still the one it read.
UpdateStatusWrite(r) ==
    LET t == req[r].ticket
    IN  /\ req[r].pc = "write"
        /\ req[r].op = "updateStatus"
        /\ ticketLock[t] = NULL
        /\ ticket' = IF ticket[t].status = req[r].seen
                     THEN [ticket EXCEPT ![t].status = req[r].next] ELSE ticket
        /\ Finish(r)
        /\ UNCHANGED <<balance, topup, ledger, book, locks>>

\* dispatchDelivery: one conditional update.
DispatchDelivery(r, t) ==
    /\ Calls(r, "dispatchDelivery")
    /\ ticketLock[t] = NULL
    /\ ticket' = IF /\ t \in Physical
                    /\ ticket[t].status = "COMPLETED"
                    /\ ~ticket[t].dispatched
                 THEN [ticket EXCEPT ![t].dispatched = TRUE] ELSE ticket
    /\ Finish(r)
    /\ UNCHANGED <<balance, topup, ledger, book, locks>>

\* bulkAction 'delete' and 'restore': conditional updates of archivedAt.
BulkArchive(r, t) ==
    /\ Calls(r, "archive")
    /\ ticketLock[t] = NULL
    /\ ticket' = [ticket EXCEPT ![t].archived = TRUE]
    /\ Finish(r)
    /\ UNCHANGED <<balance, topup, ledger, book, locks>>

BulkRestore(r, t) ==
    /\ Calls(r, "restore")
    /\ ticketLock[t] = NULL
    /\ ticket' = [ticket EXCEPT ![t].archived = FALSE]
    /\ Finish(r)
    /\ UNCHANGED <<balance, topup, ledger, book, locks>>

-----------------------------------------------------------------------------
\* Failure: the process dies, the transaction times out, or Postgres picks the
\* request as a deadlock victim.  The open transaction is rolled back.

InFlight(r) == req[r].pc \notin {"new", "done"}

Abort(r) ==
    /\ InFlight(r)
    /\ Release(r)
    /\ Finish(r)
    /\ UNCHANGED tables

\* The request r is waiting for, or NULL.
WaitsFor(r) ==
    CASE req[r].pc = "lockUser" -> userLock[req[r].user]
      [] req[r].pc = "insert" -> userLock[req[r].user]
      [] req[r].pc \in {"lockTicket", "write"} -> ticketLock[req[r].ticket]
      [] req[r].pc = "settle" /\ req[r].cand # {} /\ req[r].bal > 0 ->
           ticketLock[Oldest(req[r].cand)]
      [] OTHER -> NULL

\* r is on a cycle of requests each waiting for the next.  A row that r holds
\* itself does not block it.
Deadlocked(r) ==
    \E S \in SUBSET Request :
        /\ r \in S
        /\ S # {r}
        /\ {WaitsFor(o) : o \in S} = S

\* A random failure is a run's choice; a deadlock is always resolved.
Fail(r) == "abort" \in Endpoints /\ Abort(r)

BreakDeadlock == \E r \in Request : Deadlocked(r) /\ Abort(r)

-----------------------------------------------------------------------------
Step(r) ==
    \/ LockUser(r)
    \/ SettleTicket(r)
    \/ SettleCommit(r)
    \/ PayCommit(r)
    \/ FinalizeCommit(r)
    \/ RepriceCommit(r)
    \/ ReconcileCommit(r)
    \/ UpdateChargeWrite(r)
    \/ UpdateStatusWrite(r)

Call(r) ==
    \/ \E w \in Topup, u \in User, a \in Amount : Topup_(r, w, u, a)
    \/ \E w \in Topup : VerifyTopup(r, w)
    \/ \E w \in Topup : RejectTopup(r, w)
    \/ \E u \in User, a \in Amount : AdjustWallet(r, u, a) \/ AdjustWallet(r, u, -a)
    \/ \E u \in User : SettleTicketsForUser(r, u)
    \/ \E u \in User, t \in Ticket : PayTicketFromWallet(r, u, t)
    \/ \E t \in Ticket, c \in Charges : FinalizeRemainder(r, t, c.total)
    \/ \E t \in Ticket, c \in Charges : RepriceTicket(r, t, c)
    \/ \E t \in Ticket, a \in Amount : ReconcilePayment(r, t, a)
    \/ \E t \in Ticket, c \in Charges : UpdateCharge(r, t, c)
    \/ \E t \in Ticket, s \in Status : UpdateStatus(r, t, s)
    \/ \E t \in Ticket : DispatchDelivery(r, t)
    \/ \E t \in Ticket : BulkArchive(r, t)
    \/ \E t \in Ticket : BulkRestore(r, t)

Next ==
    \/ \E r \in Request : Call(r)
    \/ \E r \in Request : Step(r)
    \/ \E r \in Request : Fail(r)
    \/ BreakDeadlock

Spec == Init /\ [][Next]_vars

\* A request that can proceed does so: Node runs its continuation, Postgres
\* grants the lock it queued for and resolves a deadlock.
Fairness == WF_vars(BreakDeadlock) /\ \A r \in Request : WF_vars(Step(r))

FairSpec == Spec /\ Fairness

-----------------------------------------------------------------------------
\* Properties.

\* Every column and every request's locals have their type.
TypeOK ==
    /\ balance \in [User -> Nat]
    /\ ticket \in [Ticket -> TicketRow]
    /\ topup \in [Topup -> TopupRow]
    /\ ledger \in [User -> Ledger]
    /\ book \in [Ticket -> Book]
    /\ userLock \in [User -> Request \cup {NULL}]
    /\ ticketLock \in [Ticket -> Request \cup {NULL}]
    /\ topupLock \in [Topup -> Request \cup {NULL}]
    /\ req \in [Request -> RequestRow]

\* A wallet's balance is exactly what its WalletTransaction rows say: verified
\* top-ups, adjustments and returned surpluses less the ticket debits.
\* clearPendingTickets writes an absolute balance it computed over several
\* statements, so this is what its User lock has to guarantee.
BalanceBacked ==
    \A u \in User :
        balance[u] = ledger[u].topup + ledger[u].adjust + ledger[u].surplus
                     - ledger[u].debit

\* A ticket's amountPaid is exactly the wallet debits and reconciled payments
\* that name it less the surplus returned from it.
BooksBacked ==
    \A t \in Ticket :
        ticket[t].paid = book[t].debit + book[t].cash - book[t].surplus

\* Nothing is created, lost or credited twice: a user's credit plus what the
\* user's tickets have received is the money that came in from outside, by
\* verified top-ups, admin adjustments and reconciled payments.
MoneyConserved ==
    \A u \in User :
        LET mine == {t \in Ticket : Consumer[t] = u}
            paidIn == {w \in Topup : /\ topup[w].user = u
                                     /\ topup[w].status = "VERIFIED"}
        IN  balance[u] + SumFunctionOnSet([t \in Ticket |-> ticket[t].paid], mine)
            = SumFunctionOnSet([w \in Topup |-> topup[w].amount], paidIn)
              + ledger[u].adjust
              + SumFunctionOnSet([t \in Ticket |-> book[t].cash], mine)

\* What a request may rely on between two of its statements.  It holds the rows
\* it has read and will write, so the balance a settlement counts down, the
\* credit payTicketFromWallet read, the pending row verifyTopup re-read and the
\* room left under the total of every ticket it debits are still what they were.
RequestInv(r) ==
    LET q == req[r]
    IN  /\ q.pc \in {"lockUser", "lockTicket", "settle", "insert"} => q.user \in User
        /\ q.pc \in {"lockTicket", "insert", "write"} \/ q.op = "repriceTicket"
             => q.ticket \in Ticket
        /\ q.pc \in {"lockTicket", "settle"} => userLock[q.user] = r
        /\ q.pc = "lockUser" =>
             /\ q.op \in {"verifyTopup", "settleTicketsForUser", "repriceTicket"}
             /\ q.amt \in Nat
             /\ q.op # "verifyTopup" => q.amt = 0
        /\ q.pc = "settle" =>
             /\ q.op \in {"verifyTopup", "settleTicketsForUser", "adjustWallet"}
             /\ q.op = "settleTicketsForUser" => q.amt = 0
             /\ q.bal + q.spent = balance[q.user] + q.amt
        /\ q.pc = "lockTicket" /\ q.op = "payTicketFromWallet" =>
             q.bal = balance[q.user]
        /\ q.op = "verifyTopup" =>
             /\ q.topup \in Topup
             /\ topupLock[q.topup] = r
             /\ topup[q.topup].status = "PENDING_VERIFICATION"
             /\ q.amt = topup[q.topup].amount
        /\ q.pc = "insert" =>
             /\ ticketLock[q.ticket] = r
             /\ q.amt \in Nat
             /\ ticket[q.ticket].paid + q.amt <= ticket[q.ticket].total
        /\ \A t \in Ticket : q.ded[t] > 0 =>
             /\ ticketLock[t] = r
             /\ ticket[t].paid + q.ded[t] <= ticket[t].total

LockDiscipline == \A r \in Request : RequestInv(r)

\* A row that exists names its user.
TopupsOwned == \A w \in Topup : topup[w].status # "NONE" => topup[w].user \in User

\* What top-ups have brought into u's wallet: the credit that is left and what has
\* been spent of it, less what came from elsewhere.
toppedUp(u) == balance[u] + ledger[u].debit - ledger[u].adjust - ledger[u].surplus

Verifies(w) == topup[w].status # "VERIFIED" /\ topup'[w].status = "VERIFIED"

\* A top-up is decided once, with one effect.  A decided row is never rewritten;
\* the step that verifies a pending row, and no other, credits its owner with its
\* amount.  So a second verify credits nothing, although the row it would write
\* is the row that is there, and neither does one that lost to a reject.
DecisionIsFinal ==
    [][/\ \A w \in Topup : topup[w].status \in {"VERIFIED", "REJECTED"}
                           => topup'[w] = topup[w]
       /\ \A w \in Topup : Verifies(w) =>
            /\ topup[w].status = "PENDING_VERIFICATION"
            /\ \E u \in User : /\ u = topup[w].user
                               /\ toppedUp(u)' = toppedUp(u) + topup[w].amount
       /\ \A u \in User : toppedUp(u)' # toppedUp(u) =>
            \E w \in Topup : Verifies(w) /\ topup[w].user = u]_vars

\* Whatever raises a ticket's amountPaid leaves it within the total in force at
\* that moment, or, for a SPLIT ticket before its remainder is finalized, within
\* the base the consumer was asked for: concurrent payments never overpay.
NoOverpayment ==
    [][\A t \in Ticket :
         ticket'[t].paid > ticket[t].paid =>
            \/ ticket'[t].paid <= ticket'[t].total
            \/ /\ t \in Split
               /\ ~ticket'[t].finalized
               /\ ticket'[t].paid <= ticket'[t].service]_vars

\* A finalized remainder stays finalized.  Only finalizeRemainderCore, once, may
\* set it, and in that step a paid surplus has left the ticket.
FinalizedOnce ==
    [][\A t \in Ticket :
         /\ ticket[t].finalized => ticket'[t].finalized
         /\ ticket'[t].finalized /\ ~ticket[t].finalized
            => ticket'[t].paid <= ticket'[t].total]_vars

\* Every request is answered: it commits, is refused or is rolled back.
RequestsEnd == \A r \in Request : InFlight(r) ~> req[r].pc = "done"

\* A ticket is fully paid when it becomes DELIVERED.
DeliveryIsPaidFor ==
    [][\A t \in Ticket :
         ticket'[t].status = "DELIVERED" /\ ticket[t].status # "DELIVERED"
         => isFullyPaid(ticket[t])]_vars

\* The requests implement the four indivisible movements of MoneyAccounts.
Accounts == INSTANCE MoneyAccounts
    WITH credit <- balance,
         funds  <- [t \in Ticket |-> ticket[t].paid],
         inflow <- [u \in User |-> ledger[u].topup + ledger[u].adjust],
         cash   <- [t \in Ticket |-> book[t].cash]

\* Whatever the interleaving, an observer sees only whole settlements, refunds
\* and receipts: no step shows a credit without its debits or a debit without
\* the payment it made.
MovesMoneyAtomically == Accounts!AccountsSpec

=============================================================================
