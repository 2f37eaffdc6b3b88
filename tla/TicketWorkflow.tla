--------------------------- MODULE TicketWorkflow ---------------------------
(***************************************************************************)
(* The life of one ticket between intake and delivery: its status, its     *)
(* representatives, the charges they report and the admin's review.        *)
(*                                                                         *)
(* Every endpoint follows the same pattern (TicketsService): it reads the  *)
(* ticket without a lock and validates what it read, perhaps reads the     *)
(* assignments, and then runs a transaction whose first statement is an    *)
(* UPDATE that is conditional on the status it validated against.  The     *)
(* transaction holds the ticket's row from that statement on, so it is one *)
(* step here; the reads before it are steps of their own.                  *)
(*                                                                         *)
(* Tickets share none of this state, so one is enough.  Money is reduced   *)
(* to how much of the price is covered; WalletLedger has the amounts.      *)
(***************************************************************************)
EXTENDS Integers, Sequences

CONSTANTS
    Request,        \* HTTP requests; each is served once
    Rep,            \* representatives (clerks)
    STAFF,          \* any member of staff, for endpoints open to both
    Flows,          \* the flows: delivery leg? phase-2 charges in its currency?
    Price,          \* values of serviceCost
    Charge,         \* values of the phase-2 charge columns, taken together
    Endpoints,      \* endpoints the requests call
    InitStatus      \* statuses the ticket may have when the run starts

Status == {"UNPAID", "PAID", "ASSIGNED", "IN_PROGRESS", "WAITING_APPROVAL",
           "COMPLETED", "DELIVERED"}

Endpoint == {"updateStatus", "overrideStatus", "assign", "acceptAssignment",
             "rejectAssignment", "submitClerkReceipt", "submitClerkCosts",
             "saveClerkCharges", "reviewAndComplete", "sendBackToClerk",
             "dispatchDelivery", "finalizeRemainder", "repriceTicket",
             "payment"}

ASSUME WorkflowAssumption ==
    /\ STAFF \notin Rep
    /\ Flows \subseteq [physical : BOOLEAN, caps : BOOLEAN]
    /\ Endpoints \subseteq Endpoint
    /\ InitStatus \subseteq Status \ {"DELIVERED"}
    /\ Price # {}
    /\ Charge # {}

VARIABLES
    flow,           \* what Ticket.intakeFlow and currency say of its capabilities
    status,         \* Ticket.status
    approval,       \* Ticket.clerkApprovalStatus
    dispatched,     \* Ticket.deliveryStatus = DISPATCHED
    finalized,      \* Ticket.remainderFinalizedAt is set
    covered,        \* amountPaid against the price: 0 below the base, 1 base, 2 total
    price,          \* Ticket.serviceCost
    charge,         \* the phase-2 charge columns
    bill,           \* what totalAmount was computed from
    assignments,    \* Assignment rows, oldest first
    history,        \* TicketStatusHistory rows, oldest first
    req             \* what every request is doing

money == <<finalized, covered, price, charge, bill>>
vars == <<flow, status, approval, dispatched, money, assignments, history, req>>

Bill == [price : Price, charge : Charge]

AssignmentRow == [rep : Rep, status : {"ACTIVE", "ACCEPTED", "REJECTED", "SUPERSEDED"}]

\* A request in flight: who acts, the status it read, the status or the charges
\* it will write, the price and charges it read, and the assignment it found.
RequestRow == [op : Endpoint \cup {"none"},
               pc : {"new", "allowed", "find", "write", "settle", "done"},
               actor : Rep \cup {STAFF}, seen : Status, next : Status,
               bypass : BOOLEAN, price : Price, charge : Charge, found : Nat]

Blank == [op |-> "none", pc |-> "new", actor |-> STAFF, seen |-> "UNPAID",
          next |-> "UNPAID", bypass |-> FALSE, price |-> CHOOSE p \in Price : TRUE,
          charge |-> CHOOSE c \in Charge : TRUE, found |-> 0]

\* A ticket that has come as far as status by the usual way: assigned once, its
\* assignment accepted when the work began.  Of the rows written before, the
\* history keeps the newest.
Init ==
    /\ flow \in Flows
    /\ status \in InitStatus
    /\ approval = IF status \in {"WAITING_APPROVAL", "COMPLETED"}
                  THEN "SUBMITTED" ELSE "NONE"
    /\ dispatched = FALSE
    /\ finalized = FALSE
    /\ covered \in (IF status = "UNPAID" THEN {0} ELSE 1..2)
    /\ price \in Price
    /\ charge \in Charge
    /\ bill = [price |-> price, charge |-> charge]
    /\ \E rep \in Rep :
         assignments =
            CASE status \in {"UNPAID", "PAID"} -> <<>>
              [] status = "ASSIGNED" -> <<[rep |-> rep, status |-> "ACTIVE"]>>
              [] OTHER -> <<[rep |-> rep, status |-> "ACCEPTED"]>>
    /\ history = <<<<"UNPAID", status>>>>
    /\ req = [r \in Request |-> Blank]

-----------------------------------------------------------------------------
\* Helpers.

STATUS_TRANSITIONS == [
    UNPAID           |-> {"PAID"},
    PAID             |-> {"ASSIGNED"},
    ASSIGNED         |-> {"IN_PROGRESS"},
    IN_PROGRESS      |-> {"WAITING_APPROVAL"},
    WAITING_APPROVAL |-> {"COMPLETED", "IN_PROGRESS"},
    COMPLETED        |-> {"DELIVERED"},
    DELIVERED        |-> {}]

\* Mutant: delivery does not wait for the parcel.
mayDeliver_NotDispatched == covered = 2

mayDeliver == covered = 2 /\ (flow.physical => dispatched)

\* The newest assignment whose status is in S, or 0.
latest(S) ==
    LET I == {i \in 1..Len(assignments) : assignments[i].status \in S}
    IN  IF I = {} THEN 0 ELSE CHOOSE i \in I : \A j \in I : j <= i

\* A request that arrives: what it read of the ticket, and where it goes next.
Arrives(r, e, next, q) ==
    /\ e \in Endpoints
    /\ req[r].pc = "new"
    /\ req' = [req EXCEPT ![r] =
         [q EXCEPT !.op = e, !.pc = next, !.seen = status]]
    /\ UNCHANGED <<flow, status, approval, dispatched, money, assignments, history>>

Done(r) == req' = [req EXCEPT ![r] = [Blank EXCEPT !.pc = "done"]]

AtWrite(r, e) == req[r].pc = "write" /\ req[r].op = e

\* Mutant: the update is by id only.
Flip_Unconditional(ok, from, to) ==
    /\ status' = to
    /\ history' = Append(history, <<from, to>>)

\* The conditional transition: the row is flipped and the history row written
\* if the row still satisfies the WHERE clause; otherwise 409 and no effect.
Flip(ok, from, to) ==
    IF ok THEN status' = to /\ history' = Append(history, <<from, to>>)
    ELSE UNCHANGED <<status, history>>

-----------------------------------------------------------------------------
\* Status changes by staff.

UpdateStatus(r, s) ==
    /\ s \in STATUS_TRANSITIONS[status]
    /\ s = "DELIVERED" => mayDeliver
    /\ Arrives(r, "updateStatus", "write", [req[r] EXCEPT !.next = s])

\* An override may skip the order, never the gates; a super-admin may skip both.
OverrideStatus(r, s, superAdmin) ==
    /\ s = "DELIVERED" /\ ~superAdmin => mayDeliver
    /\ Arrives(r, "overrideStatus", "write",
               [req[r] EXCEPT !.next = s, !.bypass = superAdmin /\ s = "DELIVERED"])

ChangeStatus(r) ==
    /\ AtWrite(r, "updateStatus") \/ AtWrite(r, "overrideStatus")
    /\ Flip(status = req[r].seen, req[r].seen, req[r].next)
    /\ Done(r)
    /\ UNCHANGED <<flow, approval, dispatched, money, assignments>>

SendBackToClerk(r) ==
    /\ status = "WAITING_APPROVAL"
    /\ Arrives(r, "sendBackToClerk", "write", [req[r] EXCEPT !.next = "IN_PROGRESS"])

SendBackWrite(r) ==
    /\ AtWrite(r, "sendBackToClerk")
    /\ Flip(status = "WAITING_APPROVAL", "WAITING_APPROVAL", "IN_PROGRESS")
    /\ approval' = IF status = "WAITING_APPROVAL" THEN "REJECTED" ELSE approval
    /\ Done(r)
    /\ UNCHANGED <<flow, dispatched, money, assignments>>

-----------------------------------------------------------------------------
\* Assignments.

Assign(r, rep) ==
    /\ status = "UNPAID" \/ "ASSIGNED" \in STATUS_TRANSITIONS[status]
    /\ Arrives(r, "assign", "write",
               [req[r] EXCEPT !.actor = rep, !.price = price, !.charge = charge])

\* Mutant: the earlier assignments are left active.
AssignWrite_NotSuperseding(r) ==
    /\ AtWrite(r, "assign")
    /\ Flip(status = req[r].seen, req[r].seen, "ASSIGNED")
    /\ IF status = req[r].seen
       THEN /\ bill' = [price |-> req[r].price, charge |-> req[r].charge]
            /\ assignments' = Append(assignments, [rep |-> req[r].actor, status |-> "ACTIVE"])
       ELSE UNCHANGED <<bill, assignments>>
    /\ Done(r)
    /\ UNCHANGED <<flow, approval, dispatched, finalized, covered, price, charge>>

\* The flip writes the total recomputed from the charges read earlier; the
\* active assignments are superseded and a new one is created.
AssignWrite(r) ==
    /\ AtWrite(r, "assign")
    /\ Flip(status = req[r].seen, req[r].seen, "ASSIGNED")
    /\ IF status = req[r].seen
       THEN /\ bill' = [price |-> req[r].price, charge |-> req[r].charge]
            /\ assignments' =
                 Append([i \in 1..Len(assignments) |->
                           IF assignments[i].status = "ACTIVE"
                           THEN [assignments[i] EXCEPT !.status = "SUPERSEDED"]
                           ELSE assignments[i]],
                        [rep |-> req[r].actor, status |-> "ACTIVE"])
       ELSE UNCHANGED <<bill, assignments>>
    /\ Done(r)
    /\ UNCHANGED <<flow, approval, dispatched, finalized, covered, price, charge>>

AcceptAssignment(r, rep) ==
    /\ status = "ASSIGNED"
    /\ Arrives(r, "acceptAssignment", "find", [req[r] EXCEPT !.actor = rep])

RejectAssignment(r, who) ==
    /\ status = "ASSIGNED"
    /\ Arrives(r, "rejectAssignment", "allowed", [req[r] EXCEPT !.actor = who])

\* ensureClerkActionAllowed: staff, or the representative of the newest
\* assignment that is active or accepted.
EnsureClerkActionAllowed(r) ==
    LET i == latest({"ACTIVE", "ACCEPTED"})
        ok == req[r].actor = STAFF \/ (i > 0 /\ assignments[i].rep = req[r].actor)
    IN  /\ req[r].pc = "allowed"
        /\ IF ok THEN req' = [req EXCEPT ![r].pc =
                        IF req[r].op = "rejectAssignment" THEN "find" ELSE "write"]
           ELSE Done(r)
        /\ UNCHANGED <<flow, status, approval, dispatched, money, assignments, history>>

\* The newest active assignment: accepting needs one, the caller's own.
FindActive(r) ==
    LET i == latest({"ACTIVE"})
        ok == \/ req[r].op = "rejectAssignment"
              \/ i > 0 /\ assignments[i].rep = req[r].actor
    IN  /\ req[r].pc = "find"
        /\ IF ok THEN req' = [req EXCEPT ![r].found = i, ![r].pc = "write"] ELSE Done(r)
        /\ UNCHANGED <<flow, status, approval, dispatched, money, assignments, history>>

\* Both write the assignment they found by its id.
AcceptWrite(r) ==
    /\ AtWrite(r, "acceptAssignment")
    /\ Flip(status = "ASSIGNED", "ASSIGNED", "IN_PROGRESS")
    /\ assignments' = IF status = "ASSIGNED"
                      THEN [assignments EXCEPT ![req[r].found].status = "ACCEPTED"]
                      ELSE assignments
    /\ Done(r)
    /\ UNCHANGED <<flow, approval, dispatched, money>>

RejectWrite(r) ==
    /\ AtWrite(r, "rejectAssignment")
    /\ Flip(status = "ASSIGNED", "ASSIGNED", "PAID")
    /\ assignments' = IF status = "ASSIGNED" /\ req[r].found > 0
                      THEN [assignments EXCEPT ![req[r].found].status = "REJECTED"]
                      ELSE assignments
    /\ Done(r)
    /\ UNCHANGED <<flow, approval, dispatched, money>>

-----------------------------------------------------------------------------
\* The representative's work.

SubmitClerkReceipt(r, who) ==
    Arrives(r, "submitClerkReceipt", "allowed", [req[r] EXCEPT !.actor = who])

\* A first receipt advances the ticket, a later one is accepted in review.
ReceiptWrite(r) ==
    /\ AtWrite(r, "submitClerkReceipt")
    /\ Flip(status = "IN_PROGRESS", "IN_PROGRESS", "WAITING_APPROVAL")
    /\ approval' = IF status \in {"IN_PROGRESS", "WAITING_APPROVAL"}
                   THEN "SUBMITTED" ELSE approval
    /\ Done(r)
    /\ UNCHANGED <<flow, dispatched, money, assignments>>

SubmitClerkCosts(r, who, c) ==
    /\ status \in {"IN_PROGRESS", "WAITING_APPROVAL"}
    /\ ~finalized
    /\ Arrives(r, "submitClerkCosts", "allowed",
               [req[r] EXCEPT !.actor = who, !.charge = c])

\* Mutant: the WHERE clause forgets remainderFinalizedAt.
costsApply_Finalized(r) == status = req[r].seen

costsApply(r) == status = req[r].seen /\ ~finalized

CostsWrite(r) ==
    /\ AtWrite(r, "submitClerkCosts")
    /\ Flip(costsApply(r), req[r].seen, "WAITING_APPROVAL")
    /\ IF costsApply(r) THEN charge' = req[r].charge /\ approval' = "SUBMITTED"
       ELSE UNCHANGED <<charge, approval>>
    /\ Done(r)
    /\ UNCHANGED <<flow, dispatched, finalized, covered, price, bill, assignments>>

\* A draft of the charges, in any status and at any time.
SaveClerkCharges(r, who, c) ==
    Arrives(r, "saveClerkCharges", "allowed", [req[r] EXCEPT !.actor = who, !.charge = c])

SaveChargesWrite(r) ==
    /\ AtWrite(r, "saveClerkCharges")
    /\ charge' = req[r].charge
    /\ Done(r)
    /\ UNCHANGED <<flow, status, approval, dispatched, finalized, covered, price, bill,
                   assignments, history>>

DispatchDelivery(r, who) ==
    /\ flow.physical
    /\ status = "COMPLETED"
    /\ Arrives(r, "dispatchDelivery", "allowed", [req[r] EXCEPT !.actor = who])

DispatchWrite(r) ==
    /\ AtWrite(r, "dispatchDelivery")
    /\ dispatched' = (dispatched \/ status = "COMPLETED")
    /\ Done(r)
    /\ UNCHANGED <<flow, status, approval, money, assignments, history>>

-----------------------------------------------------------------------------
\* Review, price and money.

\* finalizeRemainderCore with charges c: the total is recomputed from the rows
\* under the lock; a surplus goes back to the wallet, so what was covered is
\* then exactly the new total, or less than it.
Finalizing(c) ==
    /\ finalized' = TRUE
    /\ charge' = c
    /\ bill' = [price |-> price, charge |-> c]
    /\ covered' \in {IF covered = 0 THEN 0 ELSE 1, 2}
    /\ UNCHANGED price

\* The request goes on to settleTicketsForUser, a transaction of its own.
ThenSettle(r) == req' = [req EXCEPT ![r] = [Blank EXCEPT !.pc = "settle"]]

FinalizeRemainder(r, c) ==
    /\ "finalizeRemainder" \in Endpoints
    /\ req[r].pc = "new"
    /\ ~finalized
    /\ \/ status = "WAITING_APPROVAL"
       \/ status = "COMPLETED" /\ ~dispatched
    /\ Finalizing(c)
    /\ ThenSettle(r)
    /\ UNCHANGED <<flow, status, approval, dispatched, assignments, history>>

\* reviewAndComplete: finalize if the flow has charges that are not final,
\* verify the receipt, complete, and deliver a digital flow that is paid for.
ReviewAndComplete(r, c) ==
    /\ "reviewAndComplete" \in Endpoints
    /\ req[r].pc = "new"
    /\ status = "WAITING_APPROVAL"
    /\ IF flow.caps /\ ~finalized THEN Finalizing(c) /\ ThenSettle(r)
       ELSE UNCHANGED money /\ Done(r)
    /\ approval' = IF approval = "SUBMITTED" THEN "VERIFIED" ELSE approval
    /\ IF ~flow.physical /\ covered' = 2
       THEN /\ status' = "DELIVERED"
            /\ history' = history \o <<<<"WAITING_APPROVAL", "COMPLETED">>,
                                       <<"COMPLETED", "DELIVERED">>>>
       ELSE /\ status' = "COMPLETED"
            /\ history' = Append(history, <<"WAITING_APPROVAL", "COMPLETED">>)
    /\ UNCHANGED <<flow, dispatched, assignments>>

\* repriceTicket to the price p that the rules resolve, with the charges c: the
\* caller's overrides or those of the unlocked read.
RepriceTicket(r, p, c) ==
    /\ status # "DELIVERED"
    /\ Arrives(r, "repriceTicket", "write",
               [req[r] EXCEPT !.price = p, !.charge = c])

RepriceWrite(r) ==
    /\ AtWrite(r, "repriceTicket")
    /\ price' = req[r].price
    /\ charge' = req[r].charge
    /\ bill' = [price |-> req[r].price, charge |-> req[r].charge]
    /\ covered' \in 0..2
    /\ Done(r)
    /\ UNCHANGED <<flow, status, approval, dispatched, finalized, assignments, history>>

\* amountPaid rises to level.  An UNPAID ticket whose base is covered is PAID; one
\* whose discounted total is below its base stays UNPAID when that total is paid.
\* No history row is written.
Pays(level) ==
    /\ level >= covered
    /\ covered' = level
    /\ status' \in IF status # "UNPAID" \/ level = 0 THEN {status}
                   ELSE IF level = 1 THEN {"PAID"} ELSE {"PAID", "UNPAID"}
    /\ UNCHANGED <<flow, approval, dispatched, finalized, price, charge, bill,
                   assignments, history>>

\* Mutant: the payment is added without a look at what is due.
Payment_NotCapped(r, level) ==
    /\ "payment" \in Endpoints
    /\ req[r].pc = "new"
    /\ covered' = covered + level
    /\ Done(r)
    /\ UNCHANGED <<flow, status, approval, dispatched, finalized, price, charge, bill,
                   assignments, history>>

\* A payment by wallet, gateway or finance desk.
Payment(r, level) ==
    /\ "payment" \in Endpoints
    /\ req[r].pc = "new"
    /\ Pays(level)
    /\ Done(r)

\* The settlement that follows a finalized remainder pays as much as the wallet
\* has.
Settle(r, level) ==
    /\ req[r].pc = "settle"
    /\ Pays(level)
    /\ Done(r)

-----------------------------------------------------------------------------
Actor == Rep \cup {STAFF}

Step(r) ==
    \/ \E s \in Status : UpdateStatus(r, s)
    \/ \E s \in Status, b \in BOOLEAN : OverrideStatus(r, s, b)
    \/ ChangeStatus(r)
    \/ SendBackToClerk(r)
    \/ SendBackWrite(r)
    \/ \E rep \in Rep : Assign(r, rep)
    \/ AssignWrite(r)
    \/ \E rep \in Rep : AcceptAssignment(r, rep)
    \/ \E who \in Actor : RejectAssignment(r, who)
    \/ EnsureClerkActionAllowed(r)
    \/ FindActive(r)
    \/ AcceptWrite(r)
    \/ RejectWrite(r)
    \/ \E who \in Actor : SubmitClerkReceipt(r, who)
    \/ ReceiptWrite(r)
    \/ \E who \in Actor, c \in Charge : SubmitClerkCosts(r, who, c)
    \/ CostsWrite(r)
    \/ \E who \in Actor, c \in Charge : SaveClerkCharges(r, who, c)
    \/ SaveChargesWrite(r)
    \/ \E who \in Actor : DispatchDelivery(r, who)
    \/ DispatchWrite(r)
    \/ \E c \in Charge : FinalizeRemainder(r, c)
    \/ \E c \in Charge : ReviewAndComplete(r, c)
    \/ \E p \in Price, c \in Charge : RepriceTicket(r, p, c)
    \/ RepriceWrite(r)
    \/ \E level \in 1..2 : Payment(r, level)
    \/ \E level \in 0..2 : Settle(r, level)

Next == \E r \in Request : Step(r)

Spec == Init /\ [][Next]_vars

-----------------------------------------------------------------------------
\* Properties.

\* Every column and every request's locals have their type.
TypeOK ==
    /\ flow \in Flows
    /\ status \in Status
    /\ approval \in {"NONE", "SUBMITTED", "VERIFIED", "REJECTED"}
    /\ dispatched \in BOOLEAN
    /\ finalized \in BOOLEAN
    /\ covered \in 0..2
    /\ price \in Price
    /\ charge \in Charge
    /\ bill \in Bill
    /\ assignments \in Seq(AssignmentRow)
    /\ history \in Seq(Status \X Status)
    /\ req \in [Request -> RequestRow]

\* b continues a history that says a: the same status, or the PAID of a payment,
\* which leaves no row.
Continues(a, b) == a = b \/ (a = "UNPAID" /\ b = "PAID")

\* The history rows tell the ticket's story without a gap: every row starts
\* where the one before it ended and the last ends at the ticket's status, so
\* no transition was lost, written twice or written for a flip that lost its race.
HistoryChain ==
    /\ \A i \in 1..(Len(history) - 1) : Continues(history[i][2], history[i + 1][1])
    /\ Continues(history[Len(history)][2], status)

\* Two representatives are never both asked to accept the ticket, however
\* assign, accept and reject interleave.
OneActiveAssignment ==
    \A i, j \in 1..Len(assignments) :
        assignments[i].status = "ACTIVE" /\ assignments[j].status = "ACTIVE" => i = j

\* Request r changes the ticket by an override in this step.
Overrides(r) == req[r].op = "overrideStatus" /\ req'[r] # req[r]

\* Whatever the requests read, only an override leaves the workflow: every other
\* change of status is a listed transition, pay-at-end assignment, a rejected
\* assignment or the automatic delivery of a reviewed digital ticket.
OnlyOverridesSkip ==
    status' # status =>
       \/ status' \in STATUS_TRANSITIONS[status]
       \/ status = "UNPAID" /\ status' = "ASSIGNED"
       \/ status = "ASSIGNED" /\ status' = "PAID"
       \/ status = "WAITING_APPROVAL" /\ status' = "DELIVERED" /\ ~flow.physical
       \/ \E r \in Request : Overrides(r)

\* The total is what the price and the charges on the ticket add up to.
Reconciles == bill = [price |-> price, charge |-> charge]

\* Once the remainder is final, no request that was validated before (a cost
\* submission, a reprice, a second finalization) parts the total from the charges
\* it was computed from: only a saved draft does, or an assignment after an
\* override.
FinalBillKept ==
    [][finalized /\ Reconciles =>
         \/ Reconciles'
         \/ \E r \in Request : /\ req[r].op \in {"saveClerkCharges", "assign"}
                               /\ req'[r] # req[r]]_vars

\* A physical ticket reaches DELIVERED dispatched, by override too, unless a
\* super-admin bypassed the gates.
DispatchedBeforeDelivered ==
    status' = "DELIVERED" /\ status # "DELIVERED" /\ flow.physical =>
       \/ dispatched
       \/ \E r \in Request : Overrides(r) /\ req[r].bypass

\* An assignment becomes ACCEPTED only while it is the one in force.
AcceptsTheActiveOne ==
    [][\A i \in 1..Len(assignments) :
         assignments'[i].status = "ACCEPTED" /\ assignments[i].status # "ACCEPTED"
         => assignments[i].status = "ACTIVE"]_vars

\* Once the remainder is final, the total agrees with the price and the charges
\* on the ticket.
FinalBillReconciles == finalized => Reconciles

\* Every move of a ticket is one that the workflow allows at that moment, whatever the
\* request had read: a listed transition, through the dispatch gate for physical tickets.
MovesAreAllowed == [][OnlyOverridesSkip /\ DispatchedBeforeDelivered]_vars
=============================================================================
