---------------------------- MODULE Notifications ---------------------------
(***************************************************************************)
(* Who is told what.  An operation that has committed hands its event to   *)
(* the dispatcher, which writes one notification after the other: first,   *)
(* where there is one, the consumer's, then those of an audience it reads  *)
(* at that moment from the users, the assignments or the audit log.  The   *)
(* caller ignores a failure, so a write that fails ends the dispatch and   *)
(* the rest of the audience is never told.  E-mails never fail a dispatch  *)
(* and are left out, and so is the wording.  There is one ticket, with the *)
(* operations on its assignment; the other events come from anywhere.      *)
(***************************************************************************)
EXTENDS Naturals, Sequences, FiniteSets, Routes

CONSTANTS
    BellUser,       \* accounts
    RoleOf,         \* the role of each
    TicketOwner,    \* the consumer of the ticket
    NoUser,         \* null
    AtOnceLimit,    \* bound on the dispatches under way at the same time
    BellScenes      \* the events that happen together, with a bound on their number
                    \* and one on the deactivations, whether a status is overridden,
                    \* and whether a write may fail

ASSUME BellAssumption ==
    /\ RoleOf \in [BellUser -> Role]
    /\ TicketOwner \in BellUser /\ RoleOf[TicketOwner] \in ConsumerRole
    /\ NoUser \notin BellUser

VARIABLES
    bellScene,
    userActive,     \* users: isActive
    turns,
    assignment,     \* the newest assignment of the ticket and the ticket's status
    assignLog,      \* audit log: who wrote the rows TICKET_ASSIGNED, oldest first
    unlogged,       \* assignments that have committed and are not in the audit log yet
    dispatches      \* the dispatches, in the order in which they began

bellVars == <<bellScene, userActive, turns, assignment, assignLog, unlogged, dispatches>>

BellRep == {u \in BellUser : RoleOf[u] = "representative"}
TicketAdmin == {u \in BellUser : "tickets.write" \in ROLE_PERMISSIONS[RoleOf[u]]}

-----------------------------------------------------------------------------
\* Audiences.

ADMIN_NOTIFY_ROLES == {"super-admin", "manager-admin", "staff-admin", "lead-admin"}

FINANCE_NOTIFY_ROLES == {"super-admin", "manager-admin", "staff-admin"}

adminIds == {u \in BellUser : userActive[u] /\ RoleOf[u] \in ADMIN_NOTIFY_ROLES}
financeIds == {u \in BellUser : userActive[u] /\ RoleOf[u] \in FINANCE_NOTIFY_ROLES}

activeAssigneeId ==
    IF assignment.status \in {"ACTIVE", "ACCEPTED"} THEN {assignment.rep} ELSE {}

\* Mutant: only an administrator whose account is active.
assigningAdminId_Active ==
    IF assignLog = <<>> THEN {} ELSE {assignLog[Len(assignLog)]} \cap adminIds

assigningAdminId == IF assignLog = <<>> THEN {} ELSE {assignLog[Len(assignLog)]}

\* How often each user is to be written to: once, for a set of users.
Once(S) == [u \in BellUser |-> IF u \in S THEN 1 ELSE 0]

backOffice == Once(adminIds \cup financeIds)

\* What the loop of dispatch d runs over at its stage s.
Audience(d, s) ==
    CASE s = "subject" -> Once({d.subject})
      [] s = "admins" -> Once(adminIds)
      [] s = "finance" -> Once(financeIds)
      [] s = "other finance" -> Once(financeIds \ {d.subject})
      [] s = "back office" -> backOffice
      [] s = "other back office" -> [backOffice EXCEPT ![d.subject] = 0]
      [] s = "assignee" -> Once(activeAssigneeId \ {d.subject})
      [] s = "new assignee" -> Once({d.new})
      [] s = "old assignee" -> Once({d.old} \ {d.new})
      [] s = "assigning admin" -> Once(assigningAdminId)
      [] s = "assigning admin or all" ->
            Once(IF assigningAdminId = {} THEN adminIds ELSE assigningAdminId)

\* The events, each with the stages of its dispatch.  paymentRemainderDue writes nothing for
\* a ticket that is paid: the ticket of a behaviour is not.
ticketCreated               == <<"subject", "admins">>
ticketStatusChanged         == <<"subject", "assignee">>
ticketAssigned              == <<"new assignee">>
ticketReassigned            == <<"new assignee", "old assignee">>
ticketAssignmentAccepted    == <<"assigning admin or all">>
ticketAssignmentRejected    == <<"assigning admin">>
ticketClerkCostsSubmitted   == <<"back office">>
ticketClerkReceiptSubmitted == <<"back office">>
ticketDispatched            == <<"admins">>
ticketDocumentUploaded      == <<"subject">>
ticketEdited                == <<"subject">>
ticketRegenerated           == <<"subject">>
paymentCompleted            == <<"subject", "other finance">>
walletTopupCreated          == <<"subject", "other finance">>
walletTopupDecided          == <<"subject">>
walletReceiptUploaded       == <<"finance">>
paymentSubmitted            == <<"subject", "other back office">>
paymentDecided              == <<"subject">>
paymentRemainderDue         == <<"subject">>
caseCreated                 == <<"subject">>
caseStatusChanged           == <<"subject">>
caseDriftDetected           == <<"admins">>
authPasswordChanged         == <<"subject">>
caseFileUploaded            == <<"admins">>

Stages == [
    ticketCreated |-> ticketCreated, ticketStatusChanged |-> ticketStatusChanged,
    ticketAssigned |-> ticketAssigned, ticketReassigned |-> ticketReassigned,
    ticketAssignmentAccepted |-> ticketAssignmentAccepted,
    ticketAssignmentRejected |-> ticketAssignmentRejected,
    ticketClerkCostsSubmitted |-> ticketClerkCostsSubmitted,
    ticketClerkReceiptSubmitted |-> ticketClerkReceiptSubmitted,
    ticketDispatched |-> ticketDispatched, ticketDocumentUploaded |-> ticketDocumentUploaded,
    ticketEdited |-> ticketEdited, ticketRegenerated |-> ticketRegenerated,
    paymentCompleted |-> paymentCompleted, walletTopupCreated |-> walletTopupCreated,
    walletTopupDecided |-> walletTopupDecided, walletReceiptUploaded |-> walletReceiptUploaded,
    paymentSubmitted |-> paymentSubmitted, paymentDecided |-> paymentDecided,
    paymentRemainderDue |-> paymentRemainderDue, caseCreated |-> caseCreated,
    caseStatusChanged |-> caseStatusChanged, caseDriftDetected |-> caseDriftDetected,
    authPasswordChanged |-> authPasswordChanged, caseFileUploaded |-> caseFileUploaded]
BellEvent == DOMAIN Stages

\* Events of a top-up or a password are about any account, the others about the ticket.
Subjects(e) ==
    CASE e \in {"walletTopupCreated", "walletTopupDecided"} ->
            {u \in BellUser : "wallet.topup" \in ROLE_PERMISSIONS[RoleOf[u]]}
      [] e = "authPasswordChanged" -> BellUser
      [] OTHER -> {TicketOwner}

-----------------------------------------------------------------------------
\* A dispatch.  steady: the accounts active since it began; logged: whether the audit log
\* had the row of the assignment that is turned down.
Dispatch == [event : BellEvent, subject : BellUser, new : BellUser \cup {NoUser},
             old : BellUser \cup {NoUser}, stage : Nat, todo : [BellUser -> Nat],
             sent : [BellUser -> Nat], state : {"running", "done", "failed"},
             steady : SUBSET BellUser, logged : BOOLEAN]

Starting(e, who, new, old) ==
    [event |-> e, subject |-> who, new |-> new, old |-> old, stage |-> 0, todo |-> Once({}),
     sent |-> Once({}), state |-> "running", steady |-> {u \in BellUser : userActive[u]},
     logged |-> unlogged = {}]

Dispatches(e) ==
    /\ Len(dispatches) < bellScene.limit
    /\ Cardinality({i \in 1..Len(dispatches) : dispatches[i].state = "running"}) < AtOnceLimit
    /\ e \in bellScene.events

BellInit ==
    /\ bellScene \in BellScenes
    /\ userActive = [u \in BellUser |-> TRUE]
    /\ turns = 0
    /\ assignment = [rep |-> NoUser, status |-> "none", ticket |-> "PAID"]
    /\ assignLog = <<>>
    /\ unlogged = {}
    /\ dispatches = <<>>

\* An event whose operation is not modelled here.
Raise(e, who) ==
    /\ e \notin {"ticketAssigned", "ticketReassigned", "ticketAssignmentAccepted",
                 "ticketAssignmentRejected", "ticketStatusChanged"}
    /\ Dispatches(e)
    /\ dispatches' = Append(dispatches, Starting(e, who, NoUser, NoUser))
    /\ UNCHANGED <<bellScene, userActive, turns, assignment, assignLog, unlogged>>

\* The next stage: its audience is read now.
NextStage(i) ==
    LET d == dispatches[i] IN
    /\ d.state = "running" /\ \A u \in BellUser : d.todo[u] = 0
    /\ dispatches' =
         IF d.stage = Len(Stages[d.event])
         THEN [dispatches EXCEPT ![i].state = "done"]
         ELSE [dispatches EXCEPT
                ![i].stage = d.stage + 1,
                ![i].todo = Audience(d, Stages[d.event][d.stage + 1])]
    /\ UNCHANGED <<bellScene, userActive, turns, assignment, assignLog, unlogged>>

\* notifications.create: the row of one user, and the push to the tabs of that user.
Create(i, u) ==
    /\ dispatches[i].state = "running" /\ dispatches[i].todo[u] > 0
    /\ dispatches' = [dispatches EXCEPT ![i].todo[u] = @ - 1, ![i].sent[u] = @ + 1]
    /\ UNCHANGED <<bellScene, userActive, turns, assignment, assignLog, unlogged>>

\* The database refuses a row or a query; the caller's catch ignores the error.
CreateFails(i) ==
    /\ bellScene.faults
    /\ dispatches[i].state = "running"
    /\ dispatches' = [dispatches EXCEPT ![i].state = "failed"]
    /\ UNCHANGED <<bellScene, userActive, turns, assignment, assignLog, unlogged>>

\* users.deactivate and users.activate.
Turn(u) ==
    /\ turns < bellScene.turns
    /\ u # TicketOwner
    /\ userActive' = [userActive EXCEPT ![u] = ~@]
    /\ turns' = turns + 1
    /\ dispatches' = [i \in 1..Len(dispatches) |->
                        [dispatches[i] EXCEPT !.steady = @ \ {u}]]
    /\ UNCHANGED <<bellScene, assignment, assignLog, unlogged>>

-----------------------------------------------------------------------------
\* The assignment of the ticket.

\* assign, as far as its transaction: a ticket not under way, an active representative.
\* The representative it takes the ticket from was read before.
Assign(admin, rep) ==
    /\ "ticketAssigned" \in bellScene.events
    /\ userActive[admin] /\ userActive[rep]
    /\ assignment.ticket = "PAID"
    /\ unlogged' = unlogged \cup
         {[admin |-> admin, rep |-> rep,
           prior |-> IF assignment.status = "ACTIVE" THEN assignment.rep ELSE NoUser]}
    /\ Len(assignLog) + Cardinality(unlogged') <= bellScene.limit
    /\ assignment' = [rep |-> rep, status |-> "ACTIVE", ticket |-> "ASSIGNED"]
    /\ UNCHANGED <<bellScene, userActive, turns, assignLog, dispatches>>

\* assign, from its audit row on.
AssignLogged(a) ==
    LET e == IF a.prior \notin {NoUser, a.rep} THEN "ticketReassigned" ELSE "ticketAssigned"
    IN
    /\ Dispatches(e)
    /\ a \in unlogged
    /\ unlogged' = unlogged \ {a}
    /\ assignLog' = Append(assignLog, a.admin)
    /\ dispatches' = Append(dispatches, Starting(e, TicketOwner, a.rep, a.prior))
    /\ UNCHANGED <<bellScene, userActive, turns, assignment>>

\* acceptAssignment, by the representative of the active assignment.
AcceptAssignment ==
    /\ Dispatches("ticketAssignmentAccepted")
    /\ assignment.ticket = "ASSIGNED" /\ assignment.status = "ACTIVE"
    /\ assignment' = [assignment EXCEPT !.status = "ACCEPTED", !.ticket = "IN_PROGRESS"]
    /\ dispatches' = Append(dispatches,
                       Starting("ticketAssignmentAccepted", TicketOwner, NoUser, NoUser))
    /\ UNCHANGED <<bellScene, userActive, turns, assignLog, unlogged>>

\* rejectAssignment: the dispatcher is called only when there was an active assignment.
RejectAssignment ==
    /\ Dispatches("ticketAssignmentRejected")
    /\ assignment.ticket = "ASSIGNED"
    /\ assignment' = [assignment EXCEPT
         !.status = IF @ = "ACTIVE" THEN "REJECTED" ELSE @, !.ticket = "PAID"]
    /\ dispatches' = IF assignment.status # "ACTIVE" THEN dispatches
                     ELSE Append(dispatches,
                            Starting("ticketAssignmentRejected", TicketOwner, NoUser, NoUser))
    /\ UNCHANGED <<bellScene, userActive, turns, assignLog, unlogged>>

\* updateStatus, one step on; the assignment stays.  Later statuses tell nothing new.
UpdateStatus ==
    /\ Dispatches("ticketStatusChanged")
    /\ assignment' = [assignment EXCEPT
         !.ticket = IF @ = "PAID" THEN "ASSIGNED" ELSE "IN_PROGRESS"]
    /\ assignment.ticket # "IN_PROGRESS"
    /\ dispatches' = Append(dispatches,
                       Starting("ticketStatusChanged", TicketOwner, NoUser, NoUser))
    /\ UNCHANGED <<bellScene, userActive, turns, assignLog, unlogged>>

\* overrideStatus: a super-admin sends the ticket back.  Its assignment stays, and nobody
\* is told.
OverrideStatus ==
    /\ bellScene.overrides
    /\ assignment.ticket # "PAID"
    /\ assignment' = [assignment EXCEPT !.ticket = "PAID"]
    /\ UNCHANGED <<bellScene, userActive, turns, assignLog, unlogged, dispatches>>

BellNext ==
    \/ \E e \in BellEvent : \E who \in Subjects(e) : Raise(e, who)
    \/ \E i \in 1..Len(dispatches) :
         NextStage(i) \/ CreateFails(i) \/ \E u \in BellUser : Create(i, u)
    \/ \E u \in BellUser : Turn(u)
    \/ \E admin \in TicketAdmin, rep \in BellRep : Assign(admin, rep)
    \/ \E a \in unlogged : AssignLogged(a)
    \/ AcceptAssignment \/ RejectAssignment \/ UpdateStatus \/ OverrideStatus

BellSpec == BellInit /\ [][BellNext]_bellVars

-----------------------------------------------------------------------------
\* Properties.

\* One bell for each: no dispatch writes twice to the same account, although the two
\* audiences of the back office overlap and the payer may belong to one of them.
OneBellEach == \A i \in 1..Len(dispatches), u \in BellUser : dispatches[i].sent[u] =< 1

\* What an event waits for: the permission in front of the decision on it.
AwaitedPermission(e) ==
    CASE e \in {"walletTopupCreated", "paymentSubmitted", "walletReceiptUploaded"} -> "wallet.write"
      [] e \in {"ticketCreated", "ticketDispatched"} -> "tickets.write"
      [] e \in {"ticketClerkCostsSubmitted", "ticketClerkReceiptSubmitted"} -> "finance.write"
      [] e = "caseDriftDetected" -> "cases.write"
      [] OTHER -> "none"

\* Deciders are told: a dispatch that runs to its end has written to every member of the
\* back office who could decide on its event (verify the payment, assign the ticket, confirm
\* the delivery, complete the review, resolve the drift) and was active all the while.
DecidersAreTold ==
    \A i \in 1..Len(dispatches) :
        LET d == dispatches[i] IN
        d.state = "done" =>
            \A u \in d.steady :
                RoleOf[u] \in StaffRole
                /\ AwaitedPermission(d.event) \in ROLE_PERMISSIONS[RoleOf[u]]
                => d.sent[u] = 1

\* A refusal is heard: when the audit log already had the assignment that a representative
\* turned down, the finished dispatch has told someone who had assigned the ticket, even
\* when other assignments and deactivations came in between.
RefusalIsHeard ==
    \A i \in 1..Len(dispatches) :
        LET d == dispatches[i] IN
        d.event = "ticketAssignmentRejected" /\ d.state = "done" /\ d.logged =>
            \E u \in BellUser : d.sent[u] = 1 /\ \E n \in 1..Len(assignLog) : assignLog[n] = u

\* Whoever has to act on an event hears of it once: no account gets a second bell, every
\* steady decider of a finished dispatch has one, and a refusal reaches an assigner.
BellsAreHeard ==
    dispatches \in Seq(Dispatch) /\ OneBellEach /\ DecidersAreTold /\ RefusalIsHeard
=============================================================================
