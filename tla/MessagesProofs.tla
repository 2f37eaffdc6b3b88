--------------------------- MODULE MessagesProofs ---------------------------
(***************************************************************************)
(* Proofs about what reaches a user: the notifications of Notifications,   *)
(* for any accounts and roles, any number of dispatches that overlap, fail *)
(* or are overtaken by deactivations, and any history of assignments; the  *)
(* figures of OfficeSummary, for any tickets and requests; the tours of    *)
(* Tours, for any scenes, releases, mounts, plays and failures; the        *)
(* webhooks of PaymentGateway, for any payments and requests; and the bell *)
(* of BellTab, for any number of rows, requests and page loads.            *)
(***************************************************************************)
EXTENDS PaymentGateway, Notifications, BellTab, OfficeSummary, Tours, SequenceTheorems,
        SumTheorems

-----------------------------------------------------------------------------
\* Notifications.

\* A bell that was written or is about to be.
Bell(d, u) == d.sent[u] + d.todo[u]

\* The first audience of a dispatch that has two.
Opener(d) == IF Stages[d.event][1] = "subject" THEN d.subject ELSE d.new

\* An account that decides on the event.
Decides(d, u) ==
    RoleOf[u] \in StaffRole /\ AwaitedPermission(d.event) \in ROLE_PERMISSIONS[RoleOf[u]]

\* A dispatch under the accounts active and the audit log.  Nobody has two bells; before
\* the second audience only the first has one; after the last, every steady decider has one;
\* and a refusal with a log has somebody of the log.
DispatchIsGood(d, active, log) ==
    /\ d.stage \in 0..Len(Stages[d.event])
    /\ d.subject \in Subjects(d.event)
    /\ \A u \in BellUser : Bell(d, u) <= 1
    /\ d.stage = 0 => \A u \in BellUser : Bell(d, u) = 0
    /\ d.stage = 1 /\ Len(Stages[d.event]) = 2 =>
          \A u \in BellUser : Bell(d, u) = IF u = Opener(d) THEN 1 ELSE 0
    /\ d.state = "done" =>
          d.stage = Len(Stages[d.event]) /\ \A u \in BellUser : d.todo[u] = 0
    /\ \A u \in d.steady : active[u]
    /\ d.stage = Len(Stages[d.event]) => \A u \in d.steady : Decides(d, u) => Bell(d, u) = 1
    /\ d.event = "ticketAssignmentRejected" /\ d.logged =>
         /\ log # <<>>
         /\ d.stage = 1 =>
              \E u \in BellUser : Bell(d, u) = 1 /\ \E n \in 1..Len(log) : log[n] = u

IsAssignment(a) ==
    /\ a.rep \in BellUser \cup {NoUser}
    /\ a = [rep |-> a.rep, status |-> a.status, ticket |-> a.ticket]

\* The inductive invariant.
BInv ==
    /\ userActive \in [BellUser -> BOOLEAN]
    /\ IsAssignment(assignment)
    /\ assignLog \in Seq(BellUser)
    /\ \A a \in unlogged : a.admin \in BellUser /\ a.rep \in BellUser
                           /\ a.prior \in BellUser \cup {NoUser}
    /\ assignment.status = "ACTIVE" => unlogged # {} \/ assignLog # <<>>
    /\ dispatches \in Seq(Dispatch)
    /\ \A i \in 1..Len(dispatches) : DispatchIsGood(dispatches[i], userActive, assignLog)

AudienceName == {"subject", "admins", "finance", "other finance", "back office",
                 "other back office", "assignee", "new assignee", "old assignee",
                 "assigning admin", "assigning admin or all"}

\* The table of the stages, event by event: one audience or two, and which two.
OneStage == {<<"subject">>, <<"admins">>, <<"finance">>, <<"back office">>, <<"new assignee">>,
             <<"assigning admin">>, <<"assigning admin or all">>}

TwoStages == {<<"subject", "admins">>, <<"subject", "assignee">>,
              <<"new assignee", "old assignee">>, <<"subject", "other finance">>,
              <<"subject", "other back office">>}

LEMMA StageShapes ==
    /\ \A s \in OneStage : s \in Seq(AudienceName) /\ Len(s) = 1
    /\ \A s \in TwoStages :
          /\ s \in Seq(AudienceName) /\ Len(s) = 2
          /\ \/ s[1] = "subject" /\ s[2] \in {"admins", "assignee", "other finance",
                                                 "other back office"}
             \/ s[1] = "new assignee" /\ s[2] = "old assignee"
  <1>1. \A x \in AudienceName : <<x>> \in Seq(AudienceName) /\ Len(<<x>>) = 1
    OBVIOUS
  <1>2. \A x, y \in AudienceName : <<x, y>> \in Seq(AudienceName) /\ Len(<<x, y>>) = 2
    OBVIOUS
  <1>3. \A s \in OneStage : \E x \in AudienceName : s = <<x>>
    BY DEF OneStage, AudienceName
  <1>4. \A s \in TwoStages : \E x, y \in AudienceName : s = <<x, y>>
    BY DEF TwoStages, AudienceName
  <1>5. \A s \in TwoStages :
          \/ s[1] = "subject" /\ s[2] \in {"admins", "assignee", "other finance",
                                                 "other back office"}
          \/ s[1] = "new assignee" /\ s[2] = "old assignee"
    <2> SUFFICES ASSUME NEW s \in TwoStages
                 PROVE  \/ /\ s[1] = "subject"
                           /\ s[2] \in {"admins", "assignee", "other finance", "other back office"}
                        \/ s[1] = "new assignee" /\ s[2] = "old assignee"
      OBVIOUS
    <2>1. CASE s = <<"subject", "admins">>
      BY <2>1
    <2>2. CASE s = <<"subject", "assignee">>
      BY <2>2
    <2>3. CASE s = <<"new assignee", "old assignee">>
      BY <2>3
    <2>4. CASE s = <<"subject", "other finance">>
      BY <2>4
    <2>5. CASE s = <<"subject", "other back office">>
      BY <2>5
    <2> QED BY <2>1, <2>2, <2>3, <2>4, <2>5 DEF TwoStages
  <1> QED BY <1>1, <1>2, <1>3, <1>4, <1>5

\* The table of the stages, event by event: one audience or two, and which two.
LEMMA StagesAre ==
    ASSUME NEW e \in BellEvent
    PROVE  /\ Stages[e] \in Seq(AudienceName)
           /\ \/ Stages[e] \in OneStage /\ Len(Stages[e]) = 1
              \/ Stages[e] \in TwoStages /\ Len(Stages[e]) = 2
           /\ e # "ticketCreated" /\ Len(Stages[e]) = 2 => Stages[e][2] # "admins"
  <1>1. BellEvent = {"ticketCreated", "ticketStatusChanged", "ticketAssigned",
                     "ticketReassigned", "ticketAssignmentAccepted",
                     "ticketAssignmentRejected", "ticketClerkCostsSubmitted",
                     "ticketClerkReceiptSubmitted", "ticketDispatched",
                     "ticketDocumentUploaded", "ticketEdited", "ticketRegenerated",
                     "paymentCompleted", "walletTopupCreated", "walletTopupDecided",
                     "walletReceiptUploaded", "paymentSubmitted", "paymentDecided",
                     "paymentRemainderDue", "caseCreated", "caseStatusChanged",
                     "caseDriftDetected", "authPasswordChanged", "caseFileUploaded"}
    BY DEF BellEvent, Stages
  <1>2. /\ Stages["ticketCreated"] = <<"subject", "admins">>
        /\ Stages["ticketStatusChanged"] = <<"subject", "assignee">>
        /\ Stages["ticketAssigned"] = <<"new assignee">>
        /\ Stages["ticketReassigned"] = <<"new assignee", "old assignee">>
        /\ Stages["ticketAssignmentAccepted"] = <<"assigning admin or all">>
        /\ Stages["ticketAssignmentRejected"] = <<"assigning admin">>
        /\ Stages["ticketClerkCostsSubmitted"] = <<"back office">>
        /\ Stages["ticketClerkReceiptSubmitted"] = <<"back office">>
        /\ Stages["ticketDispatched"] = <<"admins">>
        /\ Stages["ticketDocumentUploaded"] = <<"subject">>
        /\ Stages["ticketEdited"] = <<"subject">>
        /\ Stages["ticketRegenerated"] = <<"subject">>
        /\ Stages["paymentCompleted"] = <<"subject", "other finance">>
        /\ Stages["walletTopupCreated"] = <<"subject", "other finance">>
        /\ Stages["walletTopupDecided"] = <<"subject">>
        /\ Stages["walletReceiptUploaded"] = <<"finance">>
        /\ Stages["paymentSubmitted"] = <<"subject", "other back office">>
        /\ Stages["paymentDecided"] = <<"subject">>
        /\ Stages["paymentRemainderDue"] = <<"subject">>
        /\ Stages["caseCreated"] = <<"subject">>
        /\ Stages["caseStatusChanged"] = <<"subject">>
        /\ Stages["caseDriftDetected"] = <<"admins">>
        /\ Stages["authPasswordChanged"] = <<"subject">>
        /\ Stages["caseFileUploaded"] = <<"admins">>
    BY DEF Stages, ticketCreated, ticketStatusChanged, ticketAssigned, ticketReassigned,
           ticketAssignmentAccepted, ticketAssignmentRejected, ticketClerkCostsSubmitted,
           ticketClerkReceiptSubmitted, ticketDispatched, ticketDocumentUploaded,
           ticketEdited, ticketRegenerated, paymentCompleted, walletTopupCreated,
           walletTopupDecided, walletReceiptUploaded, paymentSubmitted, paymentDecided,
           paymentRemainderDue, caseCreated, caseStatusChanged, caseDriftDetected,
           authPasswordChanged, caseFileUploaded
  <1>3. e \in {"ticketAssigned", "ticketAssignmentAccepted", "ticketAssignmentRejected",
             "ticketClerkCostsSubmitted", "ticketClerkReceiptSubmitted",
             "ticketDispatched", "ticketDocumentUploaded", "ticketEdited",
             "ticketRegenerated", "walletTopupDecided", "walletReceiptUploaded",
             "paymentDecided", "paymentRemainderDue", "caseCreated", "caseStatusChanged",
             "caseDriftDetected", "authPasswordChanged", "caseFileUploaded"}
        => Stages[e] \in OneStage
    BY <1>2 DEF OneStage
  <1>4. e \in {"ticketStatusChanged", "ticketReassigned", "paymentCompleted", "walletTopupCreated",
               "paymentSubmitted"}
        => Stages[e] \in TwoStages /\ Stages[e][2] # "admins"
    <2>1. \A x \in {"ticketStatusChanged", "ticketReassigned", "paymentCompleted",
                    "walletTopupCreated", "paymentSubmitted"} : Stages[x] \in TwoStages
      BY <1>2 DEF TwoStages
    <2>2. /\ Stages["ticketStatusChanged"][2] = "assignee"
          /\ Stages["ticketReassigned"][2] = "old assignee"
          /\ Stages["paymentCompleted"][2] = "other finance"
          /\ Stages["walletTopupCreated"][2] = "other finance"
          /\ Stages["paymentSubmitted"][2] = "other back office"
      BY DEF Stages, ticketStatusChanged, ticketReassigned, paymentCompleted,
             walletTopupCreated, paymentSubmitted
    <2> QED BY <2>1, <2>2
  <1>5. e = "ticketCreated" => Stages[e] \in TwoStages
    BY <1>2 DEF TwoStages
  <1>6. e \in {"ticketAssigned", "ticketAssignmentAccepted", "ticketAssignmentRejected",
             "ticketClerkCostsSubmitted", "ticketClerkReceiptSubmitted",
             "ticketDispatched", "ticketDocumentUploaded", "ticketEdited",
             "ticketRegenerated", "walletTopupDecided", "walletReceiptUploaded",
             "paymentDecided", "paymentRemainderDue", "caseCreated", "caseStatusChanged",
             "caseDriftDetected", "authPasswordChanged", "caseFileUploaded"}
        \/ e \in {"ticketStatusChanged", "ticketReassigned", "paymentCompleted",
                  "walletTopupCreated", "paymentSubmitted"}
        \/ e = "ticketCreated"
    BY <1>1
  <1>7. Stages[e] \in OneStage => Stages[e] \in Seq(AudienceName) /\ Len(Stages[e]) = 1
    BY StageShapes
  <1>8. Stages[e] \in TwoStages => Stages[e] \in Seq(AudienceName) /\ Len(Stages[e]) = 2
    BY StageShapes
  <1> QED BY <1>3, <1>4, <1>5, <1>6, <1>7, <1>8

\* The events somebody decides on, and the audience they end with.
LEMMA AwaitedAre ==
    ASSUME NEW e \in BellEvent
    PROVE  \/ AwaitedPermission(e) = "none"
           \/ /\ AwaitedPermission(e) \in {"wallet.write", "finance.write"}
              /\ \/ Len(Stages[e]) = 1 /\ Stages[e][1] \in {"finance", "back office"}
                 \/ /\ Len(Stages[e]) = 2 /\ Stages[e][1] = "subject"
                    /\ Stages[e][2] \in {"other finance", "other back office"}
           \/ /\ AwaitedPermission(e) \in {"tickets.write", "cases.write"}
              /\ \/ Len(Stages[e]) = 1 /\ Stages[e][1] = "admins"
                 \/ Len(Stages[e]) = 2 /\ Stages[e][1] = "subject" /\ Stages[e][2] = "admins"
  <1>1. /\ e \in {"walletTopupCreated", "paymentSubmitted", "walletReceiptUploaded"} =>
             AwaitedPermission(e) = "wallet.write"
        /\ e \in {"ticketCreated", "ticketDispatched"} => AwaitedPermission(e) = "tickets.write"
        /\ e \in {"ticketClerkCostsSubmitted", "ticketClerkReceiptSubmitted"} =>
             AwaitedPermission(e) = "finance.write"
        /\ e = "caseDriftDetected" => AwaitedPermission(e) = "cases.write"
        /\ \/ e \in {"walletTopupCreated", "paymentSubmitted", "walletReceiptUploaded",
                     "ticketCreated", "ticketDispatched", "ticketClerkCostsSubmitted",
                     "ticketClerkReceiptSubmitted", "caseDriftDetected"}
           \/ AwaitedPermission(e) = "none"
    BY DEF AwaitedPermission
  <1>2. /\ Len(Stages["walletTopupCreated"]) = 2 /\ Stages["walletTopupCreated"][1] = "subject"
        /\ Stages["walletTopupCreated"][2] = "other finance"
        /\ Len(Stages["paymentSubmitted"]) = 2 /\ Stages["paymentSubmitted"][1] = "subject"
        /\ Stages["paymentSubmitted"][2] = "other back office"
    BY DEF Stages, walletTopupCreated, paymentSubmitted
  <1>3. /\ Len(Stages["walletReceiptUploaded"]) = 1
        /\ Stages["walletReceiptUploaded"][1] = "finance"
        /\ Len(Stages["ticketClerkCostsSubmitted"]) = 1
        /\ Stages["ticketClerkCostsSubmitted"][1] = "back office"
        /\ Len(Stages["ticketClerkReceiptSubmitted"]) = 1
        /\ Stages["ticketClerkReceiptSubmitted"][1] = "back office"
    BY DEF Stages, walletReceiptUploaded, ticketClerkCostsSubmitted, ticketClerkReceiptSubmitted
  <1>4. /\ Len(Stages["ticketCreated"]) = 2 /\ Stages["ticketCreated"][1] = "subject"
        /\ Stages["ticketCreated"][2] = "admins"
        /\ Len(Stages["ticketDispatched"]) = 1 /\ Stages["ticketDispatched"][1] = "admins"
        /\ Len(Stages["caseDriftDetected"]) = 1 /\ Stages["caseDriftDetected"][1] = "admins"
    BY DEF Stages, ticketCreated, ticketDispatched, caseDriftDetected
  <1>5. CASE e \in {"walletTopupCreated", "paymentSubmitted", "walletReceiptUploaded"}
    <2>1. AwaitedPermission(e) = "wallet.write"
      BY <1>1, <1>5
    <2> QED BY <1>2, <1>3, <1>5, <2>1
  <1>6. CASE e \in {"ticketClerkCostsSubmitted", "ticketClerkReceiptSubmitted"}
    <2>1. AwaitedPermission(e) = "finance.write"
      BY <1>1, <1>6
    <2> QED BY <1>3, <1>6, <2>1
  <1>7. CASE e \in {"ticketCreated", "ticketDispatched", "caseDriftDetected"}
    <2>1. AwaitedPermission(e) \in {"tickets.write", "cases.write"}
      BY <1>1, <1>7
    <2> QED BY <1>4, <1>7, <2>1
  <1> QED BY <1>1, <1>5, <1>6, <1>7

LEMMA RejectionIs ==
    /\ Len(Stages["ticketAssignmentRejected"]) = 1
    /\ Stages["ticketAssignmentRejected"][1] = "assigning admin"
  BY DEF BellEvent, Stages, ticketAssignmentRejected

\* Of the back office only the lead administrators are no finance administrators, and they
\* may neither verify a payment nor review costs.
LEMMA DecidersAre ==
    ASSUME NEW r \in StaffRole
    PROVE  /\ r \in ADMIN_NOTIFY_ROLES
           /\ "none" \notin ROLE_PERMISSIONS[r]
           /\ ("wallet.write" \in ROLE_PERMISSIONS[r] \/ "finance.write" \in ROLE_PERMISSIONS[r])
                => r \in FINANCE_NOTIFY_ROLES
  <1>1. r \in ADMIN_NOTIFY_ROLES
    BY DEF StaffRole, ADMIN_NOTIFY_ROLES
  <1>2. "none" \notin ROLE_PERMISSIONS[r]
    BY DEF StaffRole, Role, ROLE_PERMISSIONS, PERMISSIONS
  <1>3. ASSUME r \notin FINANCE_NOTIFY_ROLES
        PROVE  /\ "wallet.write" \notin ROLE_PERMISSIONS[r]
               /\ "finance.write" \notin ROLE_PERMISSIONS[r]
    <2>1. r = "lead-admin" /\ r \in Role
      BY <1>3 DEF StaffRole, FINANCE_NOTIFY_ROLES, Role
    <2> QED BY <2>1 DEF ROLE_PERMISSIONS
  <1> QED BY <1>1, <1>2, <1>3

\* Whom each stage writes to.
LEMMA AudienceIs ==
    ASSUME NEW d \in Dispatch, NEW s \in AudienceName,
           userActive \in [BellUser -> BOOLEAN], assignLog \in Seq(BellUser)
    PROVE  /\ Audience(d, s) \in [BellUser -> {0, 1}]
           /\ s = "subject" =>
                \A u \in BellUser : Audience(d, s)[u] = IF u = d.subject THEN 1 ELSE 0
           /\ s = "new assignee" =>
                \A u \in BellUser : Audience(d, s)[u] = IF u = d.new THEN 1 ELSE 0
           /\ s = "old assignee" => \A u \in BellUser : u = d.new => Audience(d, s)[u] = 0
           /\ s \in {"other finance", "other back office", "assignee"} =>
                Audience(d, s)[d.subject] = 0
           /\ s = "admins" =>
                \A u \in BellUser : Audience(d, s)[u] = IF u \in adminIds THEN 1 ELSE 0
           /\ s \in {"finance", "back office"} => \A u \in financeIds : Audience(d, s)[u] = 1
           /\ s \in {"other finance", "other back office"} =>
                \A u \in financeIds : u # d.subject => Audience(d, s)[u] = 1
           /\ s = "assigning admin" /\ assignLog # <<>> =>
                Audience(d, s)[assignLog[Len(assignLog)]] = 1
  <1> DEFINE Au == Audience(d, s)
  <1>1. /\ adminIds \subseteq BellUser /\ financeIds \subseteq BellUser
        /\ d.subject \in BellUser
    BY DEF adminIds, financeIds, Dispatch
  <1>2. \A S : /\ Once(S) \in [BellUser -> {0, 1}]
               /\ \A u \in BellUser : Once(S)[u] = IF u \in S THEN 1 ELSE 0
    BY DEF Once
  <1>3. CASE s = "subject"
    <2>1. Au = Once({d.subject})
      BY <1>3 DEF Audience
    <2>2. /\ Au \in [BellUser -> {0, 1}]
          /\ \A u \in BellUser : Au[u] = IF u \in ({d.subject}) THEN 1 ELSE 0
      BY <1>2, <2>1
    <2> QED BY <1>1, <1>3, <2>2
  <1>4. CASE s = "admins"
    <2>1. Au = Once(adminIds)
      BY <1>4 DEF Audience
    <2>2. /\ Au \in [BellUser -> {0, 1}]
          /\ \A u \in BellUser : Au[u] = IF u \in (adminIds) THEN 1 ELSE 0
      BY <1>2, <2>1
    <2> QED BY <1>1, <1>4, <2>2
  <1>5. CASE s = "finance"
    <2>1. Au = Once(financeIds)
      BY <1>5 DEF Audience
    <2>2. /\ Au \in [BellUser -> {0, 1}]
          /\ \A u \in BellUser : Au[u] = IF u \in (financeIds) THEN 1 ELSE 0
      BY <1>2, <2>1
    <2> QED BY <1>1, <1>5, <2>2
  <1>6. CASE s = "other finance"
    <2>1. Au = Once(financeIds \ {d.subject})
      BY <1>6 DEF Audience
    <2>2. /\ Au \in [BellUser -> {0, 1}]
          /\ \A u \in BellUser : Au[u] = IF u \in (financeIds \ {d.subject}) THEN 1 ELSE 0
      BY <1>2, <2>1
    <2> QED BY <1>1, <1>6, <2>2
  <1>7. CASE s = "back office"
    <2>1. Au = Once(adminIds \cup financeIds)
      BY <1>7 DEF Audience, backOffice
    <2>2. /\ Au \in [BellUser -> {0, 1}]
          /\ \A u \in BellUser : Au[u] = IF u \in (adminIds \cup financeIds) THEN 1 ELSE 0
      BY <1>2, <2>1
    <2> QED BY <1>1, <1>7, <2>2
  <1>8. CASE s = "other back office"
    <2>1. Au = [Once(adminIds \cup financeIds) EXCEPT ![d.subject] = 0]
      BY <1>8 DEF Audience, backOffice
    <2>2. /\ Au \in [BellUser -> {0, 1}] /\ Au[d.subject] = 0
          /\ \A u \in BellUser \ {d.subject} : Once(adminIds \cup financeIds)[u] = Au[u]
      BY <1>1, <1>2, <2>1
    <2>3. \A u \in financeIds \ {d.subject} : Au[u] = 1
      BY <1>1, <1>2, <2>2
    <2> QED BY <1>8, <2>2, <2>3
  <1>9. CASE s = "assignee"
    <2>1. Au = Once(activeAssigneeId \ {d.subject})
      BY <1>9 DEF Audience
    <2>2. /\ Au \in [BellUser -> {0, 1}]
          /\ \A u \in BellUser : Au[u] = IF u \in (activeAssigneeId \ {d.subject}) THEN 1 ELSE 0
      BY <1>2, <2>1
    <2> QED BY <1>1, <1>9, <2>2
  <1>10. CASE s = "new assignee"
    <2>1. Au = Once({d.new})
      BY <1>10 DEF Audience
    <2>2. /\ Au \in [BellUser -> {0, 1}]
          /\ \A u \in BellUser : Au[u] = IF u \in ({d.new}) THEN 1 ELSE 0
      BY <1>2, <2>1
    <2> QED BY <1>1, <1>10, <2>2
  <1>11. CASE s = "old assignee"
    <2>1. Au = Once({d.old} \ {d.new})
      BY <1>11 DEF Audience
    <2>2. /\ Au \in [BellUser -> {0, 1}]
          /\ \A u \in BellUser : Au[u] = IF u \in ({d.old} \ {d.new}) THEN 1 ELSE 0
      BY <1>2, <2>1
    <2> QED BY <1>1, <1>11, <2>2
  <1>12. CASE s = "assigning admin"
    <2>1. Au = Once(assigningAdminId)
      BY <1>12 DEF Audience
    <2>2. assignLog # <<>> =>
            assignLog[Len(assignLog)] \in BellUser /\ assignLog[Len(assignLog)] \in assigningAdminId
      BY DEF assigningAdminId
    <2>3. /\ Au \in [BellUser -> {0, 1}]
          /\ \A u \in BellUser : Au[u] = IF u \in (assigningAdminId) THEN 1 ELSE 0
      BY <1>2, <2>1
    <2> QED BY <1>1, <1>12, <2>3, <2>2
  <1>13. CASE s = "assigning admin or all"
    <2>1. Au = Once(IF assigningAdminId = {} THEN adminIds ELSE assigningAdminId)
      BY <1>13 DEF Audience
    <2>2. /\ Au \in [BellUser -> {0, 1}]
          /\ \A u \in BellUser :
                Au[u] = IF u \in (IF assigningAdminId = {} THEN adminIds ELSE assigningAdminId)
                        THEN 1 ELSE 0
      BY <1>2, <2>1
    <2> QED BY <1>1, <1>13, <2>2
  <1> QED
    BY <1>3, <1>4, <1>5, <1>6, <1>7, <1>8, <1>9, <1>10, <1>11, <1>12, <1>13 DEF AudienceName

\* The columns of a dispatch that change.
LEMMA DispatchChanges ==
    ASSUME NEW d \in Dispatch
    PROVE  /\ \A n \in Nat, f \in [BellUser -> Nat] :
                [d EXCEPT !.stage = n, !.todo = f] \in Dispatch
           /\ \A f, g \in [BellUser -> Nat] : [d EXCEPT !.todo = f, !.sent = g] \in Dispatch
           /\ \A x \in {"running", "done", "failed"} : [d EXCEPT !.state = x] \in Dispatch
           /\ \A S : [d EXCEPT !.steady = @ \ S] \in Dispatch
  BY DEF Dispatch

\* A dispatch that has just begun.
LEMMA StartingIsGood ==
    ASSUME userActive \in [BellUser -> BOOLEAN],
           NEW e \in BellEvent, NEW who \in Subjects(e), who \in BellUser,
           NEW new \in BellUser \cup {NoUser}, NEW old \in BellUser \cup {NoUser}, NEW log,
           e = "ticketAssignmentRejected" /\ unlogged = {} => log # <<>>
    PROVE  /\ Starting(e, who, new, old) \in Dispatch
           /\ DispatchIsGood(Starting(e, who, new, old), userActive, log)
  <1> DEFINE d == Starting(e, who, new, old)
  <1>1. /\ Once({}) \in [BellUser -> Nat] /\ \A u \in BellUser : Once({})[u] = 0
    BY DEF Once
  <1>2. /\ d.event = e /\ d.subject = who /\ d.new = new /\ d.old = old /\ d.stage = 0
        /\ d.todo = Once({}) /\ d.sent = Once({}) /\ d.state = "running"
        /\ d.steady = {u \in BellUser : userActive[u]}
    BY DEF Starting
  <1>9. d.logged <=> unlogged = {}
    BY DEF Starting
  <1>3. d \in Dispatch
    BY <1>1 DEF Starting, Dispatch
  <1>4. Len(Stages[e]) \in {1, 2}
    BY StagesAre
  <1>5. \A u \in BellUser : Bell(d, u) = 0
    BY <1>1, <1>2 DEF Bell
  <1> HIDE DEF d
  <1>6. /\ d.stage \in 0..Len(Stages[e]) /\ d.stage # 1 /\ d.stage # Len(Stages[e])
        /\ \A u \in d.steady : userActive[u]
    <2>1. d.stage \in 0..Len(Stages[e]) /\ d.stage # 1 /\ d.stage # Len(Stages[e])
      <3>1. d.stage = 0
        BY <1>2
      <3>2. \A n \in {1, 2} : 0 \in 0..n /\ n # 0
        OBVIOUS
      <3> QED BY <1>4, <3>1, <3>2
    <2>2. \A u \in d.steady : userActive[u]
      BY <1>2
    <2> QED BY <2>1, <2>2
  <1>7. DispatchIsGood(d, userActive, log)
    BY <1>2, <1>5, <1>6, <1>9 DEF DispatchIsGood
  <1> QED BY <1>3, <1>7 DEF d

\* A decider that is active belongs to the audience of the administrators, and one who
\* decides on money to that of the finance administrators.
LEMMA DecidersAreActive ==
    ASSUME NEW d \in Dispatch, NEW u \in BellUser, userActive[u], Decides(d, u)
    PROVE  /\ u \in adminIds
           /\ AwaitedPermission(d.event) # "none"
           /\ AwaitedPermission(d.event) \in {"wallet.write", "finance.write"} => u \in financeIds
  <1>1. RoleOf[u] \in StaffRole /\ AwaitedPermission(d.event) \in ROLE_PERMISSIONS[RoleOf[u]]
    BY DEF Decides
  <1>2. RoleOf[u] \in ADMIN_NOTIFY_ROLES /\ AwaitedPermission(d.event) # "none"
    BY <1>1, DecidersAre
  <1>3. AwaitedPermission(d.event) \in {"wallet.write", "finance.write"} =>
          RoleOf[u] \in FINANCE_NOTIFY_ROLES
    BY <1>1, DecidersAre
  <1> QED BY <1>2, <1>3 DEF adminIds, financeIds

\* The two audiences of a dispatch: the first is one account, which the second leaves out.
LEMMA TwoAudiences ==
    ASSUME userActive \in [BellUser -> BOOLEAN], assignLog \in Seq(BellUser),
           NEW d \in Dispatch, d.subject \in Subjects(d.event), Len(Stages[d.event]) = 2
    PROVE  /\ \A u \in BellUser :
                Audience(d, Stages[d.event][1])[u] = IF u = Opener(d) THEN 1 ELSE 0
           /\ \A u \in BellUser : u = Opener(d) => Audience(d, Stages[d.event][2])[u] = 0
  <1> DEFINE S == Stages[d.event]
  <1>1. d.event \in BellEvent /\ d.subject \in BellUser
    BY DEF Dispatch
  <1>2. S \in TwoStages /\ S \in Seq(AudienceName)
        /\ (d.event # "ticketCreated" => S[2] # "admins")
    BY <1>1, StagesAre
  <1>3. /\ S[1] \in AudienceName /\ S[2] \in AudienceName
        /\ \/ S[1] = "subject" /\ S[2] \in {"admins", "assignee", "other finance",
                                               "other back office"}
           \/ S[1] = "new assignee" /\ S[2] = "old assignee"
    BY <1>2, StageShapes DEF AudienceName
  <1> HIDE DEF S
  <1>4. CASE S[1] = "subject"
    <2>1. Opener(d) = d.subject
      BY <1>4 DEF Opener, S
    <2>2. \A u \in BellUser : Audience(d, S[1])[u] = IF u = d.subject THEN 1 ELSE 0
      BY <1>3, <1>4, AudienceIs
    <2>3. Audience(d, S[2])[d.subject] = 0
      <3>1. CASE S[2] = "admins"
        <4>1. d.event = "ticketCreated"
          BY <1>2, <3>1
        <4>2. d.subject = TicketOwner
          BY <4>1 DEF Subjects
        <4>3. d.subject \notin adminIds
          BY <4>2, BellAssumption DEF adminIds, ADMIN_NOTIFY_ROLES, ConsumerRole
        <4>4. \A u \in BellUser : Audience(d, S[2])[u] = IF u \in adminIds THEN 1 ELSE 0
          BY <1>3, <3>1, AudienceIs
        <4> QED BY <1>1, <4>3, <4>4
      <3>2. CASE S[2] \in {"assignee", "other finance", "other back office"}
        BY <1>3, <3>2, AudienceIs
      <3> QED BY <1>3, <1>4, <3>1, <3>2
    <2> QED BY <2>1, <2>2, <2>3 DEF S
  <1>5. CASE S[1] = "new assignee" /\ S[2] = "old assignee"
    <2>1. Opener(d) = d.new
      BY <1>5 DEF Opener, S
    <2>2. \A u \in BellUser : Audience(d, S[1])[u] = IF u = d.new THEN 1 ELSE 0
      BY <1>3, <1>5, AudienceIs
    <2>3. \A u \in BellUser : u = d.new => Audience(d, S[2])[u] = 0
      BY <1>3, <1>5, AudienceIs
    <2> QED BY <2>1, <2>2, <2>3 DEF S
  <1> QED BY <1>3, <1>4, <1>5

\* The next stage of a dispatch: the two audiences never overlap, and the last one holds
\* every decider that has been active all the while.
LEMMA StageIsGood ==
    ASSUME userActive \in [BellUser -> BOOLEAN], assignLog \in Seq(BellUser),
           NEW d \in Dispatch, DispatchIsGood(d, userActive, assignLog),
           d.state = "running", d.stage # Len(Stages[d.event]),
           \A u \in BellUser : d.todo[u] = 0,
           NEW e, e = [d EXCEPT !.stage = d.stage + 1,
                                !.todo = Audience(d, Stages[d.event][d.stage + 1])]
    PROVE  e \in Dispatch /\ DispatchIsGood(e, userActive, assignLog)
  <1> DEFINE S == Stages[d.event]
             s == S[d.stage + 1]
             A == Audience(d, s)
  <1>1. /\ d.event \in BellEvent /\ d.subject \in BellUser /\ d.stage \in Nat
        /\ d.sent \in [BellUser -> Nat] /\ d.steady \subseteq BellUser
    BY DEF Dispatch
  <1>2. /\ S \in Seq(AudienceName)
        /\ \/ S \in OneStage /\ Len(S) = 1
           \/ S \in TwoStages /\ Len(S) = 2
    BY <1>1, StagesAre
  <1>3. d.stage \in 0..Len(S)
    BY DEF DispatchIsGood
  <1>4. \/ d.stage = 0 /\ Len(S) = 1
        \/ d.stage = 0 /\ Len(S) = 2
        \/ d.stage = 1 /\ Len(S) = 2
    <2>1. \A n \in {1, 2} : \A k \in 0..n : k # n => k = 0 \/ (k = 1 /\ n = 2)
      OBVIOUS
    <2>2. d.stage # Len(S)
      OBVIOUS
    <2> QED BY <1>2, <1>3, <2>1, <2>2
  <1>5. s \in AudienceName
    BY <1>2, <1>4
  <1> HIDE DEF A, s
  <1>6. A \in [BellUser -> {0, 1}]
    BY <1>1, <1>5, AudienceIs DEF A
  <1>7. /\ e.event = d.event /\ e.subject = d.subject /\ e.new = d.new /\ e.sent = d.sent
        /\ e.state = "running" /\ e.steady = d.steady /\ e.stage = d.stage + 1 /\ e.todo = A
    BY DEF Dispatch, A, s
  <1>8. e.logged <=> d.logged
    BY DEF Dispatch
  <1>9. e \in Dispatch
    <2>1. A \in [BellUser -> Nat]
      BY <1>6
    <2>2. e = [d EXCEPT !.stage = d.stage + 1, !.todo = A]
      BY DEF A, s
    <2>3. d.stage + 1 \in Nat
      BY <1>1
    <2>4. \A k \in Nat, f \in [BellUser -> Nat] :
            [d EXCEPT !.stage = k, !.todo = f] \in Dispatch
      BY DispatchChanges, Zenon
    <2>5. [d EXCEPT !.stage = d.stage + 1, !.todo = A] \in Dispatch
      BY <2>1, <2>3, <2>4, Zenon
    <2> QED BY <2>2, <2>5, Zenon
  <1>10. \A u \in BellUser : Bell(d, u) = d.sent[u] /\ Bell(e, u) = d.sent[u] + A[u]
    BY <1>1, <1>7 DEF Bell
  <1>11. Opener(e) = Opener(d) /\ \A u \in BellUser : Decides(e, u) <=> Decides(d, u)
    BY <1>7 DEF Opener, Decides
  <1>12. \A u \in d.steady : userActive[u]
    BY DEF DispatchIsGood
  <1>13. \A u \in d.steady : Decides(d, u) =>
           /\ u \in adminIds /\ AwaitedPermission(d.event) # "none"
           /\ AwaitedPermission(d.event) \in {"wallet.write", "finance.write"} => u \in financeIds
    BY <1>1, <1>12, DecidersAreActive
  <1>14. e.stage \in 0..Len(S)
    BY <1>4, <1>7
  <1>15. d.subject \in Subjects(d.event)
    BY DEF DispatchIsGood
  <1>16. \A u \in BellUser : Bell(e, u) <= 1
    <2>1. CASE d.stage = 0
      <3>1. \A u \in BellUser : d.sent[u] = 0
        BY <1>10, <2>1 DEF DispatchIsGood
      <3> QED BY <1>6, <1>10, <3>1
    <2>2. CASE d.stage = 1 /\ Len(S) = 2
      <3>1. \A u \in BellUser : d.sent[u] = IF u = Opener(d) THEN 1 ELSE 0
        BY <1>10, <2>2 DEF DispatchIsGood
      <3>2. \A u \in BellUser : u = Opener(d) => A[u] = 0
        BY <1>15, <2>2, TwoAudiences DEF A, s
      <3>3. \A u \in BellUser : A[u] \in {0, 1}
        BY <1>6
      <3> QED BY <1>10, <3>1, <3>2, <3>3
    <2> QED BY <1>4, <2>1, <2>2
  <1>17. e.stage = 1 /\ Len(S) = 2 =>
          \A u \in BellUser : Bell(e, u) = IF u = Opener(e) THEN 1 ELSE 0
    <2> SUFFICES ASSUME e.stage = 1, Len(S) = 2, NEW u \in BellUser
                 PROVE  Bell(e, u) = IF u = Opener(e) THEN 1 ELSE 0
      OBVIOUS
    <2>1. d.stage = 0
      BY <1>1, <1>7
    <2>2. d.sent[u] = 0
      BY <1>10, <2>1 DEF DispatchIsGood
    <2>3. A[u] = IF u = Opener(d) THEN 1 ELSE 0
      BY <1>15, <2>1, TwoAudiences DEF A, s
    <2> QED BY <1>10, <1>11, <2>2, <2>3
  <1>18. e.stage = Len(S) => \A u \in d.steady : Decides(d, u) => Bell(e, u) = 1
    <2> SUFFICES ASSUME e.stage = Len(S), NEW u \in d.steady, Decides(d, u)
                 PROVE  Bell(e, u) = 1
      OBVIOUS
    <2>0. u \in BellUser /\ u \in adminIds
      BY <1>1, <1>13
    <2>1. CASE d.stage = 0 /\ Len(S) = 1
      <3>1. d.sent[u] = 0
        BY <1>10, <2>0, <2>1 DEF DispatchIsGood
      <3>2. /\ s = S[1]
            /\ \/ s \in {"finance", "back office"} /\ u \in financeIds
               \/ s = "admins"
        <4>1. s = S[1]
          BY <2>1 DEF s
        <4>2. \/ /\ S[1] \in {"finance", "back office"}
                 /\ AwaitedPermission(d.event) \in {"wallet.write", "finance.write"}
              \/ S[1] = "admins"
          BY <1>1, <1>13, <2>1, AwaitedAre
        <4> QED BY <1>13, <4>1, <4>2
      <3>3. A[u] = 1
        BY <1>5, <2>0, <3>2, AudienceIs DEF A
      <3> QED BY <1>10, <2>0, <3>1, <3>3
    <2>2. CASE d.stage = 1 /\ Len(S) = 2
      <3>1. d.sent[u] = IF u = Opener(d) THEN 1 ELSE 0
        BY <1>10, <2>0, <2>2 DEF DispatchIsGood
      <3>2. A[u] = IF u = Opener(d) THEN 0 ELSE 1
        <4>1. s = S[2]
          BY <2>2 DEF s
        <4>2. /\ S[1] = "subject"
              /\ \/ /\ S[2] \in {"other finance", "other back office"}
                    /\ AwaitedPermission(d.event) \in {"wallet.write", "finance.write"}
                 \/ S[2] = "admins"
          BY <1>1, <1>13, <2>2, AwaitedAre
        <4>3. Opener(d) = d.subject
          BY <4>2 DEF Opener
        <4>4. u = Opener(d) => A[u] = 0
          BY <1>15, <2>0, <2>2, <4>1, TwoAudiences DEF A
        <4>5. u # Opener(d) => A[u] = 1
          <5>1. CASE S[2] = "admins"
            BY <1>5, <2>0, <4>1, <5>1, AudienceIs DEF A
          <5>2. CASE S[2] \in {"other finance", "other back office"} /\ u \in financeIds
            BY <1>5, <4>1, <4>3, <5>2, AudienceIs DEF A
          <5> QED BY <1>13, <4>2, <5>1, <5>2
        <4> QED BY <4>4, <4>5
      <3> QED BY <1>10, <2>0, <3>1, <3>2
    <2> QED BY <1>4, <1>7, <2>1, <2>2
  <1>19. d.event = "ticketAssignmentRejected" /\ d.logged =>
          /\ assignLog # <<>>
          /\ \E u \in BellUser : Bell(e, u) = 1 /\ \E n \in 1..Len(assignLog) : assignLog[n] = u
    <2> SUFFICES ASSUME d.event = "ticketAssignmentRejected", d.logged
                 PROVE  /\ assignLog # <<>>
                        /\ \E u \in BellUser :
                              Bell(e, u) = 1 /\ \E n \in 1..Len(assignLog) : assignLog[n] = u
      OBVIOUS
    <2>1. assignLog # <<>>
      BY DEF DispatchIsGood
    <2> DEFINE n == Len(assignLog)
    <2>2. n \in 1..Len(assignLog) /\ assignLog[n] \in BellUser
      BY <2>1
    <2>3. d.stage = 0 /\ s = "assigning admin"
      <3>1. Len(S) = 1 /\ S[1] = "assigning admin"
        BY RejectionIs
      <3>2. d.stage = 0
        BY <1>4, <3>1
      <3>3. s = S[1]
        BY <3>2 DEF s
      <3> QED BY <3>1, <3>2, <3>3
    <2>4. A[assignLog[n]] = 1
      BY <1>5, <2>1, <2>3, AudienceIs DEF A
    <2>5. d.sent[assignLog[n]] = 0
      BY <1>10, <2>2, <2>3 DEF DispatchIsGood
    <2> QED BY <1>10, <2>1, <2>2, <2>4, <2>5
  <1>20. e.stage # 0
    BY <1>1, <1>7
  <1> HIDE DEF S
  <1>21. DispatchIsGood(e, userActive, assignLog)
    <2>1. Stages[e.event] = S /\ e.subject \in Subjects(e.event)
      BY <1>7, <1>15 DEF S
    <2>2. e.state # "done" /\ \A u \in e.steady : userActive[u]
      BY <1>7, <1>12
    <2>3. e.stage = Len(S) => \A u \in e.steady : Decides(e, u) => Bell(e, u) = 1
      <3>1. e.steady = d.steady /\ e.steady \subseteq BellUser
        BY <1>1, <1>7
      <3> QED BY <1>11, <1>18, <3>1
    <2>4. e.event = "ticketAssignmentRejected" /\ e.logged =>
            /\ assignLog # <<>>
            /\ \E u \in BellUser :
                  Bell(e, u) = 1 /\ \E n \in 1..Len(assignLog) : assignLog[n] = u
      BY <1>7, <1>8, <1>19
    <2> QED
      BY <1>14, <1>16, <1>17, <1>20, <2>1, <2>2, <2>3, <2>4, Zenon DEF DispatchIsGood
  <1> QED BY <1>9, <1>21

\* The audit log only grows, and what a refusal needs of it stays.
LEMMA LogGrows ==
    ASSUME NEW d \in Dispatch, NEW active, NEW log \in Seq(BellUser), NEW a \in BellUser,
           DispatchIsGood(d, active, log)
    PROVE  DispatchIsGood(d, active, Append(log, a))
  <1> DEFINE more == Append(log, a)
  <1>1. more # <<>> /\ \A n \in 1..Len(log) : n \in 1..Len(more) /\ more[n] = log[n]
    OBVIOUS
  <1> HIDE DEF more
  <1>2. \A u \in BellUser : (\E n \in 1..Len(log) : log[n] = u) =>
          \E n \in 1..Len(more) : more[n] = u
    BY <1>1
  <1>3. DispatchIsGood(d, active, more)
    BY <1>1, <1>2, Zenon DEF DispatchIsGood
  <1> QED BY <1>3 DEF more

\* The steps of the dispatches and those of the rest, as they meet the invariant.
LEMMA BellsStep ==
    ASSUME BInv, userActive' \in [BellUser -> BOOLEAN],
           IsAssignment(assignment)',
           assignLog' \in Seq(BellUser),
           \A a \in unlogged' : a.admin \in BellUser /\ a.rep \in BellUser
                                /\ a.prior \in BellUser \cup {NoUser},
           assignment'.status = "ACTIVE" => unlogged' # {} \/ assignLog' # <<>>,
           dispatches' \in Seq(Dispatch),
           \A i \in 1..Len(dispatches') : DispatchIsGood(dispatches'[i], userActive', assignLog')
    PROVE  BInv'
  BY DEF BInv

LEMMA BellsBegin ==
    ASSUME BInv, NEW q \in Dispatch, DispatchIsGood(q, userActive', assignLog'),
           dispatches' = Append(dispatches, q),
           userActive' = userActive,
           assignLog' = assignLog \/ \E a \in BellUser : assignLog' = Append(assignLog, a)
    PROVE  /\ dispatches' \in Seq(Dispatch)
           /\ \A i \in 1..Len(dispatches') : DispatchIsGood(dispatches'[i], userActive', assignLog')
  <1>1. dispatches \in Seq(Dispatch) /\ assignLog \in Seq(BellUser)
    BY DEF BInv
  <1>2. ASSUME NEW i \in 1..Len(dispatches)
        PROVE  DispatchIsGood(dispatches[i], userActive', assignLog')
    <2>1. dispatches[i] \in Dispatch /\ DispatchIsGood(dispatches[i], userActive, assignLog)
      BY <1>1 DEF BInv
    <2>2. CASE assignLog' = assignLog
      BY <2>1, <2>2
    <2>3. ASSUME NEW a \in BellUser, assignLog' = Append(assignLog, a)
          PROVE  DispatchIsGood(dispatches[i], userActive', assignLog')
      BY <1>1, <2>1, <2>3, LogGrows
    <2> QED BY <2>2, <2>3
  <1>3. /\ dispatches' \in Seq(Dispatch)
        /\ \A i \in 1..Len(dispatches') :
              \/ i \in 1..Len(dispatches) /\ dispatches'[i] = dispatches[i]
              \/ dispatches'[i] = q
    BY <1>1
  <1> QED BY <1>2, <1>3

LEMMA BellsChange ==
    ASSUME BInv, NEW i \in 1..Len(dispatches), NEW q \in Dispatch,
           DispatchIsGood(q, userActive, assignLog),
           dispatches' = [dispatches EXCEPT ![i] = q],
           UNCHANGED <<userActive, assignment, assignLog, unlogged>>
    PROVE  BInv'
  <1>1. dispatches \in Seq(Dispatch)
    BY DEF BInv
  <1>2. /\ dispatches' \in Seq(Dispatch)
        /\ \A j \in 1..Len(dispatches') :
              j \in 1..Len(dispatches) /\ (dispatches'[j] = dispatches[j] \/ dispatches'[j] = q)
    BY <1>1
  <1>3. \A j \in 1..Len(dispatches') : DispatchIsGood(dispatches'[j], userActive', assignLog')
    BY <1>2 DEF BInv
  <1> QED BY <1>2, <1>3, BellsStep DEF BInv

\* One lemma for each kind of step.
LEMMA NextStageInv == ASSUME BInv, NEW i \in 1..Len(dispatches), NextStage(i) PROVE BInv'
  <1> DEFINE d == dispatches[i]
  <1>1. dispatches \in Seq(Dispatch) /\ d \in Dispatch /\ DispatchIsGood(d, userActive, assignLog)
    BY DEF BInv
  <1>2. /\ d.state = "running" /\ \A u \in BellUser : d.todo[u] = 0
        /\ UNCHANGED <<userActive, assignment, assignLog, unlogged>>
    BY DEF NextStage
  <1>3. CASE d.stage = Len(Stages[d.event])
    <2> DEFINE q == [d EXCEPT !.state = "done"]
    <2>1. dispatches' = [dispatches EXCEPT ![i] = q]
      BY <1>1, <1>3 DEF NextStage
    <2>2. q \in Dispatch
      BY <1>1, DispatchChanges
    <2>3. /\ q.event = d.event /\ q.subject = d.subject /\ q.new = d.new /\ q.stage = d.stage
          /\ q.todo = d.todo /\ q.sent = d.sent /\ q.steady = d.steady /\ (q.logged <=> d.logged)
      BY <1>1 DEF Dispatch
    <2> HIDE DEF q, d
    <2>4. /\ Opener(q) = Opener(d)
          /\ \A u \in BellUser : Bell(q, u) = Bell(d, u) /\ (Decides(q, u) <=> Decides(d, u))
      BY <2>3 DEF Opener, Bell, Decides
    <2>5. DispatchIsGood(q, userActive, assignLog)
      <3>1. d.steady \subseteq BellUser
        BY <1>1 DEF Dispatch
      <3> QED BY <1>1, <1>2, <1>3, <2>3, <2>4, <3>1 DEF DispatchIsGood
    <2> QED BY <1>2, <2>1, <2>2, <2>5, BellsChange
  <1>4. CASE d.stage # Len(Stages[d.event])
    <2> DEFINE q == [d EXCEPT !.stage = d.stage + 1,
                              !.todo = Audience(d, Stages[d.event][d.stage + 1])]
    <2>1. dispatches' = [dispatches EXCEPT ![i] = q]
      BY <1>1, <1>4 DEF NextStage
    <2>2. q \in Dispatch /\ DispatchIsGood(q, userActive, assignLog)
      <3>1. userActive \in [BellUser -> BOOLEAN] /\ assignLog \in Seq(BellUser)
        BY DEF BInv
      <3> HIDE DEF d
      <3> QED BY <1>1, <1>2, <1>4, <3>1, StageIsGood
    <2> HIDE DEF q, d
    <2> QED BY <1>2, <2>1, <2>2, BellsChange
  <1> QED BY <1>3, <1>4

LEMMA CreateInv ==
    ASSUME BInv, NEW i \in 1..Len(dispatches), NEW u \in BellUser, Create(i, u) PROVE BInv'
  <1> DEFINE d == dispatches[i]
             todo == [d.todo EXCEPT ![u] = d.todo[u] - 1]
             sent == [d.sent EXCEPT ![u] = d.sent[u] + 1]
             q == [d EXCEPT !.todo = todo, !.sent = sent]
  <1>1. dispatches \in Seq(Dispatch) /\ d \in Dispatch /\ DispatchIsGood(d, userActive, assignLog)
    BY DEF BInv
  <1>2. /\ d.state = "running" /\ d.todo[u] > 0
        /\ UNCHANGED <<userActive, assignment, assignLog, unlogged>>
    BY DEF Create
  <1>3. dispatches' = [dispatches EXCEPT ![i] = q]
    BY <1>1 DEF Create, Dispatch
  <1>4. /\ q.event = d.event /\ q.subject = d.subject /\ q.new = d.new /\ q.stage = d.stage
        /\ q.steady = d.steady /\ q.state = "running" /\ (q.logged <=> d.logged)
        /\ q.todo = todo /\ q.sent = sent
    BY <1>1, <1>2 DEF Dispatch
  <1>5. /\ d.todo \in [BellUser -> Nat] /\ d.sent \in [BellUser -> Nat]
        /\ d.steady \subseteq BellUser
    BY <1>1 DEF Dispatch
  <1> HIDE DEF d
  <1>6. q \in Dispatch
    <2>1. todo \in [BellUser -> Nat] /\ sent \in [BellUser -> Nat]
      BY <1>2, <1>5
    <2> HIDE DEF todo, sent
    <2>2. \A f, g \in [BellUser -> Nat] : [d EXCEPT !.todo = f, !.sent = g] \in Dispatch
      BY <1>1, DispatchChanges, Zenon
    <2> QED BY <2>1, <2>2, Zenon
  <1> HIDE DEF q
  <1>7. \A v \in BellUser : Bell(q, v) = Bell(d, v)
    BY <1>4, <1>5 DEF Bell
  <1>8. Opener(q) = Opener(d) /\ \A v \in BellUser : Decides(q, v) <=> Decides(d, v)
    BY <1>4 DEF Opener, Decides
  <1>9. DispatchIsGood(q, userActive, assignLog)
    BY <1>1, <1>4, <1>5, <1>7, <1>8 DEF DispatchIsGood
  <1> QED BY <1>2, <1>3, <1>6, <1>9, BellsChange

LEMMA CreateFailsInv ==
    ASSUME BInv, NEW i \in 1..Len(dispatches), CreateFails(i) PROVE BInv'
  <1> DEFINE d == dispatches[i]
             q == [d EXCEPT !.state = "failed"]
  <1>1. dispatches \in Seq(Dispatch) /\ d \in Dispatch /\ DispatchIsGood(d, userActive, assignLog)
    BY DEF BInv
  <1>2. UNCHANGED <<userActive, assignment, assignLog, unlogged>>
    BY DEF CreateFails
  <1>3. dispatches' = [dispatches EXCEPT ![i] = q]
    BY <1>1 DEF CreateFails
  <1>4. q \in Dispatch
    BY <1>1, DispatchChanges
  <1>5. /\ q.event = d.event /\ q.subject = d.subject /\ q.new = d.new /\ q.stage = d.stage
        /\ q.todo = d.todo /\ q.sent = d.sent /\ q.steady = d.steady /\ (q.logged <=> d.logged)
        /\ q.state = "failed"
    BY <1>1 DEF Dispatch
  <1> HIDE DEF q, d
  <1>6. /\ Opener(q) = Opener(d)
        /\ \A u \in BellUser : Bell(q, u) = Bell(d, u) /\ (Decides(q, u) <=> Decides(d, u))
    BY <1>5 DEF Opener, Bell, Decides
  <1>7. DispatchIsGood(q, userActive, assignLog)
    <2>1. d.steady \subseteq BellUser
      BY <1>1 DEF Dispatch
    <2> QED BY <1>1, <1>5, <1>6, <2>1 DEF DispatchIsGood
  <1> QED BY <1>2, <1>3, <1>4, <1>7, BellsChange

\* An account that is switched off or on is steady for no dispatch any more.
LEMMA TurnInv == ASSUME BInv, NEW u \in BellUser, Turn(u) PROVE BInv'
  <1>1. /\ userActive' = [userActive EXCEPT ![u] = ~@]
        /\ dispatches' = [i \in 1..Len(dispatches) |->
                            [dispatches[i] EXCEPT !.steady = @ \ {u}]]
        /\ UNCHANGED <<assignment, assignLog, unlogged>>
    BY DEF Turn
  <1>2. dispatches \in Seq(Dispatch) /\ userActive \in [BellUser -> BOOLEAN]
    BY DEF BInv
  <1>3. /\ userActive' \in [BellUser -> BOOLEAN]
        /\ \A v \in BellUser : v # u => (userActive'[v] <=> userActive[v])
    BY <1>1, <1>2
  <1>4. ASSUME NEW i \in 1..Len(dispatches)
        PROVE  /\ [dispatches[i] EXCEPT !.steady = @ \ {u}] \in Dispatch
               /\ DispatchIsGood([dispatches[i] EXCEPT !.steady = @ \ {u}], userActive', assignLog')
    <2> DEFINE d == dispatches[i]
               q == [d EXCEPT !.steady = @ \ {u}]
    <2>1. d \in Dispatch /\ DispatchIsGood(d, userActive, assignLog)
      BY <1>2 DEF BInv
    <2>2. q \in Dispatch
      BY <2>1, DispatchChanges
    <2>3. /\ q.event = d.event /\ q.subject = d.subject /\ q.new = d.new /\ q.stage = d.stage
          /\ q.todo = d.todo /\ q.sent = d.sent /\ q.steady = d.steady \ {u}
          /\ q.state = d.state /\ (q.logged <=> d.logged) /\ d.steady \subseteq BellUser
      BY <2>1 DEF Dispatch
    <2> HIDE DEF q, d
    <2>4. /\ Opener(q) = Opener(d)
          /\ \A v \in BellUser : Bell(q, v) = Bell(d, v) /\ (Decides(q, v) <=> Decides(d, v))
      BY <2>3 DEF Opener, Bell, Decides
    <2>5. \A v \in q.steady : v \in d.steady /\ v \in BellUser /\ (userActive'[v] <=> userActive[v])
      BY <1>3, <2>3
    <2>6. assignLog' = assignLog
      BY <1>1
    <2>7. DispatchIsGood(q, userActive', assignLog')
      BY <2>1, <2>3, <2>4, <2>5, <2>6 DEF DispatchIsGood
    <2> QED BY <2>2, <2>7 DEF q, d
  <1>5. /\ dispatches' \in Seq(Dispatch)
        /\ \A i \in 1..Len(dispatches') : DispatchIsGood(dispatches'[i], userActive', assignLog')
    <2>1. Len(dispatches) \in Nat
      BY <1>2
    <2>2. dispatches' \in Seq(Dispatch) /\ Len(dispatches') = Len(dispatches)
      BY <1>1, <1>4, <2>1
    <2> QED BY <1>1, <1>4, <2>2
  <1> QED BY <1>1, <1>3, <1>5, BellsStep DEF BInv

LEMMA RaiseInv ==
    ASSUME BInv, NEW e \in BellEvent, NEW who \in Subjects(e), Raise(e, who) PROVE BInv'
  <1>1. /\ dispatches' = Append(dispatches, Starting(e, who, NoUser, NoUser))
        /\ UNCHANGED <<userActive, assignment, assignLog, unlogged>>
        /\ e # "ticketAssignmentRejected"
    BY DEF Raise
  <1>2. who \in BellUser
    BY BellAssumption DEF Subjects
  <1> DEFINE q == Starting(e, who, NoUser, NoUser)
  <1>3. q \in Dispatch /\ DispatchIsGood(q, userActive, assignLog)
    BY <1>1, <1>2, StartingIsGood DEF BInv
  <1> HIDE DEF q
  <1>4. dispatches' = Append(dispatches, q) /\ DispatchIsGood(q, userActive', assignLog')
    BY <1>1, <1>3 DEF q
  <1>5. /\ dispatches' \in Seq(Dispatch)
        /\ \A i \in 1..Len(dispatches') : DispatchIsGood(dispatches'[i], userActive', assignLog')
    BY <1>1, <1>3, <1>4, BellsBegin
  <1> QED BY <1>1, <1>5, BellsStep DEF BInv

\* The assignment of the ticket.
LEMMA AssignInv ==
    ASSUME BInv, NEW admin \in TicketAdmin, NEW rep \in BellRep, Assign(admin, rep) PROVE BInv'
  <1> DEFINE a == [admin |-> admin, rep |-> rep,
                   prior |-> IF assignment.status = "ACTIVE" THEN assignment.rep ELSE NoUser]
  <1>1. /\ unlogged' = unlogged \cup {a}
        /\ assignment' = [rep |-> rep, status |-> "ACTIVE", ticket |-> "ASSIGNED"]
        /\ UNCHANGED <<userActive, assignLog, dispatches>>
    BY DEF Assign
  <1>2. admin \in BellUser /\ rep \in BellUser
    BY DEF TicketAdmin, BellRep
  <1>3. \A b \in unlogged' : /\ b.admin \in BellUser /\ b.rep \in BellUser
                             /\ b.prior \in BellUser \cup {NoUser}
    BY <1>1, <1>2 DEF BInv, IsAssignment
  <1>4. unlogged' # {}
    BY <1>1
  <1>5. rep \in BellUser \cup {NoUser}
    BY <1>2
  <1>6. /\ userActive' \in [BellUser -> BOOLEAN] /\ assignLog' \in Seq(BellUser)
        /\ dispatches' \in Seq(Dispatch)
        /\ \A i \in 1..Len(dispatches') : DispatchIsGood(dispatches'[i], userActive', assignLog')
    BY <1>1 DEF BInv
  <1>7. IsAssignment(assignment)' /\ assignment'.status = "ACTIVE"
    BY <1>1, <1>5 DEF IsAssignment
  <1> QED BY <1>3, <1>4, <1>6, <1>7, BellsStep

LEMMA AssignLoggedInv == ASSUME BInv, NEW a \in unlogged, AssignLogged(a) PROVE BInv'
  <1> DEFINE e == IF a.prior \notin {NoUser, a.rep} THEN "ticketReassigned" ELSE "ticketAssigned"
             q == Starting(e, TicketOwner, a.rep, a.prior)
  <1>1. /\ unlogged' = unlogged \ {a} /\ assignLog' = Append(assignLog, a.admin)
        /\ dispatches' = Append(dispatches, q)
        /\ UNCHANGED <<userActive, assignment>>
    BY DEF AssignLogged
  <1>2. /\ a.admin \in BellUser /\ a.rep \in BellUser /\ a.prior \in BellUser \cup {NoUser}
        /\ assignLog \in Seq(BellUser)
    BY DEF BInv
  <1>3. e \in BellEvent /\ e # "ticketAssignmentRejected" /\ TicketOwner \in Subjects(e)
    <2>1. "ticketReassigned" \in BellEvent /\ "ticketAssigned" \in BellEvent
      BY DEF BellEvent, Stages
    <2> QED BY <2>1 DEF Subjects
  <1>4. q \in Dispatch /\ DispatchIsGood(q, userActive, assignLog')
    BY <1>2, <1>3, BellAssumption, StartingIsGood DEF BInv
  <1> HIDE DEF q
  <1>5. assignLog' \in Seq(BellUser) /\ assignLog' # <<>>
    BY <1>1, <1>2
  <1>6. \E b \in BellUser : assignLog' = Append(assignLog, b)
    BY <1>1, <1>2
  <1>7. userActive' = userActive /\ DispatchIsGood(q, userActive', assignLog')
    BY <1>1, <1>4
  <1>8. /\ dispatches' \in Seq(Dispatch)
        /\ \A i \in 1..Len(dispatches') : DispatchIsGood(dispatches'[i], userActive', assignLog')
    BY <1>1, <1>4, <1>6, <1>7, BellsBegin
  <1>9. /\ userActive' \in [BellUser -> BOOLEAN]
        /\ \A b \in unlogged' : b.admin \in BellUser /\ b.rep \in BellUser
                                /\ b.prior \in BellUser \cup {NoUser}
    BY <1>1 DEF BInv
  <1>10. IsAssignment(assignment)'
    BY <1>1 DEF BInv
  <1> QED BY <1>5, <1>8, <1>9, <1>10, BellsStep

\* An operation on the assignment that begins a dispatch of its own.
LEMMA OperationInv ==
    ASSUME BInv, NEW e \in BellEvent, TicketOwner \in Subjects(e),
           dispatches' = Append(dispatches, Starting(e, TicketOwner, NoUser, NoUser)),
           NEW status, NEW ofTicket,
           assignment' = [assignment EXCEPT !.status = status, !.ticket = ofTicket],
           status = "ACTIVE" => assignment.status = "ACTIVE",
           e = "ticketAssignmentRejected" => assignment.status = "ACTIVE",
           UNCHANGED <<userActive, assignLog, unlogged>>
    PROVE  BInv'
  <1> DEFINE q == Starting(e, TicketOwner, NoUser, NoUser)
  <1>1. e = "ticketAssignmentRejected" /\ unlogged = {} => assignLog # <<>>
    BY DEF BInv
  <1>2. q \in Dispatch /\ DispatchIsGood(q, userActive, assignLog)
    BY <1>1, BellAssumption, StartingIsGood DEF BInv
  <1> HIDE DEF q
  <1>3. dispatches' = Append(dispatches, q) /\ DispatchIsGood(q, userActive', assignLog')
    BY <1>2 DEF q
  <1>4. /\ dispatches' \in Seq(Dispatch)
        /\ \A i \in 1..Len(dispatches') : DispatchIsGood(dispatches'[i], userActive', assignLog')
    BY <1>2, <1>3, BellsBegin
  <1>5. assignment' = [rep |-> assignment.rep, status |-> status, ticket |-> ofTicket]
    BY DEF BInv, IsAssignment
  <1>6. IsAssignment(assignment)'
    BY <1>5 DEF BInv, IsAssignment
  <1>7. assignment'.status = "ACTIVE" => unlogged' # {} \/ assignLog' # <<>>
    BY <1>5 DEF BInv
  <1>8. /\ userActive' \in [BellUser -> BOOLEAN] /\ assignLog' \in Seq(BellUser)
        /\ \A b \in unlogged' : b.admin \in BellUser /\ b.rep \in BellUser
                                /\ b.prior \in BellUser \cup {NoUser}
    BY DEF BInv
  <1> QED BY <1>4, <1>6, <1>7, <1>8, BellsStep

LEMMA OperationsInv ==
    ASSUME BInv, AcceptAssignment \/ RejectAssignment \/ UpdateStatus \/ OverrideStatus
    PROVE  BInv'
  <1>0. /\ \A e \in {"ticketAssignmentAccepted", "ticketAssignmentRejected",
                   "ticketStatusChanged"} :
              e \in BellEvent /\ TicketOwner \in Subjects(e)
        /\ assignment = [rep |-> assignment.rep, status |-> assignment.status,
                         ticket |-> assignment.ticket]
    BY DEF BellEvent, Stages, Subjects, BInv, IsAssignment
  <1>1. CASE AcceptAssignment
    <2>1. /\ dispatches' = Append(dispatches,
                             Starting("ticketAssignmentAccepted", TicketOwner, NoUser, NoUser))
          /\ assignment' = [assignment EXCEPT !.status = "ACCEPTED", !.ticket = "IN_PROGRESS"]
          /\ UNCHANGED <<userActive, assignLog, unlogged>>
      BY <1>1 DEF AcceptAssignment
    <2>2. "ticketAssignmentAccepted" # "ticketAssignmentRejected" /\ "ACCEPTED" # "ACTIVE"
      OBVIOUS
    <2>3. /\ "ticketAssignmentAccepted" \in BellEvent
          /\ TicketOwner \in Subjects("ticketAssignmentAccepted")
      BY <1>0
    <2> QED BY <2>1, <2>2, <2>3, OperationInv, Zenon
  <1>2. CASE RejectAssignment /\ assignment.status = "ACTIVE"
    <2>1. /\ dispatches' = Append(dispatches,
                             Starting("ticketAssignmentRejected", TicketOwner, NoUser, NoUser))
          /\ assignment' = [assignment EXCEPT !.status = "REJECTED", !.ticket = "PAID"]
          /\ UNCHANGED <<userActive, assignLog, unlogged>>
      BY <1>0, <1>2 DEF RejectAssignment
    <2> QED BY <1>0, <1>2, <2>1, OperationInv
  <1>3. CASE UpdateStatus
    <2> DEFINE t == IF assignment.ticket = "PAID" THEN "ASSIGNED" ELSE "IN_PROGRESS"
    <2>1. /\ dispatches' = Append(dispatches,
                             Starting("ticketStatusChanged", TicketOwner, NoUser, NoUser))
          /\ assignment' = [assignment EXCEPT !.status = assignment.status, !.ticket = t]
          /\ UNCHANGED <<userActive, assignLog, unlogged>>
      BY <1>0, <1>3 DEF UpdateStatus
    <2> HIDE DEF t
    <2> QED BY <1>0, <2>1, OperationInv
  <1>4. CASE (RejectAssignment /\ assignment.status # "ACTIVE") \/ OverrideStatus
    <2>1. /\ assignment' = [rep |-> assignment.rep, status |-> assignment.status, ticket |-> "PAID"]
          /\ UNCHANGED <<userActive, assignLog, unlogged, dispatches>>
      BY <1>0, <1>4 DEF RejectAssignment, OverrideStatus
    <2>2. IsAssignment(assignment)'
      BY <2>1 DEF BInv, IsAssignment
    <2>3. assignment'.status = assignment.status
      BY <2>1
    <2> QED BY <2>1, <2>2, <2>3, BellsStep DEF BInv
  <1> QED BY <1>1, <1>2, <1>3, <1>4

LEMMA BellsInit == BellInit => BInv
  <1> SUFFICES ASSUME BellInit PROVE BInv
    OBVIOUS
  <1>1. /\ userActive = [u \in BellUser |-> TRUE] /\ assignLog = <<>> /\ unlogged = {}
        /\ assignment = [rep |-> NoUser, status |-> "none", ticket |-> "PAID"]
        /\ dispatches = <<>>
    BY DEF BellInit
  <1> QED BY <1>1 DEF BInv, IsAssignment

\* What the invariant says of a dispatch that is done.
LEMMA BellsHold == BInv => BellsAreHeard
  <1> SUFFICES ASSUME BInv PROVE BellsAreHeard
    OBVIOUS
  <1>1. dispatches \in Seq(Dispatch)
    BY DEF BInv
  <1>2. ASSUME NEW i \in 1..Len(dispatches)
        PROVE  /\ dispatches[i] \in Dispatch
               /\ DispatchIsGood(dispatches[i], userActive, assignLog)
    BY <1>1 DEF BInv
  <1>3. ASSUME NEW d \in Dispatch
        PROVE  /\ d.sent \in [BellUser -> Nat] /\ d.todo \in [BellUser -> Nat]
               /\ d.steady \subseteq BellUser /\ d.event \in BellEvent
    BY DEF Dispatch
  <1>4. OneBellEach
    <2> SUFFICES ASSUME NEW i \in 1..Len(dispatches), NEW u \in BellUser
                 PROVE  dispatches[i].sent[u] =< 1
      BY DEF OneBellEach
    <2> DEFINE d == dispatches[i]
    <2>1. d.sent[u] \in Nat /\ d.todo[u] \in Nat /\ Bell(d, u) <= 1
      BY <1>2, <1>3 DEF DispatchIsGood
    <2> QED BY <2>1 DEF Bell
  <1>5. ASSUME NEW i \in 1..Len(dispatches), dispatches[i].state = "done", NEW u \in BellUser
        PROVE  Bell(dispatches[i], u) = dispatches[i].sent[u]
    <2> DEFINE d == dispatches[i]
    <2>1. d.sent[u] \in Nat /\ d.todo[u] = 0
      BY <1>2, <1>3, <1>5 DEF DispatchIsGood
    <2> QED BY <2>1 DEF Bell
  <1>6. DecidersAreTold
    <2> SUFFICES ASSUME NEW i \in 1..Len(dispatches), dispatches[i].state = "done",
                        NEW u \in dispatches[i].steady, Decides(dispatches[i], u)
                 PROVE  dispatches[i].sent[u] = 1
      BY DEF DecidersAreTold, Decides
    <2>1. u \in BellUser
      BY <1>2, <1>3
    <2>2. Bell(dispatches[i], u) = 1
      BY <1>2 DEF DispatchIsGood
    <2> QED BY <1>5, <2>1, <2>2
  <1>7. RefusalIsHeard
    <2> SUFFICES ASSUME NEW i \in 1..Len(dispatches), dispatches[i].state = "done",
                        dispatches[i].event = "ticketAssignmentRejected", dispatches[i].logged
                 PROVE  \E u \in BellUser : /\ dispatches[i].sent[u] = 1
                                            /\ \E n \in 1..Len(assignLog) : assignLog[n] = u
      BY DEF RefusalIsHeard
    <2>1. dispatches[i].stage = 1
      BY <1>2, RejectionIs DEF DispatchIsGood
    <2>2. PICK u \in BellUser : /\ Bell(dispatches[i], u) = 1
                                /\ \E n \in 1..Len(assignLog) : assignLog[n] = u
      BY <1>2, <2>1 DEF DispatchIsGood
    <2> QED BY <1>5, <2>2
  <1> QED BY <1>1, <1>4, <1>6, <1>7 DEF BellsAreHeard

\* Whoever has to act hears of it, once: for any accounts and roles, any number of
\* dispatches that overlap, fail or are overtaken by deactivations, no account gets two
\* bells for one event, a finished dispatch has reached every steady decider, and a refusal
\* somebody who had assigned the ticket (notification-dispatcher.service.ts).
THEOREM BellsHeard == BellSpec => []BellsAreHeard
  <1>1. BellInit => BInv
    BY BellsInit
  <1>2. BInv /\ [BellNext]_bellVars => BInv'
    <2> SUFFICES ASSUME BInv, [BellNext]_bellVars PROVE BInv'
      OBVIOUS
    <2>1. ASSUME NEW e \in BellEvent, NEW who \in Subjects(e), Raise(e, who) PROVE BInv'
      BY <2>1, RaiseInv
    <2>2. ASSUME NEW i \in 1..Len(dispatches),
                 NextStage(i) \/ CreateFails(i) \/ \E u \in BellUser : Create(i, u)
          PROVE  BInv'
      BY <2>2, NextStageInv, CreateFailsInv, CreateInv
    <2>3. ASSUME NEW u \in BellUser, Turn(u) PROVE BInv'
      BY <2>3, TurnInv
    <2>4. ASSUME NEW admin \in TicketAdmin, NEW rep \in BellRep, Assign(admin, rep) PROVE BInv'
      BY <2>4, AssignInv
    <2>5. ASSUME NEW a \in unlogged, AssignLogged(a) PROVE BInv'
      BY <2>5, AssignLoggedInv
    <2>6. CASE AcceptAssignment \/ RejectAssignment \/ UpdateStatus \/ OverrideStatus
      BY <2>6, OperationsInv
    <2>7. CASE UNCHANGED bellVars
      BY <2>7, BellsStep DEF bellVars, BInv
    <2> QED BY <2>1, <2>2, <2>3, <2>4, <2>5, <2>6, <2>7 DEF BellNext
  <1>3. BInv => BellsAreHeard
    BY BellsHold
  <1> QED BY <1>1, <1>2, <1>3, PTL DEF BellSpec

-----------------------------------------------------------------------------
\* The dashboard.

Figure == UNION {Reads[i] : i \in DOMAIN Reads}

\* A submitted ticket waits for approval unless somebody moved it.
SubmittedWaits ==
    \A t \in Matter : matter[t].approval = "SUBMITTED" =>
        matter[t].byHand \/ matter[t].status = "WAITING_APPROVAL"

\* A request has the figures of the steps behind it; while nothing has changed they are
\* those of the tickets as they are.
ReadingIsGood(a) ==
    /\ a = [state |-> a.state, range |-> a.range, step |-> a.step, unmoved |-> a.unmoved,
            got |-> a.got]
    /\ a.range \in DayRange /\ a.step \in 1..(Len(Reads) + 1) /\ a.unmoved \in BOOLEAN
    /\ \A i \in 1..(a.step - 1) : Reads[i] \subseteq DOMAIN a.got
    /\ a.unmoved => \A f \in DOMAIN a.got : a.got[f] = figure(f, a.range)

AnswerIsGood(d) ==
    /\ statsCache[d] = [state |-> statsCache[d].state, unmoved |-> statsCache[d].unmoved,
                        got |-> statsCache[d].got]
    /\ statsCache[d].unmoved => \A f \in Figure : statsCache[d].got[f] = figure(f, d)

\* The inductive invariant.
SInv ==
    /\ matter \in [Matter -> MatterRow]
    /\ SubmittedWaits
    /\ reading = [q \in SummaryReq |-> reading[q]]
    /\ \A q \in SummaryReq : ReadingIsGood(reading[q])
    /\ statsCache = [d \in DayRange |-> statsCache[d]]
    /\ \A d \in DayRange : AnswerIsGood(d)

LEMMA ReadsAre ==
    /\ Len(Reads) = 6 /\ DOMAIN Reads = 1..6
    /\ Figure = UNION {Reads[i] : i \in 1..6}
    /\ {"total", "completed", "revenue", "byStatus", "recent", "unpaid", "waiting",
        "submitted", "stuck", "aged"} \subseteq Figure
  <1>1. Len(Reads) = 6 /\ DOMAIN Reads = 1..6
    BY DEF Reads
  <1>2. /\ "total" \in Reads[1] /\ "completed" \in Reads[2] /\ "revenue" \in Reads[3]
        /\ "byStatus" \in Reads[4] /\ "recent" \in Reads[5]
        /\ {"unpaid", "waiting", "submitted", "stuck", "aged"} \subseteq Reads[6]
    BY DEF Reads
  <1> QED BY <1>1, <1>2 DEF Figure

\* The figures are a function of the tickets.
LEMMA FiguresStand ==
    ASSUME matter' = matter, NEW f, NEW d
    PROVE  figure(f, d)' = figure(f, d)
  BY DEF figure, unarchivedMatter, withStatus, getRevenueKpis, sumMixedCurrencyToPkr,
         createdIn, aged, remainder, getAgedOutstandingKpi

\* A change of a ticket: no answer and no request is vouched for any more.
LEMMA MoveInv ==
    ASSUME SInv, NEW t \in Matter, NEW row \in MatterRow, Move(t, row),
           row.approval = "SUBMITTED" => row.byHand \/ row.status = "WAITING_APPROVAL"
    PROVE  SInv'
  <1>1. /\ matter' = [matter EXCEPT ![t] = row]
        /\ reading' = [q \in SummaryReq |-> [reading[q] EXCEPT !.unmoved = FALSE]]
        /\ statsCache' = [d \in DayRange |-> [statsCache[d] EXCEPT !.unmoved = FALSE]]
    BY DEF Move
  <1>2. matter' \in [Matter -> MatterRow] /\ SubmittedWaits'
    BY <1>1 DEF SInv, SubmittedWaits
  <1>3. ASSUME NEW q \in SummaryReq PROVE ReadingIsGood(reading[q])'
    <2> DEFINE a == reading[q]
    <2>1. reading'[q] = [a EXCEPT !.unmoved = FALSE]
      BY <1>1
    <2>2. /\ a = [state |-> a.state, range |-> a.range, step |-> a.step, unmoved |-> a.unmoved,
                  got |-> a.got]
          /\ a.range \in DayRange /\ a.step \in 1..(Len(Reads) + 1)
          /\ \A i \in 1..(a.step - 1) : Reads[i] \subseteq DOMAIN a.got
      BY DEF SInv, ReadingIsGood
    <2>3. /\ reading'[q] = [state |-> a.state, range |-> a.range, step |-> a.step,
                            unmoved |-> FALSE, got |-> a.got]
      BY <2>1, <2>2
    <2> HIDE DEF a
    <2> QED BY <2>2, <2>3 DEF ReadingIsGood
  <1>4. ASSUME NEW d \in DayRange PROVE AnswerIsGood(d)'
    <2>1. /\ statsCache'[d] = [statsCache[d] EXCEPT !.unmoved = FALSE]
          /\ statsCache[d] = [state |-> statsCache[d].state, unmoved |-> statsCache[d].unmoved,
                              got |-> statsCache[d].got]
      BY <1>1 DEF SInv, AnswerIsGood
    <2>2. statsCache'[d] = [state |-> statsCache[d].state, unmoved |-> FALSE,
                            got |-> statsCache[d].got]
      BY <2>1
    <2> QED BY <2>2 DEF AnswerIsGood
  <1>5. /\ reading' = [q \in SummaryReq |-> reading'[q]]
        /\ statsCache' = [d \in DayRange |-> statsCache'[d]]
    BY <1>1
  <1> QED BY <1>2, <1>3, <1>4, <1>5 DEF SInv

LEMMA MovesInv ==
    ASSUME SInv, NEW t \in Matter,
           \/ \E s \in MatterStatus : MoveByHand(t, s)
           \/ SubmitMatter(t) \/ SendBackMatter(t) \/ ArchiveMatter(t) \/ WeekPasses(t)
           \/ \E total \in Worth : ReviewMatter(t, total)
           \/ \E total, paid \in Worth : PayOrPrice(t, total, paid)
    PROVE  SInv'
  <1> DEFINE m == matter[t]
  <1>1. /\ m \in MatterRow /\ Worth \subseteq Nat
        /\ m.approval = "SUBMITTED" => m.byHand \/ m.status = "WAITING_APPROVAL"
    BY SummaryAssumption DEF SInv, SubmittedWaits
  <1>2. ASSUME NEW s \in MatterStatus, MoveByHand(t, s) PROVE SInv'
    <2> DEFINE row == [m EXCEPT !.status = s, !.left = FALSE,
                                !.byHand = m.byHand \/ m.approval = "SUBMITTED"]
    <2>1. Move(t, row)
      BY <1>2 DEF MoveByHand
    <2>2. row \in MatterRow
      BY <1>1 DEF MatterRow
    <2>3. row.approval = "SUBMITTED" => row.byHand
      BY <1>1 DEF MatterRow
    <2> QED BY <2>1, <2>2, <2>3, MoveInv
  <1>3. CASE SubmitMatter(t)
    <2> DEFINE row == [m EXCEPT !.status = "WAITING_APPROVAL", !.approval = "SUBMITTED",
                                !.left = FALSE, !.byHand = FALSE]
    <2>1. Move(t, row)
      BY <1>3 DEF SubmitMatter
    <2>2. row \in MatterRow /\ row.status = "WAITING_APPROVAL"
      BY <1>1 DEF MatterRow, MatterStatus
    <2> QED BY <2>1, <2>2, MoveInv
  <1>4. CASE SendBackMatter(t)
    <2> DEFINE row == [m EXCEPT !.status = "IN_PROGRESS", !.approval = "REJECTED", !.left = FALSE]
    <2>1. Move(t, row)
      BY <1>4 DEF SendBackMatter
    <2>2. row \in MatterRow /\ row.approval = "REJECTED"
      BY <1>1 DEF MatterRow, MatterStatus
    <2> QED BY <2>1, <2>2, MoveInv
  <1>5. CASE ArchiveMatter(t)
    <2> DEFINE row == [m EXCEPT !.archived = ~m.archived, !.left = FALSE]
    <2>1. Move(t, row)
      BY <1>5 DEF ArchiveMatter
    <2>2. /\ row \in MatterRow /\ row.approval = m.approval /\ row.status = m.status
          /\ row.byHand = m.byHand
      BY <1>1 DEF MatterRow
    <2> QED BY <1>1, <2>1, <2>2, MoveInv
  <1>8. CASE WeekPasses(t)
    <2> DEFINE row == [m EXCEPT !.left = TRUE]
    <2>1. Move(t, row)
      BY <1>8 DEF WeekPasses
    <2>2. /\ row \in MatterRow /\ row.approval = m.approval /\ row.status = m.status
          /\ row.byHand = m.byHand
      BY <1>1 DEF MatterRow
    <2> QED BY <1>1, <2>1, <2>2, MoveInv
  <1>6. ASSUME NEW total \in Worth, ReviewMatter(t, total) PROVE SInv'
    <2> DEFINE row == [m EXCEPT !.status = "COMPLETED", !.total = total, !.left = FALSE,
                                !.approval = IF m.approval = "SUBMITTED" THEN "VERIFIED"
                                             ELSE m.approval]
    <2>1. Move(t, row)
      BY <1>6 DEF ReviewMatter
    <2>2. row \in MatterRow
      BY <1>1 DEF MatterRow, MatterStatus
    <2>3. row.approval # "SUBMITTED"
      BY <1>1 DEF MatterRow
    <2> QED BY <2>1, <2>2, <2>3, MoveInv
  <1>7. ASSUME NEW total \in Worth, NEW paid \in Worth, PayOrPrice(t, total, paid) PROVE SInv'
    <2> DEFINE row == [m EXCEPT !.total = total, !.paid = paid, !.left = FALSE]
    <2>1. Move(t, row)
      BY <1>7 DEF PayOrPrice
    <2>2. /\ row \in MatterRow /\ row.approval = m.approval /\ row.byHand = m.byHand
          /\ row.status = m.status
      BY <1>1 DEF MatterRow
    <2> QED BY <1>1, <2>1, <2>2, MoveInv
  <1> QED BY <1>2, <1>3, <1>4, <1>5, <1>6, <1>7, <1>8

\* A step of a request or of the cache; the tickets stay.
LEMMA RequestStep ==
    ASSUME SInv, matter' = matter,
           reading' = reading \/
             \E q \in SummaryReq : \E a : reading' = [reading EXCEPT ![q] = a] /\ ReadingIsGood(a),
           statsCache' = [d \in DayRange |-> statsCache'[d]],
           \A d \in DayRange : statsCache'[d] = statsCache[d] \/ AnswerIsGood(d)'
    PROVE  SInv'
  <1>1. \A f, d : figure(f, d)' = figure(f, d)
    BY FiguresStand
  <1>2. ASSUME NEW a, ReadingIsGood(a) PROVE ReadingIsGood(a)'
    BY <1>1, <1>2 DEF ReadingIsGood
  <1>3. /\ reading' = [q \in SummaryReq |-> reading'[q]]
        /\ \A q \in SummaryReq : ReadingIsGood(reading'[q])
    BY DEF SInv
  <1>4. \A q \in SummaryReq : ReadingIsGood(reading[q])'
    BY <1>1, <1>3 DEF ReadingIsGood
  <1>5. \A d \in DayRange : AnswerIsGood(d)'
    <2> SUFFICES ASSUME NEW d \in DayRange, statsCache'[d] = statsCache[d] PROVE AnswerIsGood(d)'
      OBVIOUS
    <2> QED BY <1>1 DEF SInv, AnswerIsGood
  <1> QED BY <1>3, <1>4, <1>5 DEF SInv, SubmittedWaits

LEMMA NotAskedIsGood == ReadingIsGood(NotAsked)
  BY ReadsAre DEF NotAsked, ReadingIsGood, DayRange

IsReading(a) ==
    a = [state |-> a.state, range |-> a.range, step |-> a.step, unmoved |-> a.unmoved,
         got |-> a.got]

LEMMA Rewritten ==
    ASSUME NEW a, NEW g, NEW s, IsReading(a)
    PROVE  [a EXCEPT !.got = g, !.step = s] =
             [state |-> a.state, range |-> a.range, step |-> s, unmoved |-> a.unmoved, got |-> g]
  <1> DEFINE c == [a EXCEPT !.got = g]
  <1>1. c = [state |-> a.state, range |-> a.range, step |-> a.step, unmoved |-> a.unmoved,
             got |-> g]
    BY DEF IsReading
  <1> HIDE DEF c
  <1>2. [c EXCEPT !.step = s] =
          [state |-> a.state, range |-> a.range, step |-> s, unmoved |-> a.unmoved, got |-> g]
    BY <1>1
  <1>4. [a EXCEPT !.got = g, !.step = s] = [c EXCEPT !.step = s]
    BY Zenon DEF c
  <1> QED BY <1>2, <1>4

LEMMA SummaryRequestsInv ==
    ASSUME SInv, NEW q \in SummaryReq,
           \/ \E range \in DayRange : GetSummary(q, range)
           \/ \E f \in UNION {Reads[i] : i \in DOMAIN Reads} : ReadFigure(q, f)
           \/ SummaryDone(q) \/ SummaryFails(q)
    PROVE  SInv'
  <1> DEFINE a == reading[q]
  <1>1. /\ ReadingIsGood(a) /\ reading = [p \in SummaryReq |-> reading[p]]
        /\ statsCache = [d \in DayRange |-> statsCache[d]]
    BY DEF SInv
  <1>2. ASSUME NEW range \in DayRange, GetSummary(q, range) PROVE SInv'
    <2> DEFINE b == [state |-> "open", range |-> range, step |-> 1, unmoved |-> TRUE,
                     got |-> <<>>]
    <2>1. matter' = matter /\ statsCache' = statsCache /\ reading' = [reading EXCEPT ![q] = b]
      BY <1>2 DEF GetSummary
    <2>2. ReadingIsGood(b)
      <3>1. DOMAIN b.got = {} /\ b.range \in DayRange /\ b.step = 1 /\ b.unmoved = TRUE
        OBVIOUS
      <3>2. b.step \in 1..(Len(Reads) + 1) /\ b.unmoved \in BOOLEAN
        BY <3>1, ReadsAre
      <3>3. b = [state |-> b.state, range |-> b.range, step |-> b.step, unmoved |-> b.unmoved,
                 got |-> b.got]
        OBVIOUS
      <3>4. \A i \in 1..(b.step - 1) : Reads[i] \subseteq DOMAIN b.got
        BY <3>1
      <3> HIDE DEF b
      <3> QED BY <3>1, <3>2, <3>3, <3>4 DEF ReadingIsGood
    <2> QED BY <1>1, <2>1, <2>2, RequestStep
  <1>3. ASSUME NEW f, ReadFigure(q, f) PROVE SInv'
    <2> DEFINE got == [g \in DOMAIN a.got \cup {f} |->
                         IF g = f THEN figure(f, a.range) ELSE a.got[g]]
               step == IF Reads[a.step] \subseteq DOMAIN got THEN a.step + 1 ELSE a.step
               b == [a EXCEPT !.got = got, !.step = step]
    <2>1. /\ matter' = matter /\ statsCache' = statsCache /\ reading' = [reading EXCEPT ![q] = b]
          /\ a.step \in DOMAIN Reads
      BY <1>3 DEF ReadFigure
    <2>2. b = [state |-> a.state, range |-> a.range, step |-> step, unmoved |-> a.unmoved,
               got |-> got]
      <3>1. IsReading(a)
        BY <1>1 DEF ReadingIsGood, IsReading
      <3> HIDE DEF got, step, a
      <3> QED BY <3>1, Rewritten, Zenon
    <2>3. /\ DOMAIN got = DOMAIN a.got \cup {f}
          /\ a.unmoved => \A g \in DOMAIN got : got[g] = figure(g, a.range)
      BY <1>1 DEF ReadingIsGood
    <2>4. a.step \in 1..6 /\ step \in 1..(Len(Reads) + 1)
      BY <2>1, ReadsAre
    <2> HIDE DEF got
    <2>5. \A i \in 1..(step - 1) : Reads[i] \subseteq DOMAIN got
      <3>1. \A i \in 1..(a.step - 1) : Reads[i] \subseteq DOMAIN got
        BY <1>1, <2>3 DEF ReadingIsGood
      <3>2. CASE Reads[a.step] \subseteq DOMAIN got
        <4>1. \A i \in 1..(step - 1) : i \in 1..(a.step - 1) \/ i = a.step
          BY <2>4, <3>2
        <4> QED BY <3>1, <3>2, <4>1
      <3>3. CASE ~(Reads[a.step] \subseteq DOMAIN got)
        BY <3>1, <3>3
      <3> QED BY <3>2, <3>3
    <2> HIDE DEF step, b
    <2>6. ReadingIsGood(b)
      BY <1>1, <2>2, <2>3, <2>4, <2>5 DEF ReadingIsGood
    <2> QED BY <1>1, <2>1, <2>6, RequestStep
  <1>4. CASE SummaryDone(q)
    <2> DEFINE c == [state |-> "fresh", unmoved |-> a.unmoved, got |-> a.got]
    <2>1. /\ matter' = matter /\ a.step = Len(Reads) + 1
          /\ statsCache' = [statsCache EXCEPT ![a.range] = c]
          /\ reading' = [reading EXCEPT ![q] = NotAsked]
      BY <1>4 DEF SummaryDone
    <2>2. a.unmoved => \A f \in Figure : a.got[f] = figure(f, a.range)
      <3>1. \A i \in 1..6 : Reads[i] \subseteq DOMAIN a.got
        BY <1>1, <2>1, ReadsAre DEF ReadingIsGood
      <3>2. Figure \subseteq DOMAIN a.got
        BY <3>1, ReadsAre
      <3> QED BY <1>1, <3>2 DEF ReadingIsGood
    <2>3. /\ statsCache' = [d \in DayRange |-> statsCache'[d]]
          /\ \A d \in DayRange : statsCache'[d] = IF d = a.range THEN c ELSE statsCache[d]
      BY <1>1, <2>1
    <2>4. \A d \in DayRange : statsCache'[d] = statsCache[d] \/ AnswerIsGood(d)'
      <3>0. a.range \in DayRange
        BY <1>1 DEF ReadingIsGood
      <3>1. statsCache'[a.range] = c
        BY <2>3, <3>0
      <3>2. \A f, d : figure(f, d)' = figure(f, d)
        BY <2>1, FiguresStand
      <3>3. /\ statsCache'[a.range].unmoved = a.unmoved /\ statsCache'[a.range].got = a.got
            /\ statsCache'[a.range].state = "fresh"
        BY <3>1
      <3>4. statsCache'[a.range] = [state |-> statsCache'[a.range].state,
                                    unmoved |-> statsCache'[a.range].unmoved,
                                    got |-> statsCache'[a.range].got]
        BY <3>1, <3>3
      <3> HIDE DEF c
      <3>5. ASSUME NEW d \in DayRange, d = a.range PROVE AnswerIsGood(d)'
        <4>1. statsCache'[d].unmoved =>
                \A f \in Figure : statsCache'[d].got[f] = figure(f, d)'
          BY <2>2, <3>2, <3>3, <3>5
        <4> QED BY <3>4, <3>5, <4>1 DEF AnswerIsGood
      <3> QED BY <2>3, <3>5
    <2> QED BY <2>1, <2>3, <2>4, NotAskedIsGood, RequestStep
  <1>5. CASE SummaryFails(q)
    <2>1. matter' = matter /\ statsCache' = statsCache
          /\ reading' = [reading EXCEPT ![q] = NotAsked]
      BY <1>5 DEF SummaryFails
    <2> QED BY <1>1, <2>1, NotAskedIsGood, RequestStep
  <1> QED BY <1>2, <1>3, <1>4, <1>5

LEMMA ExpiresInv == ASSUME SInv, NEW range \in DayRange, SummaryExpires(range) PROVE SInv'
  <1>1. /\ matter' = matter /\ reading' = reading
        /\ statsCache' = [statsCache EXCEPT ![range].state = "expired"]
    BY DEF SummaryExpires
  <1>2. statsCache = [d \in DayRange |-> statsCache[d]] /\ \A d \in DayRange : AnswerIsGood(d)
    BY DEF SInv
  <1>3. /\ statsCache' = [d \in DayRange |-> statsCache'[d]]
        /\ \A d \in DayRange : d # range => statsCache'[d] = statsCache[d]
    BY <1>1, <1>2
  <1>4. statsCache'[range] = [state |-> "expired", unmoved |-> statsCache[range].unmoved,
                              got |-> statsCache[range].got]
    BY <1>1, <1>2 DEF AnswerIsGood
  <1>5. AnswerIsGood(range)'
    <2>1. \A f, d : figure(f, d)' = figure(f, d)
      BY <1>1, FiguresStand
    <2> QED BY <1>2, <1>4, <2>1 DEF AnswerIsGood
  <1> QED BY <1>1, <1>3, <1>5, RequestStep

LEMMA SummaryStart == SummaryInit => SInv
  <1> SUFFICES ASSUME SummaryInit PROVE SInv
    OBVIOUS
  <1>1. /\ matter \in Desks /\ reading = [q \in SummaryReq |-> NotAsked]
        /\ statsCache = [d \in DayRange |-> NoAnswer]
    BY DEF SummaryInit
  <1>2. matter \in [Matter -> MatterRow] /\ SubmittedWaits
    BY <1>1, SummaryAssumption DEF SubmittedWaits
  <1>3. \A d \in DayRange : AnswerIsGood(d)
    BY <1>1 DEF AnswerIsGood, NoAnswer
  <1>4. \A q \in SummaryReq : ReadingIsGood(reading[q])
    BY <1>1, NotAskedIsGood
  <1> QED BY <1>1, <1>2, <1>3, <1>4 DEF SInv

\* Zero or the number, whichever is larger.
LEMMA FlooredIs ==
    ASSUME NEW x \in Int PROVE Max({0, x}) = IF x < 0 THEN 0 ELSE x
  BY DEF Max

\* What the invariant says of an answer nothing has crossed.
LEMMA AnswerReads ==
    ASSUME SInv, NEW d \in StillTrue, NEW got, got = statsCache[d].got
    PROVE  /\ d \in DayRange
           /\ got["total"] = Cardinality(unarchivedMatter)
           /\ got["completed"] = Cardinality(withStatus("COMPLETED"))
           /\ got["revenue"] = getRevenueKpis
           /\ got["byStatus"] = [s \in MatterStatus |-> Cardinality(withStatus(s))]
           /\ got["recent"] = Cardinality(createdIn(d))
           /\ got["unpaid"] = Cardinality(withStatus("UNPAID"))
           /\ got["waiting"] = Cardinality(withStatus("WAITING_APPROVAL"))
           /\ got["submitted"] =
                Cardinality({t \in unarchivedMatter : matter[t].approval = "SUBMITTED"})
           /\ got["stuck"] = Cardinality({t \in withStatus("IN_PROGRESS") : matter[t].left})
           /\ got["aged"] = getAgedOutstandingKpi
  <1>1. d \in DayRange /\ statsCache[d].unmoved
    BY DEF StillTrue
  <1>2. \A f \in Figure : got[f] = figure(f, d)
    BY <1>1 DEF SInv, AnswerIsGood
  <1>3. \A f \in {"total", "completed", "revenue", "byStatus", "recent", "unpaid", "waiting",
                  "submitted", "stuck", "aged"} : got[f] = figure(f, d)
    BY <1>2, ReadsAre
  <1>4. got["total"] = Cardinality(unarchivedMatter)
    BY <1>3 DEF figure
  <1>5. got["completed"] = Cardinality(withStatus("COMPLETED"))
    BY <1>3 DEF figure
  <1>6. got["revenue"] = getRevenueKpis
    BY <1>3 DEF figure
  <1>7. got["byStatus"] = [s \in MatterStatus |-> Cardinality(withStatus(s))]
    BY <1>3 DEF figure
  <1>8. got["recent"] = Cardinality(createdIn(d))
    BY <1>3 DEF figure
  <1>9. got["unpaid"] = Cardinality(withStatus("UNPAID"))
    BY <1>3 DEF figure
  <1>10. got["waiting"] = Cardinality(withStatus("WAITING_APPROVAL"))
    BY <1>3 DEF figure
  <1>11. got["submitted"] =
            Cardinality({t \in unarchivedMatter : matter[t].approval = "SUBMITTED"})
    BY <1>3 DEF figure
  <1>12. got["stuck"] = Cardinality({t \in withStatus("IN_PROGRESS") : matter[t].left})
    BY <1>3 DEF figure
  <1>13. got["aged"] = getAgedOutstandingKpi
    BY <1>3 DEF figure
  <1> QED BY <1>1, <1>4, <1>5, <1>6, <1>7, <1>8, <1>9, <1>10, <1>11, <1>12, <1>13

\* The lists behind the figures are finite.
LEMMA ListsAreFinite ==
    ASSUME NEW T, T \subseteq unarchivedMatter
    PROVE  /\ IsFiniteSet(T) /\ Cardinality(T) \in Nat
           /\ \A R \in SUBSET T : Cardinality(R) <= Cardinality(T)
  <1>1. T \in SUBSET Matter /\ IsFiniteSet(Matter)
    BY SummaryAssumption DEF unarchivedMatter
  <1>2. IsFiniteSet(T)
    BY <1>1, FS_Subset
  <1> QED BY <1>2, FS_CardinalityType, FS_Subset

\* Each ticket has one status.
LEMMA StatusesAddUp ==
    ASSUME matter \in [Matter -> MatterRow]
    PROVE  SumFunctionOnSet([s \in MatterStatus |-> Cardinality(withStatus(s))], MatterStatus)
             = Cardinality(unarchivedMatter)
  <1> DEFINE b == [s \in MatterStatus |-> Cardinality(withStatus(s))]
             U == unarchivedMatter
             A == withStatus("UNPAID")
             B == withStatus("IN_PROGRESS")
             C == withStatus("WAITING_APPROVAL")
             D == withStatus("COMPLETED")
             E == withStatus("DELIVERED")
  <1>1. \A s \in MatterStatus : b[s] = Cardinality(withStatus(s)) /\ b[s] \in Int
    BY ListsAreFinite DEF withStatus
  <1>2. MatterStatus = {"UNPAID", "IN_PROGRESS", "WAITING_APPROVAL", "COMPLETED", "DELIVERED"}
    BY DEF MatterStatus
  <1>3. /\ A \subseteq U /\ B \subseteq U \ A /\ C \subseteq (U \ A) \ B
        /\ D \subseteq ((U \ A) \ B) \ C /\ E = (((U \ A) \ B) \ C) \ D
    <2>1. \A t \in U : matter[t].status \in MatterStatus
      BY DEF unarchivedMatter, MatterRow
    <2> QED BY <1>2, <2>1 DEF withStatus
  <1>4. /\ b["UNPAID"] = Cardinality(A) /\ b["IN_PROGRESS"] = Cardinality(B)
        /\ b["WAITING_APPROVAL"] = Cardinality(C) /\ b["COMPLETED"] = Cardinality(D)
        /\ b["DELIVERED"] = Cardinality(E)
    BY <1>1, <1>2
  <1>5. /\ IsFiniteSet(U) /\ Cardinality(U) \in Nat /\ Cardinality(A) \in Nat
        /\ Cardinality(B) \in Nat /\ Cardinality(C) \in Nat /\ Cardinality(D) \in Nat
        /\ Cardinality(E) \in Nat
    BY ListsAreFinite DEF withStatus
  <1>6. ASSUME NEW S, IsFiniteSet(S), NEW T, T \subseteq S
        PROVE  IsFiniteSet(S \ T) /\ Cardinality(S \ T) = Cardinality(S) - Cardinality(T)
    <2>1. S \cap T = T
      BY <1>6
    <2> QED BY <1>6, <2>1, FS_Difference
  <1> HIDE DEF A, B, C, D, E, U
  <1>7. Cardinality(E) = Cardinality(U) - Cardinality(A) - Cardinality(B) - Cardinality(C)
                           - Cardinality(D)
    <2>1. IsFiniteSet(U \ A) /\ Cardinality(U \ A) = Cardinality(U) - Cardinality(A)
      BY <1>3, <1>5, <1>6
    <2>2. /\ IsFiniteSet((U \ A) \ B)
          /\ Cardinality((U \ A) \ B) = Cardinality(U \ A) - Cardinality(B)
      BY <1>3, <1>6, <2>1
    <2>3. /\ IsFiniteSet(((U \ A) \ B) \ C)
          /\ Cardinality(((U \ A) \ B) \ C) = Cardinality((U \ A) \ B) - Cardinality(C)
      BY <1>3, <1>6, <2>2
    <2>4. Cardinality(E) = Cardinality(((U \ A) \ B) \ C) - Cardinality(D)
      BY <1>3, <1>6, <2>3
    <2> QED BY <1>5, <2>1, <2>2, <2>3, <2>4
  <1> HIDE DEF b
  <1>8. SumFunctionOnSet(b, MatterStatus) =
          b["UNPAID"] + b["IN_PROGRESS"] + b["WAITING_APPROVAL"] + b["COMPLETED"] + b["DELIVERED"]
    <2> DEFINE S1 == {"UNPAID"}
               S2 == S1 \cup {"IN_PROGRESS"}
               S3 == S2 \cup {"WAITING_APPROVAL"}
               S4 == S3 \cup {"COMPLETED"}
    <2>1. IsFiniteSet(S1) /\ IsFiniteSet(S2) /\ IsFiniteSet(S3) /\ IsFiniteSet(S4)
      BY FS_EmptySet, FS_AddElement, FS_Singleton
    <2>2. \A s \in MatterStatus : b[s] \in Int
      BY <1>1
    <2>3. SumFunctionOnSet(b, S1) = b["UNPAID"]
      <3>1. SumFunctionOnSet(b, {} \cup {"UNPAID"}) = b["UNPAID"] + SumFunctionOnSet(b, {})
        BY <1>2, <2>2, FS_EmptySet, SumAdd
      <3>2. SumFunctionOnSet(b, {}) = 0 /\ {} \cup {"UNPAID"} = S1
        BY SumEmpty
      <3> QED BY <1>2, <2>2, <3>1, <3>2
    <2>4. SumFunctionOnSet(b, S2) = b["IN_PROGRESS"] + SumFunctionOnSet(b, S1)
      BY <1>2, <2>1, <2>2, SumAdd
    <2>5. SumFunctionOnSet(b, S3) = b["WAITING_APPROVAL"] + SumFunctionOnSet(b, S2)
      BY <1>2, <2>1, <2>2, SumAdd
    <2>6. SumFunctionOnSet(b, S4) = b["COMPLETED"] + SumFunctionOnSet(b, S3)
      BY <1>2, <2>1, <2>2, SumAdd
    <2>7. SumFunctionOnSet(b, MatterStatus) = b["DELIVERED"] + SumFunctionOnSet(b, S4)
      <3>1. S4 \cup {"DELIVERED"} = MatterStatus /\ "DELIVERED" \notin S4
        BY <1>2
      <3> HIDE DEF S4
      <3>2. SumFunctionOnSet(b, S4 \cup {"DELIVERED"}) = b["DELIVERED"] + SumFunctionOnSet(b, S4)
        BY <2>1, <2>2, <3>1, SumAdd
      <3> QED BY <3>1, <3>2
    <2>8. /\ b["UNPAID"] \in Int /\ b["IN_PROGRESS"] \in Int /\ b["WAITING_APPROVAL"] \in Int
          /\ b["COMPLETED"] \in Int /\ b["DELIVERED"] \in Int
      BY <1>2, <2>2
    <2> HIDE DEF S1, S2, S3, S4
    <2> QED BY <2>3, <2>4, <2>5, <2>6, <2>7, <2>8
  <1> QED BY <1>4, <1>5, <1>7, <1>8 DEF b, U

LEMMA LinksHold == SInv => CountsMatchTheirLinks
  <1> SUFFICES ASSUME SInv, NEW d \in StillTrue, NEW a \in buildPendingActions(statsCache[d].got)
               PROVE  LET opened == Cardinality(withStatus(a.list)) IN
                      CASE a.key \in {"unpaid_tickets", "waiting_approval"} -> a.count = opened
                        [] a.key = "clerk_submitted" ->
                             (\E t \in Matter : matter[t].byHand) \/ a.count <= opened
                        [] OTHER -> a.count <= opened
    BY DEF CountsMatchTheirLinks
  <1> DEFINE got == statsCache[d].got
  <1>1. /\ got["unpaid"] = Cardinality(withStatus("UNPAID"))
        /\ got["waiting"] = Cardinality(withStatus("WAITING_APPROVAL"))
        /\ got["submitted"] =
             Cardinality({t \in unarchivedMatter : matter[t].approval = "SUBMITTED"})
        /\ got["stuck"] = Cardinality({t \in withStatus("IN_PROGRESS") : matter[t].left})
    BY AnswerReads
  <1>2. CASE a = [key |-> "unpaid_tickets", count |-> got["unpaid"], list |-> "UNPAID"]
    BY <1>1, <1>2
  <1>3. CASE a = [key |-> "waiting_approval", count |-> got["waiting"],
                  list |-> "WAITING_APPROVAL"]
    BY <1>1, <1>3
  <1>4. CASE a = [key |-> "clerk_submitted", count |-> got["submitted"],
                  list |-> "WAITING_APPROVAL"]
    <2>1. ASSUME \A t \in Matter : ~matter[t].byHand
          PROVE  a.count <= Cardinality(withStatus("WAITING_APPROVAL"))
      <3>1. {t \in unarchivedMatter : matter[t].approval = "SUBMITTED"}
              \in SUBSET withStatus("WAITING_APPROVAL")
        BY <2>1 DEF SInv, SubmittedWaits, withStatus, unarchivedMatter
      <3> QED BY <1>1, <1>4, <3>1, ListsAreFinite DEF withStatus
    <2> QED BY <1>4, <2>1
  <1>5. CASE a = [key |-> "stuck_in_progress", count |-> got["stuck"], list |-> "IN_PROGRESS"]
    <2>1. {t \in withStatus("IN_PROGRESS") : matter[t].left} \in SUBSET withStatus("IN_PROGRESS")
      OBVIOUS
    <2>2. a.count <= Cardinality(withStatus("IN_PROGRESS"))
      BY <1>1, <1>5, <2>1, ListsAreFinite DEF withStatus
    <2> QED BY <1>5, <2>2
  <1> QED BY <1>2, <1>3, <1>4, <1>5 DEF buildPendingActions

\* The old debts are a part of all debts, in the same currency.
LEMMA AgedIsAPart ==
    ASSUME matter \in [Matter -> MatterRow], \A t \in Matter : matter[t].paid <= matter[t].total
    PROVE  /\ getAgedOutstandingKpi.pkr <= getRevenueKpis.outstandingBalance
           /\ getAgedOutstandingKpi.excluded <= getRevenueKpis.excluded
  <1> DEFINE U == unarchivedMatter
             total == [t \in Matter |-> matter[t].total]
             paid == [t \in Matter |-> matter[t].paid]
             left == [t \in Matter |-> remainder(t)]
             pkr(v) == [t \in Matter |-> v[t] * matter[t].rate]
             P == pkr(total)
             Q == pkr(paid)
             R == pkr(left)
             due == [t \in Matter |-> (matter[t].total - matter[t].paid) * matter[t].rate]
  <1>1. ASSUME NEW t \in Matter
        PROVE  /\ matter[t].total \in Nat /\ matter[t].paid \in Nat /\ matter[t].rate \in Nat
               /\ left[t] = matter[t].total - matter[t].paid
    <2>1. matter[t].total \in Nat /\ matter[t].paid \in Nat /\ matter[t].rate \in Nat
      BY DEF MatterRow
    <2>2. remainder(t) = matter[t].total - matter[t].paid
      BY <2>1, FlooredIs DEF remainder
    <2> QED BY <2>1, <2>2
  <1>2. ASSUME NEW t \in Matter
        PROVE  /\ P[t] \in Int /\ Q[t] \in Int /\ due[t] \in Nat
               /\ due[t] = P[t] - Q[t] /\ R[t] = due[t]
    <2>1. ASSUME NEW x \in Nat, NEW y \in Nat, NEW r \in Nat, y <= x
          PROVE  x * r \in Int /\ y * r \in Int /\ (x - y) * r \in Nat
                 /\ (x - y) * r = x * r - y * r
      BY <2>1
    <2>2. /\ matter[t].total \in Nat /\ matter[t].paid \in Nat /\ matter[t].rate \in Nat
          /\ matter[t].paid <= matter[t].total /\ left[t] = matter[t].total - matter[t].paid
      BY <1>1
    <2>3. /\ matter[t].total * matter[t].rate \in Int /\ matter[t].paid * matter[t].rate \in Int
          /\ (matter[t].total - matter[t].paid) * matter[t].rate \in Nat
          /\ (matter[t].total - matter[t].paid) * matter[t].rate
               = matter[t].total * matter[t].rate - matter[t].paid * matter[t].rate
      BY <2>1, <2>2
    <2> QED BY <2>2, <2>3
  <1>3. U \in SUBSET Matter /\ aged \in SUBSET U /\ IsFiniteSet(U)
    BY ListsAreFinite DEF unarchivedMatter, aged
  <1>4. /\ getAgedOutstandingKpi = [pkr |-> SumFunctionOnSet(R, aged),
                  excluded |-> Cardinality({t \in aged : matter[t].rate = NoRate})]
        /\ getRevenueKpis.excluded = Cardinality({t \in U : matter[t].rate = NoRate})
        /\ getRevenueKpis.outstandingBalance =
             Max({0, SumFunctionOnSet(P, U) - SumFunctionOnSet(Q, U)})
    BY DEF getAgedOutstandingKpi, getRevenueKpis, sumMixedCurrencyToPkr
  <1>5. /\ SumFunctionOnSet(P, U) \in Int /\ SumFunctionOnSet(Q, U) \in Int
        /\ SumFunctionOnSet(due, U) =
             SumFunctionOnSet(P, U) - SumFunctionOnSet(Q, U)
    <2> HIDE DEF P, Q, R, due, U
    <2>1. \A t \in U : /\ P[t] \in Int /\ Q[t] \in Int
                       /\ due[t] = P[t] - Q[t]
      BY <1>2, <1>3
    <2> QED BY <1>3, <2>1, SumType, SumMinus
  <1>6. SumFunctionOnSet(R, aged) <= SumFunctionOnSet(due, U)
    <2> HIDE DEF P, Q, R, due, U
    <2>1. /\ \A t \in U : due[t] \in Nat
          /\ \A t \in aged : R[t] \in Nat /\ R[t] <= due[t]
      BY <1>2, <1>3
    <2> QED BY <1>3, <2>1, SumMonotone
  <1>7. SumFunctionOnSet(R, aged) \in Int
    <2> HIDE DEF R, U
    <2>1. \A t \in aged : R[t] \in Int
      BY <1>2, <1>3
    <2> QED BY <1>3, <2>1, SumType, FS_Subset
  <1>8. /\ {t \in aged : matter[t].rate = NoRate} \in SUBSET {t \in U : matter[t].rate = NoRate}
        /\ {t \in U : matter[t].rate = NoRate} \subseteq unarchivedMatter
    BY <1>3
  <1>9. getAgedOutstandingKpi.excluded <= getRevenueKpis.excluded
    BY <1>4, <1>8, ListsAreFinite
  <1>10. getAgedOutstandingKpi.pkr <= getRevenueKpis.outstandingBalance
    <2> DEFINE x == SumFunctionOnSet(P, U) - SumFunctionOnSet(Q, U)
               y == SumFunctionOnSet(R, aged)
    <2>1. /\ x \in Int /\ y \in Int /\ y <= x
          /\ getRevenueKpis.outstandingBalance = Max({0, x}) /\ getAgedOutstandingKpi.pkr = y
      BY <1>4, <1>5, <1>6, <1>7
    <2> HIDE DEF x, y
    <2> QED BY <2>1, FlooredIs
  <1> QED BY <1>9, <1>10

LEMMA PictureHolds == SInv => OnePicture
  <1> SUFFICES ASSUME SInv, NEW d \in StillTrue
               PROVE  LET got == statsCache[d].got IN
                      /\ SumFunctionOnSet(got.byStatus, MatterStatus) = got.total
                      /\ got.completed = got.byStatus["COMPLETED"] /\ got.recent <= got.total
                      /\ \A e \in StillTrue :
                            d = "7d" /\ e = "30d" => got.recent <= statsCache[e].got.recent
                      /\ (\A t \in Matter : matter[t].paid <= matter[t].total) =>
                            /\ got.aged.pkr <= got.revenue.outstandingBalance
                            /\ got.aged.excluded <= got.revenue.excluded
    BY DEF OnePicture
  <1> DEFINE got == statsCache[d].got
  <1>1. /\ got["total"] = Cardinality(unarchivedMatter)
        /\ got["completed"] = Cardinality(withStatus("COMPLETED"))
        /\ got["revenue"] = getRevenueKpis
        /\ got["byStatus"] = [s \in MatterStatus |-> Cardinality(withStatus(s))]
        /\ got["recent"] = Cardinality(createdIn(d))
        /\ got["aged"] = getAgedOutstandingKpi
    BY AnswerReads
  <1>2. matter \in [Matter -> MatterRow] /\ "COMPLETED" \in MatterStatus
    BY DEF SInv, MatterStatus
  <1>3. SumFunctionOnSet(got["byStatus"], MatterStatus) = got["total"]
    BY <1>1, <1>2, StatusesAddUp
  <1>4. got["completed"] = got["byStatus"]["COMPLETED"]
    BY <1>1, <1>2
  <1>5. got["recent"] <= got["total"]
    <2>1. createdIn(d) \in SUBSET unarchivedMatter
      BY DEF createdIn
    <2> QED BY <1>1, <2>1, ListsAreFinite
  <1>6. ASSUME NEW e \in StillTrue, d = "7d", e = "30d"
        PROVE  got["recent"] <= statsCache[e].got["recent"]
    <2>1. statsCache[e].got["recent"] = Cardinality(createdIn(e))
      BY AnswerReads
    <2>2. createdIn(d) \in SUBSET createdIn(e) /\ createdIn(e) \subseteq unarchivedMatter
      BY <1>6 DEF createdIn
    <2> QED BY <1>1, <2>1, <2>2, ListsAreFinite
  <1>7. ASSUME \A t \in Matter : matter[t].paid <= matter[t].total
        PROVE  /\ got["aged"].pkr <= got["revenue"].outstandingBalance
               /\ got["aged"].excluded <= got["revenue"].excluded
    BY <1>1, <1>2, <1>7, AgedIsAPart
  <1> QED BY <1>3, <1>4, <1>5, <1>6, <1>7

\* What the dashboard shows agrees with itself and with the lists behind its links: for any
\* tickets, amounts and number of requests side by side, the answer of a request no change
\* has crossed is one picture of the tickets, although it is twenty reads
\* (dashboard.service.ts:916-1180).
THEOREM FiguresSound == SummarySpec => []FiguresAgree
  <1>1. SummaryInit => SInv
    BY SummaryStart
  <1>2. SInv /\ [SummaryNext]_summaryVars => SInv'
    <2> SUFFICES ASSUME SInv, [SummaryNext]_summaryVars PROVE SInv'
      OBVIOUS
    <2>1. ASSUME NEW t \in Matter,
                 \/ \E s \in MatterStatus : MoveByHand(t, s)
                 \/ SubmitMatter(t) \/ SendBackMatter(t) \/ ArchiveMatter(t) \/ WeekPasses(t)
                 \/ \E total \in Worth : ReviewMatter(t, total)
                 \/ \E total, paid \in Worth : PayOrPrice(t, total, paid)
          PROVE  SInv'
      BY <2>1, MovesInv
    <2>2. ASSUME NEW q \in SummaryReq,
                 \/ \E range \in DayRange : GetSummary(q, range)
                 \/ \E f \in UNION {Reads[i] : i \in DOMAIN Reads} : ReadFigure(q, f)
                 \/ SummaryDone(q) \/ SummaryFails(q)
          PROVE  SInv'
      BY <2>2, SummaryRequestsInv
    <2>3. ASSUME NEW range \in DayRange, SummaryExpires(range) PROVE SInv'
      BY <2>3, ExpiresInv
    <2>4. CASE UNCHANGED summaryVars
      <3>1. matter' = matter /\ reading' = reading /\ statsCache' = statsCache
        BY <2>4 DEF summaryVars
      <3>2. /\ reading = [q \in SummaryReq |-> reading[q]]
            /\ statsCache' = [d \in DayRange |-> statsCache'[d]]
        BY <3>1 DEF SInv
      <3> QED BY <3>1, <3>2, RequestStep
    <2> QED BY <2>1, <2>2, <2>3, <2>4 DEF SummaryNext
  <1>3. SInv => FiguresAgree
    BY LinksHold, PictureHolds DEF FiguresAgree
  <1> QED BY <1>1, <1>2, <1>3, PTL DEF SummarySpec

-----------------------------------------------------------------------------
\* Tours.

TourRow == {NoRow} \cup [version : Nat \ {0}, status : {"COMPLETED", "DISMISSED"}]
Progress == [Known -> TourRow]

\* The rows of tours are of versions a user has ended.
Earned(stored, seen) ==
    /\ stored \in Progress
    /\ \A t \in Tour : stored[t] # NoRow => <<t, stored[t].version>> \in seen

\* Version v of tour t is stored, or waits to be saved.
In(stored, pending, t, v) == stored[t].version >= v \/ pending[t].version >= v

ProviderField ==
    {"bundle", "impersonating", "known", "loading", "loaded", "answer", "progress", "pending",
     "flush", "failing", "seen", "running", "auto", "shown", "requested", "page", "ready",
     "dialog", "off", "early", "timer", "loads", "plays"}

\* What a timer waits for may start by itself.
MayStart(p, t) ==
    /\ p.loaded /\ t \notin p.seen /\ p.progress[AutoOff] = NoRow /\ ~isTourSeen(p, t)
    /\ t = gs \/ gettingStartedDone(p)

TimerIsRight(p) ==
    /\ p.timer.tour \in Tour \cup {NoTour}
    /\ p.timer.tour # NoTour /\ ~p.timer.asked => MayStart(p, p.timer.tour)

ShapeOf(p) ==
    /\ DOMAIN p = ProviderField
    /\ p.running \in Tour \cup {NoTour} /\ p.requested \in Tour \cup {NoTour}
    /\ p.page \in Tour \cup {NoTour, Onboarding}

\* After the switch was used with the progress known, the page shows what it says.
OffIsShown(p) ==
    p.off = "on" /\ ~p.early => p.loading = "over" /\ (p.loaded => p.progress[AutoOff] # NoRow)

RowsHeld(p, seen) ==
    /\ Earned(p.answer, seen) /\ Earned(p.progress, seen) /\ Earned(p.pending, seen)
    /\ \A t \in Known : p.failing[t] = NoRow \/ p.failing[t] = p.pending[t]
    /\ p.failing \in Progress
    /\ \A t \in Tour : p.pending[t].version <= p.bundle

\* A tour settled before the page was mounted is still known of, in the version released.
Remembers(p, stored, v) ==
    /\ \A t \in Tour : <<t, v>> \in p.known =>
         /\ In(stored, p.pending, t, v)
         /\ p.loading = "answered" => In(p.answer, p.pending, t, v)
         /\ p.loaded => p.progress[t].version >= v

\* What the flush has passed is saved, refused for good, or will be queued again.
Flushes(p, stored, v) ==
    /\ p.flush \subseteq Tour /\ \A t \in p.flush : p.pending[t] # NoRow
    /\ p.flush # {} => \A t \in Tour \ p.flush :
         \/ p.pending[t] = NoRow \/ p.pending[t].version < v
         \/ p.failing[t] = p.pending[t] \/ stored[t].version >= p.pending[t].version

ProviderIsGood(p, stored, seen, v) ==
    /\ ShapeOf(p) /\ TimerIsRight(p) /\ OffIsShown(p)
    /\ p.bundle \in 1..v /\ p.known \subseteq seen
    /\ RowsHeld(p, seen) /\ Remembers(p, stored, v) /\ Flushes(p, stored, v)

SaveIsGood(s, stored, seen, v, bundle) ==
    /\ DOMAIN s = {"tour", "row", "heard", "result"}
    /\ s.tour \in Tour /\ s.row \in TourRow \ {NoRow} /\ <<s.tour, s.row.version>> \in seen
    /\ s.result \in {"sent", "ok", "drop", "retry"}
    /\ s.heard => s.row.version = bundle
    /\ s.result = "ok" => stored[s.tour].version >= s.row.version
    /\ s.result = "drop" => s.row.version < v

\* The inductive invariant.
TInv ==
    /\ release \in Nat \ {0}
    /\ ended \subseteq Tour \X (1..release) /\ settled \subseteq ended
    /\ Earned(progressOf, ended) /\ Earned(queue, ended)
    /\ \A t \in Tour : queue[t].version <= provider.bundle
    /\ \A t \in Tour : <<t, release>> \in settled => In(progressOf, queue, t, release)
    /\ \A s \in saves : SaveIsGood(s, progressOf, ended, release, provider.bundle)
    /\ ProviderIsGood(provider, progressOf, ended, release)

\* The switch, "no page" and the onboarding wizard are no tours.
LEMMA TourNames ==
    /\ gs \in Tour /\ Tour \subseteq Known /\ AutoOff \in Known /\ AutoOff \notin Tour
    /\ NoTour \notin Tour /\ Onboarding \notin Tour
    /\ \A t \in Tour : nextTour(t) \in Tour \cup {NoTour}
  BY DEF Tour, Known, gs, AutoOff, NoTour, Onboarding, nextTour

\* Every row but the one that says nothing has a version from 1 on.
LEMMA VersionIs ==
    ASSUME NEW r \in TourRow
    PROVE  r.version \in Nat /\ (r # NoRow <=> r.version >= 1) /\ (r = NoRow <=> r.version = 0)
  BY DEF TourRow, NoRow

LEMMA RowIs ==
    ASSUME NEW v \in Nat \ {0}, NEW s \in {"COMPLETED", "DISMISSED"}
    PROVE  Row(v, s) \in TourRow /\ Row(v, s).version = v /\ Row(v, s) # NoRow
  BY DEF Row, TourRow, NoRow

\* No rows at all.
LEMMA NoneIs == None \in Progress /\ \A t \in Known : None[t] = NoRow
  BY DEF None, Progress, TourRow

\* Rows of progress are rows, with versions that are numbers.
LEMMA RowOf ==
    ASSUME NEW a \in Progress, NEW t \in Known PROVE a[t] \in TourRow /\ a[t].version \in Nat
  BY VersionIs DEF Progress

\* A merge takes each row from one side and loses no version of either.
LEMMA MergedIs ==
    ASSUME NEW a \in Progress, NEW b \in Progress
    PROVE  /\ mergeProgress(a, b) \in Progress
           /\ \A t \in Known : /\ mergeProgress(a, b)[t] \in {a[t], b[t]}
                               /\ b[t] = NoRow => mergeProgress(a, b)[t] = a[t]
                               /\ mergeProgress(a, b)[t].version >= a[t].version
                               /\ mergeProgress(a, b)[t].version >= b[t].version
  <1> DEFINE m == mergeProgress(a, b)
  <1>1. \A t \in Known : m[t] = IF b[t] # NoRow /\ b[t].version >= a[t].version
                                THEN b[t] ELSE a[t]
    BY DEF mergeProgress
  <1>2. \A t \in Known : a[t] \in TourRow /\ b[t] \in TourRow
    BY DEF Progress
  <1>3. m \in Progress
    BY <1>2 DEF mergeProgress, Progress
  <1> HIDE DEF m
  <1>4. ASSUME NEW t \in Known
        PROVE  /\ m[t] \in {a[t], b[t]} /\ (b[t] = NoRow => m[t] = a[t])
               /\ m[t].version >= a[t].version /\ m[t].version >= b[t].version
    <2>1. a[t].version \in Nat /\ b[t].version \in Nat /\ (b[t] = NoRow => b[t].version = 0)
      BY <1>2, VersionIs
    <2> QED BY <1>1, <2>1
  <1> QED BY <1>3, <1>4 DEF m

\* What is earned stays earned when it is merged, put, dropped or switched.
LEMMA EarnedMerge ==
    ASSUME NEW seen, NEW a, Earned(a, seen), NEW b, Earned(b, seen)
    PROVE  Earned(mergeProgress(a, b), seen)
  <1>1. a \in Progress /\ b \in Progress
    BY DEF Earned
  <1> DEFINE m == mergeProgress(a, b)
  <1>2. m \in Progress /\ \A t \in Known : m[t] \in {a[t], b[t]}
    BY <1>1, MergedIs
  <1> HIDE DEF m
  <1>3. \A t \in Tour : m[t] = a[t] \/ m[t] = b[t]
    BY <1>2, TourNames
  <1>4. Earned(m, seen)
    BY <1>2, <1>3 DEF Earned
  <1> QED BY <1>4 DEF m

LEMMA EarnedMore ==
    ASSUME NEW seen, NEW more, seen \subseteq more, NEW a, Earned(a, seen)
    PROVE  Earned(a, more)
  BY DEF Earned

LEMMA EarnedPut ==
    ASSUME NEW seen, NEW a, Earned(a, seen), NEW t \in Known, NEW r \in TourRow,
           t \in Tour /\ r # NoRow => <<t, r.version>> \in seen
    PROVE  /\ Earned([a EXCEPT ![t] = r], seen)
           /\ [a EXCEPT ![t] = r][t] = r
           /\ \A u \in Known \ {t} : [a EXCEPT ![t] = r][u] = a[u]
  <1> DEFINE b == [a EXCEPT ![t] = r]
  <1>1. a \in Progress
    BY DEF Earned
  <1>2. b \in Progress /\ b[t] = r /\ \A u \in Known \ {t} : b[u] = a[u]
    BY <1>1 DEF Progress
  <1> HIDE DEF b
  <1>3. Earned(b, seen)
    BY <1>2, TourNames DEF Earned
  <1> QED BY <1>2, <1>3 DEF b

LEMMA EarnedDrop ==
    ASSUME NEW seen, NEW a, Earned(a, seen), NEW t \in Known
    PROVE  /\ Earned([a EXCEPT ![t] = NoRow], seen)
           /\ [a EXCEPT ![t] = NoRow][t] = NoRow
           /\ \A u \in Known \ {t} : [a EXCEPT ![t] = NoRow][u] = a[u]
  <1> DEFINE b == [a EXCEPT ![t] = NoRow]
  <1>1. a \in Progress /\ NoRow \in TourRow
    BY DEF Earned, TourRow
  <1>2. b \in Progress /\ b[t] = NoRow /\ \A u \in Known \ {t} : b[u] = a[u]
    BY <1>1 DEF Progress
  <1> HIDE DEF b
  <1>3. Earned(b, seen)
    BY <1>2, TourNames DEF Earned
  <1> QED BY <1>2, <1>3 DEF b

LEMMA EarnedSwitch ==
    ASSUME NEW seen, NEW a, Earned(a, seen), NEW r \in TourRow
    PROVE  /\ Earned([a EXCEPT ![AutoOff] = r], seen)
           /\ [a EXCEPT ![AutoOff] = r][AutoOff] = r
           /\ \A u \in Known \ {AutoOff} : [a EXCEPT ![AutoOff] = r][u] = a[u]
  <1> DEFINE b == [a EXCEPT ![AutoOff] = r]
  <1>1. a \in Progress /\ AutoOff \in Known
    BY TourNames DEF Earned
  <1>2. b \in Progress /\ b[AutoOff] = r /\ \A u \in Known \ {AutoOff} : b[u] = a[u]
    BY <1>1 DEF Progress
  <1> HIDE DEF b
  <1>3. Earned(b, seen)
    BY <1>2, TourNames DEF Earned
  <1> QED BY <1>2, <1>3 DEF b

LEMMA NoneEarned == ASSUME NEW seen PROVE Earned(None, seen)
  BY NoneIs, TourNames DEF Earned

\* What no render and no click changes of a provider.
Core(p, q) ==
    /\ q.bundle = p.bundle /\ q.known = p.known /\ q.loading = p.loading /\ q.loaded = p.loaded
    /\ q.answer = p.answer /\ q.progress = p.progress /\ q.pending = p.pending
    /\ q.flush = p.flush /\ q.failing = p.failing /\ q.off = p.off /\ q.early = p.early

\* What may start depends on four fields of the provider.
LEMMA MayStartStill ==
    ASSUME NEW p, NEW q, NEW t, MayStart(p, t),
           q.loaded = p.loaded, q.seen = p.seen, q.progress = p.progress, q.bundle = p.bundle
    PROVE  MayStart(q, t)
  BY DEF MayStart, isTourSeen, gettingStartedDone

\* A timer that was just set is right.
LEMMA CandidateIs ==
    ASSUME NEW p, ShapeOf(p)
    PROVE  /\ candidate(p).tour \in Tour \cup {NoTour}
           /\ candidate(p).tour # NoTour /\ ~candidate(p).asked => MayStart(p, candidate(p).tour)
  <1> DEFINE c == candidate(p)
             wanted == [tour |-> p.requested, asked |-> TRUE]
             started == [tour |-> gs, asked |-> FALSE]
             paged == [tour |-> p.page, asked |-> FALSE]
             nothing == [tour |-> NoTour, asked |-> FALSE]
  <1>1. \/ c = wanted \/ c = nothing
        \/ c = started /\ shouldAutoPlay(p, gs)
        \/ c = paged /\ p.page \in Tour /\ shouldAutoPlay(p, p.page)
    BY Zenon DEF candidate
  <1>2. \A t : shouldAutoPlay(p, t) => MayStart(p, t)
    BY DEF shouldAutoPlay, MayStart
  <1>3. p.requested \in Tour \cup {NoTour}
    BY DEF ShapeOf
  <1> HIDE DEF c
  <1>4. c.tour \in Tour \cup {NoTour} /\ (c.tour # NoTour /\ ~c.asked => MayStart(p, c.tour))
    BY <1>1, <1>2, <1>3, TourNames
  <1> QED BY <1>4 DEF c

\* A render touches nothing but the timer.
LEMMA RenderIs ==
    ASSUME NEW p, ShapeOf(p), NEW q, q = [p EXCEPT !.timer = candidate(p)]
    PROVE  /\ ShapeOf(q) /\ TimerIsRight(q) /\ Core(p, q)
           /\ q.running = p.running /\ q.auto = p.auto /\ q.seen = p.seen
  <1> DEFINE c == candidate(p)
  <1>1. /\ c.tour \in Tour \cup {NoTour}
        /\ c.tour # NoTour /\ ~c.asked => MayStart(p, c.tour)
    BY CandidateIs
  <1>2. q = [p EXCEPT !.timer = c]
    OBVIOUS
  <1> HIDE DEF c
  <1>3. /\ DOMAIN q = ProviderField /\ Core(p, q) /\ q.timer = c
        /\ q.running = p.running /\ q.auto = p.auto /\ q.seen = p.seen
        /\ q.requested = p.requested /\ q.page = p.page
    BY <1>2 DEF Core, ShapeOf, ProviderField
  <1>4. \A t : MayStart(p, t) => MayStart(q, t)
    BY <1>3, MayStartStill DEF Core
  <1>5. TimerIsRight(q)
    BY <1>1, <1>3, <1>4 DEF TimerIsRight
  <1>6. ShapeOf(q)
    BY <1>3 DEF ShapeOf
  <1> QED BY <1>3, <1>5, <1>6

\* A step that changes of the provider neither what it holds nor what it remembers.
LEMMA StaysGood ==
    ASSUME NEW p, NEW stored, NEW seen, NEW v, ProviderIsGood(p, stored, seen, v),
           NEW q, Core(p, q), ShapeOf(q), TimerIsRight(q)
    PROVE  ProviderIsGood(q, stored, seen, v)
  <1>1. OffIsShown(q) /\ q.bundle \in 1..v /\ q.known \subseteq seen
    BY DEF ProviderIsGood, Core, OffIsShown
  <1>2. RowsHeld(q, seen)
    BY DEF ProviderIsGood, Core, RowsHeld
  <1>3. Remembers(q, stored, v)
    BY DEF ProviderIsGood, Core, Remembers, In
  <1>4. Flushes(q, stored, v)
    BY DEF ProviderIsGood, Core, Flushes
  <1> QED BY <1>1, <1>2, <1>3, <1>4 DEF ProviderIsGood

\* Steps of the provider alone keep the invariant when what it holds is the same.
LEMMA PlainStep ==
    ASSUME TInv, Core(provider, provider'), ShapeOf(provider'), TimerIsRight(provider'),
           UNCHANGED <<release, progressOf, queue, saves, ended, settled>>
    PROVE  TInv'
  <1>1. ProviderIsGood(provider', progressOf, ended, release)
    BY StaysGood DEF TInv
  <1>2. provider'.bundle = provider.bundle
    BY DEF Core
  <1> QED BY <1>1, <1>2 DEF TInv

LEMMA RenderStep ==
    ASSUME TInv, NEW p, ShapeOf(p), Core(provider, p), Rendered(p),
           UNCHANGED <<release, progressOf, queue, saves, ended, settled>>
    PROVE  TInv'
  <1>1. /\ ShapeOf(provider') /\ TimerIsRight(provider') /\ Core(p, provider')
    BY RenderIs DEF Rendered
  <1>2. Core(provider, provider')
    BY <1>1 DEF Core
  <1> QED BY <1>1, <1>2, PlainStep

\* A step that leaves the timer alone.
LEMMA TimerStill ==
    ASSUME NEW p, TimerIsRight(p), NEW q, q.timer = p.timer, q.loaded = p.loaded,
           q.seen = p.seen, q.progress = p.progress, q.bundle = p.bundle
    PROVE  TimerIsRight(q)
  <1>1. \A t : MayStart(p, t) => MayStart(q, t)
    BY MayStartStill
  <1> QED BY <1>1 DEF TimerIsRight

LEMMA CoreRefl == ASSUME NEW p PROVE Core(p, p)
  BY DEF Core

LEMMA PlayStep ==
    ASSUME TInv, NEW p, ShapeOf(p), Core(provider, p), NEW t \in Tour, NEW auto, Play(p, t, auto)
    PROVE  TInv'
  <1> DEFINE q == [p EXCEPT !.running = t, !.auto = auto, !.plays = @ + 1]
  <1>1. Rendered(q) /\ UNCHANGED <<release, progressOf, queue, saves, ended, settled>>
    BY DEF Play
  <1>2. ShapeOf(q) /\ Core(p, q)
    BY DEF ShapeOf, ProviderField, Core
  <1> HIDE DEF q
  <1>3. Core(provider, q)
    BY <1>2 DEF Core
  <1> QED BY <1>1, <1>2, <1>3, RenderStep

LEMMA GoStep ==
    ASSUME TInv, NEW p, ShapeOf(p), Core(provider, p), NEW page \in Tour \cup {Onboarding},
           Go(p, page), UNCHANGED <<release, progressOf, queue, saves, ended, settled>>
    PROVE  TInv'
  <1> DEFINE q == [p EXCEPT !.page = page, !.ready = FALSE]
  <1>1. Rendered(q)
    BY DEF Go
  <1>2. ShapeOf(q) /\ Core(p, q)
    BY DEF ShapeOf, ProviderField, Core
  <1> HIDE DEF q
  <1>3. Core(provider, q)
    BY <1>2 DEF Core
  <1> QED BY <1>1, <1>2, <1>3, RenderStep

\* Playing and the page.
LEMMA FireInv == ASSUME TInv, Fire PROVE TInv'
  <1>1. ShapeOf(provider) /\ TimerIsRight(provider) /\ Core(provider, provider)
    BY CoreRefl DEF TInv, ProviderIsGood
  <1>2. provider.timer.tour \in Tour
    BY <1>1 DEF Fire, TimerIsRight
  <1>3. CASE provider.dialog
    <2> DEFINE c == [tour |-> NoTour, asked |-> FALSE]
               q == [provider EXCEPT !.timer = c]
    <2>1. provider' = q /\ UNCHANGED <<release, progressOf, queue, saves, ended, settled>>
      BY <1>3 DEF Fire
    <2>2. c.tour = NoTour
      OBVIOUS
    <2> HIDE DEF c
    <2>3. ShapeOf(q) /\ Core(provider, q) /\ q.timer = c
      BY <1>1 DEF ShapeOf, ProviderField, Core
    <2> HIDE DEF q
    <2>4. TimerIsRight(q)
      BY <2>2, <2>3 DEF TimerIsRight
    <2> QED BY <2>1, <2>3, <2>4, PlainStep
  <1>4. CASE ~provider.dialog
    <2> DEFINE a == [provider EXCEPT !.requested = NoTour]
               p == IF provider.timer.asked THEN a ELSE provider
    <2>1. Play(p, provider.timer.tour, ~provider.timer.asked)
      BY <1>4, Zenon DEF Fire
    <2>2. ShapeOf(a) /\ Core(provider, a)
      BY <1>1 DEF ShapeOf, ProviderField, Core
    <2> HIDE DEF a
    <2>3. ShapeOf(p) /\ Core(provider, p)
      BY <1>1, <2>2
    <2> QED BY <1>2, <2>1, <2>3, PlayStep
  <1> QED BY <1>3, <1>4

LEMMA PageInv ==
    ASSUME TInv,
           \/ Shown \/ PageReady \/ Dialog
           \/ \E t \in Tour : start(t) \/ requestTour(t)
           \/ \E page \in (Tour \ {gs}) \cup {Onboarding} : registerPageTour(page)
    PROVE  TInv'
  <1>1. ShapeOf(provider) /\ TimerIsRight(provider) /\ Core(provider, provider)
    BY CoreRefl DEF TInv, ProviderIsGood
  <1>2. CASE Shown
    <2> DEFINE q == [provider EXCEPT !.shown = TRUE]
    <2>1. provider' = q /\ UNCHANGED <<release, progressOf, queue, saves, ended, settled>>
      BY <1>2 DEF Shown
    <2>2. ShapeOf(q) /\ Core(provider, q) /\ q.timer = provider.timer /\ q.seen = provider.seen
      BY <1>1 DEF ShapeOf, ProviderField, Core
    <2> HIDE DEF q
    <2>3. TimerIsRight(q)
      BY <1>1, <2>2, TimerStill DEF Core
    <2> QED BY <2>1, <2>2, <2>3, PlainStep
  <1>3. CASE Dialog
    <2> DEFINE q == [provider EXCEPT !.dialog = ~@]
    <2>1. provider' = q /\ UNCHANGED <<release, progressOf, queue, saves, ended, settled>>
      BY <1>3 DEF Dialog
    <2>2. ShapeOf(q) /\ Core(provider, q) /\ q.timer = provider.timer /\ q.seen = provider.seen
      BY <1>1 DEF ShapeOf, ProviderField, Core
    <2> HIDE DEF q
    <2>3. TimerIsRight(q)
      BY <1>1, <2>2, TimerStill DEF Core
    <2> QED BY <2>1, <2>2, <2>3, PlainStep
  <1>4. CASE PageReady
    <2> DEFINE q == [provider EXCEPT !.ready = TRUE]
    <2>1. Rendered(q) /\ UNCHANGED <<release, progressOf, queue, saves, ended, settled>>
      BY <1>4 DEF PageReady
    <2>2. ShapeOf(q) /\ Core(provider, q)
      BY <1>1 DEF ShapeOf, ProviderField, Core
    <2> HIDE DEF q
    <2> QED BY <2>1, <2>2, RenderStep
  <1>5. CASE \E t \in Tour : start(t)
    <2>1. PICK t \in Tour : Play(provider, t, FALSE)
      BY <1>5, Zenon DEF start
    <2> QED BY <1>1, <2>1, PlayStep
  <1>6. CASE \E t \in Tour : requestTour(t)
    <2>1. PICK t \in Tour : requestTour(t)
      BY <1>6
    <2> DEFINE p == [provider EXCEPT !.requested = t]
    <2>2. Go(p, t) /\ UNCHANGED <<release, progressOf, queue, saves, ended, settled>>
      BY <2>1 DEF requestTour
    <2>3. ShapeOf(p) /\ Core(provider, p)
      BY <1>1 DEF ShapeOf, ProviderField, Core
    <2> HIDE DEF p
    <2> QED BY <2>2, <2>3, GoStep
  <1>7. CASE \E page \in (Tour \ {gs}) \cup {Onboarding} : registerPageTour(page)
    <2>1. PICK page \in Tour \cup {Onboarding} :
            Go(provider, page) /\ UNCHANGED <<release, progressOf, queue, saves, ended, settled>>
      BY <1>7 DEF registerPageTour
    <2> QED BY <1>1, <2>1, GoStep
  <1> QED BY <1>2, <1>3, <1>4, <1>5, <1>6, <1>7

\* A step of the provider that touches neither the queue nor a save.
LEMMA ProviderStep ==
    ASSUME TInv, ProviderIsGood(provider', progressOf, ended, release),
           provider'.bundle = provider.bundle,
           UNCHANGED <<release, progressOf, queue, saves, ended, settled>>
    PROVE  TInv'
  BY DEF TInv

LEMMA ListServedInv == ASSUME TInv, ListServed PROVE TInv'
  <1> DEFINE p == provider
             q == [p EXCEPT !.loading = "answered", !.answer = progressOf]
  <1>1. p.loading = "asked" /\ provider' = q
        /\ UNCHANGED <<release, progressOf, queue, saves, ended, settled>>
    BY DEF ListServed
  <1>2. ProviderIsGood(p, progressOf, ended, release) /\ Earned(progressOf, ended)
    BY DEF TInv
  <1>3. ShapeOf(p) /\ DOMAIN p = ProviderField
    BY <1>2 DEF ProviderIsGood, ShapeOf
  <1>4. /\ ShapeOf(q) /\ q.loading = "answered" /\ q.answer = progressOf /\ q.timer = p.timer
        /\ q.bundle = p.bundle /\ q.known = p.known /\ q.loaded = p.loaded /\ q.seen = p.seen
        /\ q.progress = p.progress /\ q.pending = p.pending /\ q.flush = p.flush
        /\ q.failing = p.failing /\ q.off = p.off /\ q.early = p.early
    BY <1>3 DEF ShapeOf, ProviderField
  <1> HIDE DEF q, p
  <1>5. TimerIsRight(q)
    BY <1>2, <1>4, TimerStill DEF ProviderIsGood
  <1>6. OffIsShown(q) /\ q.bundle \in 1..release /\ q.known \subseteq ended
    BY <1>1, <1>2, <1>4 DEF ProviderIsGood, OffIsShown
  <1>7. RowsHeld(q, ended)
    BY <1>2, <1>4 DEF ProviderIsGood, RowsHeld
  <1>8. Remembers(q, progressOf, release)
    BY <1>2, <1>4 DEF ProviderIsGood, Remembers, In
  <1>9. Flushes(q, progressOf, release)
    BY <1>2, <1>4 DEF ProviderIsGood, Flushes
  <1>10. ProviderIsGood(q, progressOf, ended, release)
    BY <1>4, <1>5, <1>6, <1>7, <1>8, <1>9 DEF ProviderIsGood
  <1> QED BY <1>1, <1>4, <1>10, ProviderStep DEF p

LEMMA ListFailsInv == ASSUME TInv, ListFails PROVE TInv'
  <1> DEFINE p == provider
             q == [p EXCEPT !.loading = "over"]
  <1>1. p.loading = "asked" /\ provider' = q
        /\ UNCHANGED <<release, progressOf, queue, saves, ended, settled>>
    BY DEF ListFails
  <1>2. ProviderIsGood(p, progressOf, ended, release)
    BY DEF TInv
  <1>3. ShapeOf(p) /\ DOMAIN p = ProviderField
    BY <1>2 DEF ProviderIsGood, ShapeOf
  <1>4. /\ ShapeOf(q) /\ q.loading = "over" /\ q.answer = p.answer /\ q.timer = p.timer
        /\ q.bundle = p.bundle /\ q.known = p.known /\ q.loaded = p.loaded /\ q.seen = p.seen
        /\ q.progress = p.progress /\ q.pending = p.pending /\ q.flush = p.flush
        /\ q.failing = p.failing /\ q.off = p.off /\ q.early = p.early
    BY <1>3 DEF ShapeOf, ProviderField
  <1> HIDE DEF q, p
  <1>5. TimerIsRight(q)
    BY <1>2, <1>4, TimerStill DEF ProviderIsGood
  <1>6. OffIsShown(q) /\ q.bundle \in 1..release /\ q.known \subseteq ended
    BY <1>1, <1>2, <1>4 DEF ProviderIsGood, OffIsShown
  <1>7. RowsHeld(q, ended)
    BY <1>2, <1>4 DEF ProviderIsGood, RowsHeld
  <1>8. Remembers(q, progressOf, release)
    BY <1>2, <1>4 DEF ProviderIsGood, Remembers, In
  <1>9. Flushes(q, progressOf, release)
    BY <1>2, <1>4 DEF ProviderIsGood, Flushes
  <1>10. ProviderIsGood(q, progressOf, ended, release)
    BY <1>4, <1>5, <1>6, <1>7, <1>8, <1>9 DEF ProviderIsGood
  <1> QED BY <1>1, <1>4, <1>10, ProviderStep DEF p

LEMMA LoadedInv == ASSUME TInv, Loaded PROVE TInv'
  <1> DEFINE p == provider
             m == mergeProgress(p.answer, p.pending)
             f == IF p.impersonating THEN {} ELSE {t \in Tour : p.pending[t] # NoRow}
             a == [p EXCEPT !.loading = "over", !.loaded = TRUE, !.progress = m, !.flush = f]
             q == [a EXCEPT !.timer = candidate(a)]
  <1>1. p.loading = "answered" /\ provider' = q
        /\ UNCHANGED <<release, progressOf, queue, saves, ended, settled>>
    BY DEF Loaded, Rendered
  <1>2. ProviderIsGood(p, progressOf, ended, release) /\ release \in Nat
    BY DEF TInv
  <1>3. ShapeOf(p) /\ DOMAIN p = ProviderField
    BY <1>2 DEF ProviderIsGood, ShapeOf
  <1>4. Earned(p.answer, ended) /\ Earned(p.pending, ended)
    BY <1>2 DEF ProviderIsGood, RowsHeld
  <1>5. Earned(m, ended)
    BY <1>4, EarnedMerge
  <1>6. \A t \in Tour : /\ m[t].version >= p.answer[t].version
                        /\ m[t].version >= p.pending[t].version
                        /\ m[t].version \in Nat
                        /\ p.answer[t].version \in Nat /\ p.pending[t].version \in Nat
    BY <1>4, <1>5, MergedIs, RowOf, TourNames DEF Earned
  <1>7. /\ f \subseteq Tour /\ \A t \in f : p.pending[t] # NoRow
        /\ f # {} => \A t \in Tour \ f : p.pending[t] = NoRow
    OBVIOUS
  <1> HIDE DEF m, f
  <1>8. /\ ShapeOf(a) /\ a.loading = "over" /\ a.answer = p.answer /\ a.loaded
        /\ a.bundle = p.bundle /\ a.known = p.known
        /\ a.progress = m /\ a.pending = p.pending /\ a.flush = f
        /\ a.failing = p.failing /\ a.off = p.off /\ a.early = p.early
    BY <1>3 DEF ShapeOf, ProviderField
  <1> HIDE DEF a, p
  <1>9. ShapeOf(q) /\ TimerIsRight(q) /\ Core(a, q)
    BY <1>8, RenderIs
  <1> HIDE DEF q
  <1>10. /\ q.loading = "over" /\ q.answer = p.answer /\ q.loaded
         /\ q.bundle = p.bundle /\ q.known = p.known
         /\ q.progress = m /\ q.pending = p.pending /\ q.flush = f
         /\ q.failing = p.failing /\ q.off = p.off /\ q.early = p.early
    BY <1>8, <1>9 DEF Core
  <1>11. OffIsShown(q) /\ q.bundle \in 1..release /\ q.known \subseteq ended
    BY <1>1, <1>2, <1>10 DEF ProviderIsGood, OffIsShown
  <1>12. RowsHeld(q, ended)
    BY <1>2, <1>5, <1>10 DEF ProviderIsGood, RowsHeld
  <1>13. Remembers(q, progressOf, release)
    BY <1>1, <1>2, <1>6, <1>10 DEF ProviderIsGood, Remembers, In
  <1>14. Flushes(q, progressOf, release)
    BY <1>7, <1>10 DEF Flushes
  <1>15. ProviderIsGood(q, progressOf, ended, release)
    BY <1>9, <1>11, <1>12, <1>13, <1>14 DEF ProviderIsGood
  <1> QED BY <1>1, <1>10, <1>15, ProviderStep DEF p

\* The rows of the API only grow.
Grows(stored, more) == \A t \in Tour : more[t].version >= stored[t].version

\* Nothing earned is of a version that is not released yet.
LEMMA VersionBound ==
    ASSUME TInv, NEW a, Earned(a, ended), NEW t \in Tour
    PROVE  a[t].version \in Nat /\ a[t].version <= release
  <1>1. a[t] \in TourRow /\ a[t].version \in Nat
    BY RowOf, TourNames DEF Earned
  <1>2. ended \subseteq Tour \X (1..release) /\ release \in Nat \ {0}
    BY DEF TInv
  <1>3. a[t] # NoRow => <<t, a[t].version>> \in Tour \X (1..release)
    BY <1>2 DEF Earned
  <1> QED BY <1>1, <1>2, <1>3, VersionIs

LEMMA EndedBound ==
    ASSUME TInv, NEW t, NEW v, <<t, v>> \in ended PROVE t \in Tour /\ v \in 1..release
  BY DEF TInv

\* Saving.
LEMMA SaveIs ==
    ASSUME TInv, NEW t \in Tour, NEW row \in TourRow \ {NoRow}, <<t, row.version>> \in ended,
           save(t, row)
    PROVE  /\ Earned(progressOf', ended) /\ Grows(progressOf, progressOf')
           /\ row.version = release => progressOf'[t].version = row.version
           /\ row.version \in Nat /\ row.version <= release
  <1>1. Earned(progressOf, ended) /\ t \in Known /\ release \in Nat
    BY TourNames DEF TInv
  <1>2. \A u \in Tour : progressOf[u].version \in Nat /\ progressOf[u].version <= release
    BY <1>1, VersionBound
  <1>3. row.version \in 1..release
    BY EndedBound
  <1> DEFINE b == [progressOf EXCEPT ![t] = row]
  <1>4. Earned(b, ended) /\ b[t] = row /\ \A u \in Known \ {t} : b[u] = progressOf[u]
    BY <1>1, EarnedPut
  <1>5. progressOf' = IF row.version = release THEN b ELSE progressOf
    BY DEF save
  <1> HIDE DEF b
  <1>6. CASE row.version = release
    <2>1. \A u \in Tour : b[u] = row \/ b[u] = progressOf[u]
      BY <1>4, TourNames
    <2>2. Grows(progressOf, b)
      BY <1>1, <1>2, <1>4, <1>6, <2>1, TourNames DEF Grows
    <2> QED BY <1>3, <1>4, <1>5, <1>6, <2>2
  <1>7. CASE row.version # release
    <2>1. Grows(progressOf, progressOf)
      BY <1>2 DEF Grows
    <2> QED BY <1>1, <1>3, <1>5, <1>7, <2>1
  <1> QED BY <1>6, <1>7

\* What is good stays good when the rows grow.
LEMMA GrownGood ==
    ASSUME TInv, NEW more, Earned(more, ended), Grows(progressOf, more)
    PROVE  /\ ProviderIsGood(provider, more, ended, release)
           /\ \A s \in saves : SaveIsGood(s, more, ended, release, provider.bundle)
           /\ \A t \in Tour : <<t, release>> \in settled => In(more, queue, t, release)
  <1>1. \A t \in Tour : /\ progressOf[t].version \in Nat /\ more[t].version \in Nat
                        /\ more[t].version >= progressOf[t].version
    BY VersionBound DEF TInv, Grows
  <1>2. ProviderIsGood(provider, progressOf, ended, release) /\ release \in Nat
    BY DEF TInv
  <1>3. \A t \in Tour, v \in Nat : progressOf[t].version >= v => more[t].version >= v
    BY <1>1
  <1>4. Remembers(provider, more, release)
    BY <1>2, <1>3 DEF ProviderIsGood, Remembers, In
  <1>5. Earned(provider.pending, ended)
    BY <1>2 DEF ProviderIsGood, RowsHeld
  <1>6. \A t \in Tour : provider.pending[t].version \in Nat
    BY <1>5, VersionBound
  <1>7. Flushes(provider, more, release)
    BY <1>2, <1>3, <1>6 DEF ProviderIsGood, Flushes
  <1>8. ProviderIsGood(provider, more, ended, release)
    BY <1>2, <1>4, <1>7 DEF ProviderIsGood
  <1>9. ASSUME NEW s \in saves PROVE SaveIsGood(s, more, ended, release, provider.bundle)
    <2>1. SaveIsGood(s, progressOf, ended, release, provider.bundle)
      BY DEF TInv
    <2>2. s.tour \in Tour /\ s.row.version \in Nat
      BY <2>1, EndedBound DEF SaveIsGood
    <2>3. progressOf[s.tour].version >= s.row.version => more[s.tour].version >= s.row.version
      BY <1>3, <2>2
    <2> QED BY <2>1, <2>3 DEF SaveIsGood
  <1>10. \A t \in Tour : <<t, release>> \in settled => In(more, queue, t, release)
    BY <1>2, <1>3 DEF TInv, In
  <1> QED BY <1>8, <1>9, <1>10

\* The answer to a save that a server gave, or did not give.
LEMMA ResultIs ==
    ASSUME NEW s, NEW stored, NEW seen, NEW v, NEW bundle, SaveIsGood(s, stored, seen, v, bundle),
           NEW r \in {"ok", "drop", "retry"},
           r = "ok" => stored[s.tour].version >= s.row.version,
           r = "drop" => s.row.version < v
    PROVE  SaveIsGood([s EXCEPT !.result = r], stored, seen, v, bundle)
  <1> DEFINE q == [s EXCEPT !.result = r]
  <1>1. DOMAIN s = {"tour", "row", "heard", "result"}
    BY DEF SaveIsGood
  <1>2. /\ DOMAIN q = {"tour", "row", "heard", "result"} /\ q.result = r
        /\ q.tour = s.tour /\ q.row = s.row /\ q.heard = s.heard
    BY <1>1
  <1> HIDE DEF q
  <1>3. SaveIsGood(q, stored, seen, v, bundle)
    BY <1>2 DEF SaveIsGood
  <1> QED BY <1>3 DEF q

\* The saves: served, failed, answered, flushed.
LEMMA SaveServedInv ==
    ASSUME TInv, NEW s \in saves, NEW lost \in BOOLEAN, SaveServed(s, lost) PROVE TInv'
  <1>1. SaveIsGood(s, progressOf, ended, release, provider.bundle) /\ release \in Nat
    BY DEF TInv
  <1>2. /\ s.tour \in Tour /\ s.row \in TourRow \ {NoRow} /\ <<s.tour, s.row.version>> \in ended
        /\ save(s.tour, s.row)
    BY <1>1 DEF SaveIsGood, SaveServed
  <1>3. /\ Earned(progressOf', ended) /\ Grows(progressOf, progressOf')
        /\ s.row.version = release => progressOf'[s.tour].version = s.row.version
        /\ s.row.version \in Nat /\ s.row.version <= release
    BY <1>2, SaveIs
  <1>4. /\ ProviderIsGood(provider, progressOf', ended, release)
        /\ \A u \in saves : SaveIsGood(u, progressOf', ended, release, provider.bundle)
        /\ \A t \in Tour : <<t, release>> \in settled => In(progressOf', queue, t, release)
    BY <1>3, GrownGood
  <1> DEFINE r == IF lost THEN "retry" ELSE IF s.row.version = release THEN "ok" ELSE "drop"
             q == [s EXCEPT !.result = r]
  <1>5. /\ saves' = (saves \ {s}) \cup {q}
        /\ UNCHANGED <<release, queue, provider, ended, settled>>
    BY DEF SaveServed
  <1>6. /\ r \in {"ok", "drop", "retry"}
        /\ r = "ok" => progressOf'[s.tour].version >= s.row.version
        /\ r = "drop" => s.row.version < release
    BY <1>1, <1>3
  <1> HIDE DEF r
  <1>7. SaveIsGood(q, progressOf', ended, release, provider.bundle)
    BY <1>4, <1>6, ResultIs
  <1> HIDE DEF q
  <1>8. \A u \in saves' : SaveIsGood(u, progressOf', ended, release, provider.bundle)
    BY <1>4, <1>5, <1>7
  <1> QED BY <1>3, <1>4, <1>5, <1>8 DEF TInv

LEMMA SaveFailsInv == ASSUME TInv, NEW s \in saves, SaveFails(s) PROVE TInv'
  <1> DEFINE q == [s EXCEPT !.result = "retry"]
  <1>1. \A u \in saves : SaveIsGood(u, progressOf, ended, release, provider.bundle)
    BY DEF TInv
  <1>2. /\ saves' = (saves \ {s}) \cup {q}
        /\ UNCHANGED <<release, progressOf, queue, provider, ended, settled>>
    BY DEF SaveFails
  <1>3. SaveIsGood(q, progressOf, ended, release, provider.bundle)
    BY <1>1, ResultIs
  <1> HIDE DEF q
  <1>4. \A u \in saves' : SaveIsGood(u, progressOf, ended, release, provider.bundle)
    BY <1>1, <1>2, <1>3
  <1> QED BY <1>2, <1>4 DEF TInv

LEMMA SaveAnsweredInv == ASSUME TInv, NEW s \in saves, SaveAnswered(s) PROVE TInv'
  <1> DEFINE t == s.tour
             row == s.row
             v == s.row.version
  <1>1. /\ t \in Tour /\ row \in TourRow \ {NoRow} /\ <<t, v>> \in ended
        /\ s.result \in {"ok", "drop", "retry"} /\ (s.heard => v = provider.bundle)
        /\ s.result = "ok" => progressOf[t].version >= v
        /\ s.result = "drop" => v < release
    BY DEF TInv, SaveIsGood, SaveAnswered
  <1>2. /\ release \in Nat /\ Earned(queue, ended) /\ Earned(progressOf, ended)
        /\ settled \subseteq ended
        /\ \A u \in Tour : queue[u].version <= provider.bundle
        /\ \A u \in Tour : <<u, release>> \in settled => In(progressOf, queue, u, release)
        /\ provider.bundle \in 1..release
    BY DEF TInv, ProviderIsGood
  <1>3. v \in 1..release /\ t \in Known
    BY <1>1, EndedBound, TourNames
  <1>4. \A u \in Tour : progressOf[u].version \in Nat /\ queue[u].version \in Nat
    BY <1>2, VersionBound
  <1>5. /\ saves' = saves \ {s}
        /\ UNCHANGED <<release, progressOf, provider, ended>>
        /\ queue' = IF s.heard THEN applySaveResultToPending(queue, s.result, t, row) ELSE queue
        /\ settled' = IF s.heard /\ s.result # "drop" THEN settled \cup {<<t, v>>} ELSE settled
    BY DEF SaveAnswered
  <1> SUFFICES /\ Earned(queue', ended) /\ settled' \subseteq ended
               /\ \A u \in Tour : queue'[u].version <= provider.bundle
               /\ \A u \in Tour : <<u, release>> \in settled' => In(progressOf, queue', u, release)
    BY <1>5 DEF TInv
  <1>6. CASE ~s.heard
    BY <1>2, <1>5, <1>6
  <1>7. CASE s.heard /\ s.result = "retry"
    <2> DEFINE one == [None EXCEPT ![t] = row]
               m == mergeProgress(queue, one)
    <2>1. /\ Earned(one, ended) /\ one[t] = row
          /\ \A u \in Known \ {t} : one[u] = None[u]
      BY <1>1, <1>3, EarnedPut, NoneEarned
    <2>2. Earned(m, ended)
      BY <1>2, <2>1, EarnedMerge
    <2> HIDE DEF one
    <2>3. \A u \in Known : /\ m[u] \in {queue[u], one[u]} /\ (one[u] = NoRow => m[u] = queue[u])
                           /\ m[u].version >= queue[u].version
                           /\ m[u].version >= one[u].version
      BY <1>2, <2>1, MergedIs DEF Earned
    <2> HIDE DEF m
    <2>4. queue' = m /\ settled' = settled \cup {<<t, v>>}
      BY <1>5, <1>7 DEF applySaveResultToPending, m, one
    <2>5. \A u \in Tour : u # t => m[u] = queue[u]
      BY <2>1, <2>3, NoneIs, TourNames
    <2>6. \A u \in Tour : m[u].version <= provider.bundle
      BY <1>1, <1>2, <1>3, <1>7, <2>1, <2>3, <2>5
    <2>7. \A u \in Tour : m[u].version \in Nat
      BY <2>2, VersionBound
    <2>8. ASSUME NEW u \in Tour, <<u, release>> \in settled' PROVE In(progressOf, m, u, release)
      <3>1. CASE <<u, release>> \in settled
        <4>1. m[u].version >= queue[u].version
          BY <2>3, TourNames
        <4> QED BY <1>2, <1>4, <2>7, <3>1, <4>1 DEF In
      <3>2. CASE u = t /\ v = release
        BY <1>3, <2>1, <2>3, <3>2 DEF In
      <3> QED BY <2>4, <2>8, <3>1, <3>2
    <2> QED BY <1>1, <1>2, <2>2, <2>4, <2>6, <2>8
  <1>8. CASE s.heard /\ s.result \in {"ok", "drop"}
    <2> DEFINE b == [queue EXCEPT ![t] = NoRow]
    <2>1. NoRow \in TourRow
      BY DEF TourRow
    <2>2. Earned(b, ended) /\ b[t] = NoRow /\ \A u \in Known \ {t} : b[u] = queue[u]
      BY <1>2, <1>3, EarnedDrop
    <2>3. queue' = b
      BY <1>5, <1>8 DEF applySaveResultToPending
    <2> HIDE DEF b
    <2>4. \A u \in Tour : b[u].version <= provider.bundle
      BY <1>2, <2>1, <2>2, VersionIs, TourNames
    <2>5. settled' \subseteq ended
      BY <1>1, <1>2, <1>5
    <2>6. ASSUME NEW u \in Tour, <<u, release>> \in settled' PROVE In(progressOf, b, u, release)
      <3>1. CASE u # t
        <4>1. <<u, release>> \in settled
          BY <1>5, <2>6, <3>1
        <4> QED BY <1>2, <2>2, <3>1, <4>1, TourNames DEF In
      <3>2. CASE u = t /\ s.result = "ok"
        <4>1. progressOf[t].version >= provider.bundle
          BY <1>1, <1>8, <3>2
        <4>2. CASE <<u, release>> \in settled
          BY <1>2, <1>4, <3>2, <4>1, <4>2 DEF In
        <4>3. CASE v = release
          BY <1>1, <1>8, <3>2, <4>1, <4>3 DEF In
        <4> QED BY <1>5, <2>6, <3>2, <4>2, <4>3
      <3>3. CASE u = t /\ s.result = "drop"
        <4>1. <<u, release>> \in settled
          BY <1>5, <2>6, <3>3
        <4>2. queue[t].version < release
          BY <1>1, <1>2, <1>3, <1>4, <1>8, <3>3
        <4> QED BY <1>1, <1>2, <1>4, <3>3, <4>1, <4>2 DEF In
      <3> QED BY <1>8, <3>1, <3>2, <3>3
    <2> QED BY <2>2, <2>3, <2>4, <2>5, <2>6
  <1> QED BY <1>1, <1>6, <1>7, <1>8

LEMMA FlushOneInv ==
    ASSUME TInv, NEW t \in Tour, NEW fails \in BOOLEAN, FlushOne(t, fails) PROVE TInv'
  <1> DEFINE p == provider
             row == p.pending[t]
             put == [p.failing EXCEPT ![t] = row]
             failing == IF fails THEN put ELSE p.failing
             rest == p.flush \ {t}
             q == [p EXCEPT !.flush = rest, !.failing = failing]
  <1>1. /\ t \in p.flush /\ provider' = q
        /\ IF fails THEN progressOf' = progressOf ELSE save(t, row)
        /\ queue' = IF rest # {} THEN queue
                    ELSE reconcilePendingAfterFlush(queue, p.pending, failing)
        /\ UNCHANGED <<release, saves, ended, settled>>
    BY DEF FlushOne
  <1>2. /\ ProviderIsGood(p, progressOf, ended, release) /\ release \in Nat \ {0}
        /\ Earned(progressOf, ended) /\ Earned(queue, ended)
        /\ \A u \in Tour : queue[u].version <= p.bundle
    BY DEF TInv
  <1>3. /\ Earned(p.pending, ended) /\ p.failing \in Progress /\ p.bundle \in 1..release
        /\ \A u \in Known : p.failing[u] = NoRow \/ p.failing[u] = p.pending[u]
        /\ \A u \in Tour : p.pending[u].version <= p.bundle
        /\ row # NoRow /\ DOMAIN p = ProviderField
    BY <1>1, <1>2 DEF ProviderIsGood, RowsHeld, Flushes, ShapeOf
  <1>4. /\ row \in TourRow \ {NoRow} /\ <<t, row.version>> \in ended /\ t \in Known
        /\ row.version \in 1..release
    BY <1>3, EndedBound, RowOf, TourNames DEF Earned
  <1>5. /\ Earned(progressOf', ended) /\ Grows(progressOf, progressOf')
        /\ fails \/ row.version < release \/ progressOf'[t].version >= row.version
    <2>1. CASE fails
      <3>1. Grows(progressOf, progressOf)
        BY <1>2, VersionBound DEF Grows
      <3> QED BY <1>1, <1>2, <2>1, <3>1
    <2>2. CASE ~fails
      BY <1>1, <1>2, <1>4, <2>2, SaveIs
    <2> QED BY <2>1, <2>2
  <1>6. /\ ProviderIsGood(p, progressOf', ended, release)
        /\ \A s \in saves : SaveIsGood(s, progressOf', ended, release, p.bundle)
        /\ \A u \in Tour : <<u, release>> \in settled => In(progressOf', queue, u, release)
    BY <1>5, GrownGood
  <1>7. put \in Progress /\ put[t] = row /\ \A u \in Known \ {t} : put[u] = p.failing[u]
    BY <1>3, <1>4 DEF Progress
  <1> HIDE DEF put
  <1>8. /\ failing \in Progress
        /\ \A u \in Known : failing[u] = NoRow \/ failing[u] = p.pending[u]
        /\ \A u \in Known \ {t} : failing[u] = p.failing[u]
        /\ fails => failing[t] = row
    BY <1>3, <1>7
  <1> HIDE DEF failing
  <1>9. ASSUME NEW u \in Tour \ rest
        PROVE  \/ p.pending[u] = NoRow \/ p.pending[u].version < release
               \/ failing[u] = p.pending[u] \/ progressOf'[u].version >= p.pending[u].version
    <2>1. CASE u = t
      BY <1>5, <1>8, <2>1
    <2>2. CASE u # t
      <3>1. u \in Tour \ p.flush /\ p.flush # {} /\ failing[u] = p.failing[u]
        BY <1>1, <1>8, <2>2, TourNames
      <3> QED BY <1>6, <3>1 DEF ProviderIsGood, Flushes
    <2> QED BY <2>1, <2>2
  <1>10. rest \subseteq p.flush
    OBVIOUS
  <1> HIDE DEF rest
  <1>11. /\ DOMAIN q = ProviderField /\ q.loading = p.loading /\ q.answer = p.answer
         /\ q.timer = p.timer /\ q.running = p.running /\ q.requested = p.requested
         /\ q.page = p.page
         /\ q.bundle = p.bundle /\ q.known = p.known /\ q.loaded = p.loaded /\ q.seen = p.seen
         /\ q.progress = p.progress /\ q.pending = p.pending /\ q.flush = rest
         /\ q.failing = failing /\ q.off = p.off /\ q.early = p.early
    BY <1>3 DEF ProviderField
  <1> HIDE DEF q
  <1>12. ShapeOf(q) /\ TimerIsRight(q)
    BY <1>2, <1>11, TimerStill DEF ProviderIsGood, ShapeOf
  <1>13. OffIsShown(q) /\ q.bundle \in 1..release /\ q.known \subseteq ended
    BY <1>2, <1>11 DEF ProviderIsGood, OffIsShown
  <1>14. RowsHeld(q, ended)
    BY <1>2, <1>8, <1>11 DEF ProviderIsGood, RowsHeld
  <1>15. Remembers(q, progressOf', release)
    BY <1>6, <1>11 DEF ProviderIsGood, Remembers, In
  <1>16. Flushes(q, progressOf', release)
    BY <1>2, <1>9, <1>10, <1>11 DEF ProviderIsGood, Flushes
  <1>17. ProviderIsGood(provider', progressOf', ended, release)
    BY <1>1, <1>12, <1>13, <1>14, <1>15, <1>16 DEF ProviderIsGood
  <1>18. /\ Earned(queue', ended) /\ \A u \in Tour : queue'[u].version <= p.bundle
         /\ \A u \in Tour : <<u, release>> \in settled => In(progressOf', queue', u, release)
    <2>1. CASE rest # {}
      BY <1>1, <1>2, <1>6, <2>1
    <2>2. CASE rest = {}
      <3> DEFINE base == [u \in Known |-> IF p.pending[u] = queue[u] THEN NoRow ELSE queue[u]]
                 m == mergeProgress(base, failing)
      <3>1. queue' = m
        BY <1>1, <2>2 DEF reconcilePendingAfterFlush
      <3>2. \A u \in Known : base[u] = IF p.pending[u] = queue[u] THEN NoRow ELSE queue[u]
        OBVIOUS
      <3>3. base \in Progress
        <4>1. NoRow \in TourRow /\ \A u \in Known : queue[u] \in TourRow
          BY <1>2 DEF TourRow, Earned, Progress
        <4> QED BY <4>1 DEF Progress
      <3> HIDE DEF base
      <3>4. Earned(base, ended) /\ Earned(failing, ended)
        BY <1>2, <1>3, <1>8, <3>2, <3>3, TourNames DEF Earned
      <3>5. Earned(m, ended)
        BY <3>4, EarnedMerge
      <3>6. \A u \in Known : /\ m[u] \in {base[u], failing[u]}
                             /\ m[u].version >= base[u].version
                             /\ m[u].version >= failing[u].version
        BY <1>8, <3>3, MergedIs
      <3> HIDE DEF m
      <3>7. \A u \in Tour : m[u].version \in Nat /\ queue[u].version \in Nat
                            /\ p.pending[u].version \in Nat /\ progressOf'[u].version \in Nat
        BY <1>2, <1>3, <1>5, <3>5, VersionBound
      <3>8. NoRow.version = 0
        BY DEF NoRow
      <3>9. ASSUME NEW u \in Tour PROVE m[u].version <= p.bundle
        <4>1. u \in Known
          BY TourNames
        <4>2. m[u] \in {NoRow, queue[u], p.pending[u]}
          BY <1>8, <3>2, <3>6, <4>1
        <4> QED BY <1>2, <1>3, <3>8, <4>2
      <3>10. ASSUME NEW u \in Tour, <<u, release>> \in settled
             PROVE  In(progressOf', m, u, release)
        <4>1. u \in Known /\ u \in Tour \ rest
          BY <2>2, TourNames
        <4>2. progressOf'[u].version >= release \/ queue[u].version >= release
          BY <1>6, <3>10 DEF In
        <4>3. CASE progressOf'[u].version >= release
          BY <4>3 DEF In
        <4>4. CASE queue[u].version >= release /\ p.pending[u] # queue[u]
          <5>1. m[u].version >= queue[u].version
            BY <3>2, <3>6, <4>1, <4>4
          <5> QED BY <1>2, <3>7, <4>4, <5>1 DEF In
        <4>5. CASE queue[u].version >= release /\ p.pending[u] = queue[u]
          <5>1. p.pending[u] # NoRow /\ ~(p.pending[u].version < release)
            BY <1>2, <3>7, <3>8, <4>5
          <5>2. failing[u] = p.pending[u] \/ progressOf'[u].version >= p.pending[u].version
            BY <1>9, <4>1, <5>1
          <5>3. m[u].version >= failing[u].version
            BY <3>6, <4>1
          <5> QED BY <1>2, <3>7, <4>5, <5>2, <5>3 DEF In
        <4> QED BY <4>2, <4>3, <4>4, <4>5
      <3> QED BY <3>1, <3>5, <3>9, <3>10
    <2> QED BY <2>1, <2>2
  <1>19. provider'.bundle = p.bundle
    BY <1>1, <1>11
  <1>20. \A s \in saves' : SaveIsGood(s, progressOf', ended', release', provider'.bundle)
    BY <1>1, <1>6, <1>19
  <1>21. /\ release' \in Nat \ {0} /\ ended' \subseteq Tour \X (1..release')
         /\ settled' \subseteq ended'
    BY <1>1 DEF TInv
  <1> QED BY <1>1, <1>5, <1>17, <1>18, <1>19, <1>20, <1>21 DEF TInv

\* The switch, the end of a tour, mounts and releases.
LEMMA SetAutoOffInv == ASSUME TInv, NEW fails \in BOOLEAN, setAutoOff(fails) PROVE TInv'
  <1> DEFINE p == provider
             off == IF p.off = "unset" THEN p.progress[AutoOff] # NoRow ELSE p.off = "on"
             row == IF off THEN NoRow ELSE Row(1, "DISMISSED")
             name == IF off THEN "off" ELSE "on"
             early == p.loading # "over"
             put == [p.progress EXCEPT ![AutoOff] = row]
             progress == IF p.loaded THEN put ELSE p.progress
             more == [progressOf EXCEPT ![AutoOff] = row]
             a == [p EXCEPT !.off = name, !.early = early, !.progress = progress]
             q == [a EXCEPT !.timer = candidate(a)]
  <1>1. /\ provider' = q /\ (progressOf' = progressOf \/ progressOf' = more)
        /\ UNCHANGED <<release, queue, saves, ended, settled>>
    BY DEF setAutoOff, Rendered
  <1>2. ProviderIsGood(p, progressOf, ended, release) /\ Earned(progressOf, ended)
    BY DEF TInv
  <1>3. ShapeOf(p) /\ DOMAIN p = ProviderField /\ Earned(p.progress, ended)
    BY <1>2 DEF ProviderIsGood, ShapeOf, RowsHeld
  <1>4. /\ row \in TourRow /\ (name = "on" => row # NoRow)
    BY RowIs DEF TourRow
  <1> HIDE DEF row, name
  <1>5. /\ Earned(put, ended) /\ put[AutoOff] = row
        /\ \A t \in Known \ {AutoOff} : put[t] = p.progress[t]
    BY <1>3, <1>4, EarnedSwitch
  <1>6. Earned(more, ended) /\ \A t \in Known \ {AutoOff} : more[t] = progressOf[t]
    BY <1>2, <1>4, EarnedSwitch
  <1> HIDE DEF put, more
  <1>7. Earned(progressOf', ended) /\ \A t \in Tour : progressOf'[t] = progressOf[t]
    BY <1>1, <1>2, <1>6, TourNames
  <1>8. Grows(progressOf, progressOf')
    BY <1>2, <1>7, VersionBound DEF Grows
  <1>9. /\ ProviderIsGood(p, progressOf', ended, release)
        /\ \A s \in saves : SaveIsGood(s, progressOf', ended, release, p.bundle)
        /\ \A t \in Tour : <<t, release>> \in settled => In(progressOf', queue, t, release)
    BY <1>7, <1>8, GrownGood
  <1>10. /\ Earned(progress, ended) /\ \A t \in Tour : progress[t] = p.progress[t]
         /\ p.loaded => progress[AutoOff] = row
    BY <1>3, <1>5, TourNames
  <1> HIDE DEF progress
  <1>11. early => p.loading # "over"
    OBVIOUS
  <1>12. ~early => p.loading = "over"
    OBVIOUS
  <1> HIDE DEF early
  <1>13. /\ ShapeOf(a) /\ a.off = name /\ a.early = early /\ a.progress = progress
         /\ a.bundle = p.bundle /\ a.known = p.known /\ a.loading = p.loading
         /\ a.loaded = p.loaded /\ a.answer = p.answer /\ a.pending = p.pending
         /\ a.flush = p.flush /\ a.failing = p.failing
    BY <1>3 DEF ShapeOf, ProviderField
  <1> HIDE DEF a
  <1>14. ShapeOf(q) /\ TimerIsRight(q) /\ Core(a, q)
    BY <1>13, RenderIs
  <1> HIDE DEF q
  <1>15. /\ q.off = name /\ q.early = early /\ q.progress = progress
         /\ q.bundle = p.bundle /\ q.known = p.known /\ q.loading = p.loading
         /\ q.loaded = p.loaded /\ q.answer = p.answer /\ q.pending = p.pending
         /\ q.flush = p.flush /\ q.failing = p.failing
    BY <1>13, <1>14 DEF Core
  <1>16. OffIsShown(q) /\ q.bundle \in 1..release /\ q.known \subseteq ended
    BY <1>4, <1>9, <1>10, <1>12, <1>15 DEF ProviderIsGood, OffIsShown
  <1>17. RowsHeld(q, ended)
    BY <1>9, <1>10, <1>15 DEF ProviderIsGood, RowsHeld
  <1>18. Remembers(q, progressOf', release)
    BY <1>9, <1>10, <1>15 DEF ProviderIsGood, Remembers, In
  <1>19. Flushes(q, progressOf', release)
    BY <1>9, <1>15 DEF ProviderIsGood, Flushes
  <1>20. ProviderIsGood(provider', progressOf', ended, release)
    BY <1>1, <1>14, <1>16, <1>17, <1>18, <1>19 DEF ProviderIsGood
  <1>21. provider'.bundle = p.bundle
    BY <1>1, <1>15
  <1>22. \A s \in saves' : SaveIsGood(s, progressOf', ended', release', provider'.bundle)
    BY <1>1, <1>9, <1>21
  <1>23. \A t \in Tour : queue'[t].version <= provider'.bundle
    BY <1>1, <1>21 DEF TInv
  <1>24. /\ release' \in Nat \ {0} /\ ended' \subseteq Tour \X (1..release')
         /\ settled' \subseteq ended' /\ Earned(queue', ended')
    BY <1>1 DEF TInv
  <1> QED BY <1>1, <1>7, <1>9, <1>20, <1>22, <1>23, <1>24 DEF TInv

\* What is good stays good when a user sees one more tour to its end.
LEMMA SeenMore ==
    ASSUME TInv, NEW more, ended \subseteq more
    PROVE  /\ ProviderIsGood(provider, progressOf, more, release)
           /\ \A s \in saves : SaveIsGood(s, progressOf, more, release, provider.bundle)
           /\ Earned(progressOf, more) /\ Earned(queue, more)
  <1>1. Earned(progressOf, more) /\ Earned(queue, more)
    BY EarnedMore DEF TInv
  <1>2. \A s \in saves : SaveIsGood(s, progressOf, more, release, provider.bundle)
    BY DEF TInv, SaveIsGood
  <1>3. ProviderIsGood(provider, progressOf, ended, release)
    BY DEF TInv
  <1>4. RowsHeld(provider, more)
    BY <1>3, EarnedMore DEF ProviderIsGood, RowsHeld
  <1>5. provider.known \subseteq more
    BY <1>3 DEF ProviderIsGood
  <1> QED BY <1>1, <1>2, <1>3, <1>4, <1>5 DEF ProviderIsGood

LEMMA EndsInv ==
    ASSUME TInv, NEW outcome \in {"completed", "dismissed", "aborted"}, Ends(outcome) PROVE TInv'
  <1> DEFINE p == provider
             t == p.running
             row == Row(p.bundle, IF outcome = "completed" THEN "COMPLETED" ELSE "DISMISSED")
             one == [None EXCEPT ![t] = row]
             new == mergeProgress(p.progress, one)[t]
             put == [p.progress EXCEPT ![t] = new]
             progress == IF persisted(outcome) /\ p.loaded THEN put ELSE p.progress
             known == p.seen \cup {t}
             over == [p EXCEPT !.running = NoTour, !.shown = FALSE, !.seen = known,
                        !.progress = progress]
             next == [over EXCEPT !.requested = nextTour(t)]
             there == [next EXCEPT !.page = nextTour(t), !.ready = FALSE]
             s == [tour |-> t, row |-> row, heard |-> TRUE, result |-> "sent"]
  <1>1. /\ t # NoTour
        /\ \/ nextTour(t) # NoTour /\ Rendered(there)
           \/ Rendered(over)
        /\ saves' = IF persisted(outcome) THEN saves \cup {s} ELSE saves
        /\ ended' = IF outcome # "aborted" /\ ~p.impersonating
                    THEN ended \cup {<<t, p.bundle>>} ELSE ended
        /\ UNCHANGED <<release, progressOf, queue, settled>>
    BY Zenon DEF Ends, Go
  <1>2. /\ ProviderIsGood(p, progressOf, ended, release) /\ release \in Nat \ {0}
        /\ settled \subseteq ended /\ ended \subseteq Tour \X (1..release)
    BY DEF TInv
  <1>3. /\ ShapeOf(p) /\ DOMAIN p = ProviderField /\ Earned(p.progress, ended)
        /\ p.bundle \in 1..release
    BY <1>2 DEF ProviderIsGood, ShapeOf, RowsHeld
  <1>4. t \in Tour /\ t \in Known /\ nextTour(t) \in Tour \cup {NoTour}
    BY <1>1, <1>3, TourNames DEF ShapeOf
  <1>5. ended \subseteq ended' /\ ended' \subseteq Tour \X (1..release)
        /\ (persisted(outcome) => <<t, p.bundle>> \in ended')
    BY <1>1, <1>2, <1>3, <1>4 DEF persisted
  <1>6. /\ ProviderIsGood(p, progressOf, ended', release)
        /\ \A u \in saves : SaveIsGood(u, progressOf, ended', release, p.bundle)
        /\ Earned(progressOf, ended') /\ Earned(queue, ended')
    BY <1>5, SeenMore
  <1>7. row \in TourRow \ {NoRow} /\ row.version = p.bundle
    BY <1>3, RowIs
  <1> HIDE DEF row
  <1>8. Earned(p.progress, ended')
    BY <1>6 DEF ProviderIsGood, RowsHeld
  <1>9. persisted(outcome) =>
          /\ new \in TourRow /\ (new # NoRow => <<t, new.version>> \in ended')
          /\ new.version >= p.progress[t].version
    <2> SUFFICES ASSUME persisted(outcome)
                 PROVE  /\ new \in TourRow /\ (new # NoRow => <<t, new.version>> \in ended')
                        /\ new.version >= p.progress[t].version
      OBVIOUS
    <2>1. Earned(one, ended')
      BY <1>4, <1>5, <1>7, EarnedPut, NoneEarned
    <2> HIDE DEF one
    <2> DEFINE m == mergeProgress(p.progress, one)
    <2>2. Earned(m, ended') /\ \A u \in Known : m[u].version >= p.progress[u].version
      BY <1>8, <2>1, EarnedMerge, MergedIs DEF Earned
    <2> HIDE DEF m
    <2>3. m[t] \in TourRow /\ (m[t] # NoRow => <<t, m[t].version>> \in ended')
      BY <1>4, <2>2, RowOf DEF Earned
    <2> QED BY <1>4, <2>2, <2>3 DEF m
  <1> HIDE DEF new
  <1>10. persisted(outcome) => /\ Earned(put, ended') /\ put[t] = new
                               /\ \A u \in Known \ {t} : put[u] = p.progress[u]
    BY <1>4, <1>8, <1>9, EarnedPut
  <1> HIDE DEF put
  <1>11. \A u \in Tour : p.progress[u].version \in Nat
    BY <1>3, VersionBound
  <1>12. /\ Earned(progress, ended') /\ progress[AutoOff] = p.progress[AutoOff]
         /\ \A u \in Tour : progress[u].version >= p.progress[u].version
         /\ \A u \in Tour : progress[u].version \in Nat
    <2>1. CASE persisted(outcome) /\ p.loaded
      <3>1. progress = put
        BY <2>1
      <3>2. Earned(put, ended') /\ put[AutoOff] = p.progress[AutoOff]
        BY <1>4, <1>10, <2>1, TourNames
      <3>3. \A u \in Tour : put[u].version >= p.progress[u].version
        BY <1>4, <1>9, <1>10, <1>11, <2>1, TourNames
      <3>4. \A u \in Tour : put[u].version \in Nat
        BY <3>2, RowOf, TourNames DEF Earned
      <3> QED BY <3>1, <3>2, <3>3, <3>4
    <2>2. CASE ~(persisted(outcome) /\ p.loaded)
      <3>1. progress = p.progress
        BY <2>2
      <3> QED BY <1>8, <1>11, <3>1
    <2> QED BY <2>1, <2>2
  <1> HIDE DEF progress
  <1>13. /\ ShapeOf(over) /\ over.progress = progress /\ DOMAIN over = ProviderField
         /\ over.bundle = p.bundle /\ over.known = p.known /\ over.loading = p.loading
         /\ over.loaded = p.loaded /\ over.answer = p.answer /\ over.pending = p.pending
         /\ over.flush = p.flush /\ over.failing = p.failing
         /\ over.off = p.off /\ over.early = p.early
    BY <1>3 DEF ShapeOf, ProviderField
  <1> HIDE DEF over
  <1>14. nextTour(t) # NoTour => ShapeOf(there) /\ Core(over, there)
    BY <1>4, <1>13 DEF ShapeOf, ProviderField, Core
  <1> HIDE DEF there
  <1>15. ShapeOf(provider') /\ TimerIsRight(provider') /\ Core(over, provider')
    <2>1. CASE Rendered(over)
      BY <1>13, <2>1, RenderIs DEF Rendered
    <2>2. CASE nextTour(t) # NoTour /\ Rendered(there)
      <3>1. ShapeOf(provider') /\ TimerIsRight(provider') /\ Core(there, provider')
        BY <1>14, <2>2, RenderIs DEF Rendered
      <3> QED BY <1>14, <2>2, <3>1 DEF Core
    <2> QED BY <1>1, <2>1, <2>2
  <1> DEFINE q == provider'
  <1>16. /\ q.progress = progress
         /\ q.bundle = p.bundle /\ q.known = p.known /\ q.loading = p.loading
         /\ q.loaded = p.loaded /\ q.answer = p.answer /\ q.pending = p.pending
         /\ q.flush = p.flush /\ q.failing = p.failing /\ q.off = p.off /\ q.early = p.early
    BY <1>13, <1>15 DEF Core
  <1> HIDE DEF q
  <1>17. OffIsShown(q) /\ q.bundle \in 1..release /\ q.known \subseteq ended'
    BY <1>6, <1>12, <1>16 DEF ProviderIsGood, OffIsShown
  <1>18. RowsHeld(q, ended')
    BY <1>6, <1>12, <1>16 DEF ProviderIsGood, RowsHeld
  <1>19. Remembers(q, progressOf, release)
    <2>1. \A u \in Tour : p.progress[u].version >= release => progress[u].version >= release
      BY <1>2, <1>11, <1>12
    <2> QED BY <1>6, <1>16, <2>1 DEF ProviderIsGood, Remembers, In
  <1>20. Flushes(q, progressOf, release)
    BY <1>6, <1>16 DEF ProviderIsGood, Flushes
  <1>21. ProviderIsGood(provider', progressOf', ended', release')
    BY <1>1, <1>15, <1>17, <1>18, <1>19, <1>20 DEF ProviderIsGood, q
  <1>22. persisted(outcome) => SaveIsGood(s, progressOf, ended', release, p.bundle)
    <2>1. /\ DOMAIN s = {"tour", "row", "heard", "result"} /\ s.tour = t /\ s.row = row
          /\ s.result = "sent"
      OBVIOUS
    <2> HIDE DEF s
    <2> QED BY <1>4, <1>5, <1>7, <2>1 DEF SaveIsGood
  <1> HIDE DEF s
  <1>23. \A u \in saves' : SaveIsGood(u, progressOf', ended', release', provider'.bundle)
    BY <1>1, <1>6, <1>16, <1>22 DEF q
  <1>24. /\ \A u \in Tour : queue'[u].version <= provider'.bundle
         /\ \A u \in Tour : <<u, release'>> \in settled' => In(progressOf', queue', u, release')
    BY <1>1, <1>16 DEF q, TInv
  <1>25. settled' \subseteq ended' /\ release' \in Nat \ {0}
         /\ ended' \subseteq Tour \X (1..release')
    BY <1>1, <1>2, <1>5
  <1> QED BY <1>1, <1>6, <1>21, <1>23, <1>24, <1>25 DEF TInv

\* A provider that was just mounted.
LEMMA MountedGood ==
    ASSUME release \in Nat \ {0}, settled \subseteq ended, Earned(queue, ended),
           NEW bundle \in 1..release, \A t \in Tour : queue[t].version <= bundle,
           \A t \in Tour : <<t, release>> \in settled => In(progressOf, queue, t, release),
           NEW imp, NEW q,
           DOMAIN q = DOMAIN Provider(bundle, imp),
           \A f \in DOMAIN Provider(bundle, imp) \ {"loads", "plays"} :
              q[f] = Provider(bundle, imp)[f]
    PROVE  ProviderIsGood(q, progressOf, ended, release) /\ q.bundle = bundle
  <1>1. /\ DOMAIN q = ProviderField /\ q.bundle = bundle /\ q.known = settled
        /\ q.loading = "asked" /\ ~q.loaded /\ q.answer = None /\ q.progress = None
        /\ q.pending = queue /\ q.flush = {} /\ q.failing = None /\ q.off = "unset"
        /\ q.running = NoTour /\ q.requested = NoTour /\ q.page = NoTour
        /\ q.timer.tour = NoTour
    <2> DEFINE p == Provider(bundle, imp)
    <2>1. DOMAIN p = ProviderField
      BY DEF Provider, ProviderField
    <2>2. /\ p.bundle = bundle /\ p.known = settled
          /\ p.loading = "asked" /\ ~p.loaded /\ p.answer = None /\ p.progress = None
          /\ p.pending = queue /\ p.flush = {} /\ p.failing = None /\ p.off = "unset"
          /\ p.running = NoTour /\ p.requested = NoTour /\ p.page = NoTour
          /\ p.timer.tour = NoTour
      BY DEF Provider
    <2>3. DOMAIN q = DOMAIN p /\ \A f \in DOMAIN p \ {"loads", "plays"} : q[f] = p[f]
      OBVIOUS
    <2> HIDE DEF p
    <2> QED BY <2>1, <2>2, <2>3 DEF ProviderField
  <1>2. ShapeOf(q) /\ TimerIsRight(q) /\ OffIsShown(q)
    BY <1>1 DEF ShapeOf, TimerIsRight, OffIsShown
  <1>3. RowsHeld(q, ended)
    BY <1>1, NoneIs, NoneEarned DEF RowsHeld
  <1>4. Remembers(q, progressOf, release)
    BY <1>1 DEF Remembers
  <1>5. Flushes(q, progressOf, release)
    BY <1>1 DEF Flushes
  <1> QED BY <1>1, <1>2, <1>3, <1>4, <1>5 DEF ProviderIsGood

\* The provider is mounted anew.
LEMMA RemountInv ==
    ASSUME TInv, NEW reload \in BOOLEAN, NEW imp \in BOOLEAN, Remount(reload, imp) PROVE TInv'
  <1> DEFINE bundle == IF reload THEN release ELSE provider.bundle
             p == Provider(bundle, imp)
             q == [p EXCEPT !.loads = provider.loads + 1, !.plays = provider.plays]
  <1>1. /\ provider' = q
        /\ saves' = IF reload THEN {[s EXCEPT !.heard = FALSE] : s \in saves} ELSE saves
        /\ UNCHANGED <<release, progressOf, queue, ended, settled>>
    BY DEF Remount
  <1>2. /\ release \in Nat \ {0} /\ settled \subseteq ended /\ Earned(queue, ended)
        /\ provider.bundle \in 1..release
        /\ \A t \in Tour : queue[t].version <= provider.bundle
        /\ \A t \in Tour : <<t, release>> \in settled => In(progressOf, queue, t, release)
        /\ \A s \in saves : SaveIsGood(s, progressOf, ended, release, provider.bundle)
    BY DEF TInv, ProviderIsGood
  <1>3. bundle \in 1..release /\ \A t \in Tour : queue[t].version <= bundle
    <2>1. \A t \in Tour : queue[t].version \in Nat
      BY <1>2, VersionBound
    <2> QED BY <1>2, <2>1
  <1>4. ~reload => bundle = provider.bundle
    OBVIOUS
  <1> HIDE DEF bundle
  <1>5. DOMAIN q = DOMAIN p /\ \A f \in DOMAIN p \ {"loads", "plays"} : q[f] = p[f]
    <2> HIDE DEF p
    <2> QED OBVIOUS
  <1> HIDE DEF q
  <1>6. ProviderIsGood(q, progressOf, ended, release) /\ q.bundle = bundle
    BY <1>2, <1>3, <1>5, MountedGood
  <1>7. ASSUME NEW u \in saves' PROVE SaveIsGood(u, progressOf, ended, release, bundle)
    <2>1. CASE ~reload
      BY <1>1, <1>2, <1>4, <2>1
    <2>2. CASE reload
      <3>1. PICK s \in saves : u = [s EXCEPT !.heard = FALSE]
        BY <1>1, <2>2
      <3>2. SaveIsGood(s, progressOf, ended, release, provider.bundle)
        BY <1>2
      <3>3. DOMAIN s = {"tour", "row", "heard", "result"}
        BY <3>2 DEF SaveIsGood
      <3>4. /\ DOMAIN u = {"tour", "row", "heard", "result"} /\ u.tour = s.tour /\ u.row = s.row
            /\ u.result = s.result /\ u.heard = FALSE
        BY <3>1, <3>3
      <3> QED BY <3>2, <3>4 DEF SaveIsGood
    <2> QED BY <2>1, <2>2
  <1> QED BY <1>1, <1>2, <1>3, <1>6, <1>7 DEF TInv

LEMMA ReleaseInv == ASSUME TInv, Release PROVE TInv'
  <1> DEFINE v == release + 1
  <1>1. release' = v /\ UNCHANGED <<progressOf, queue, provider, saves, ended, settled>>
    BY DEF Release
  <1>2. /\ release \in Nat \ {0} /\ ended \subseteq Tour \X (1..release) /\ settled \subseteq ended
        /\ ProviderIsGood(provider, progressOf, ended, release)
        /\ \A s \in saves : SaveIsGood(s, progressOf, ended, release, provider.bundle)
    BY DEF TInv
  <1>3. v \in Nat \ {0} /\ 1..release \subseteq 1..v /\ v > release
    BY <1>2
  <1>4. \A t : <<t, v>> \notin ended
    BY <1>2, <1>3
  <1>5. Remembers(provider, progressOf, v)
    BY <1>2, <1>4 DEF ProviderIsGood, Remembers
  <1>6. \A t \in Tour : provider.pending[t].version \in Nat
    BY <1>2, VersionBound DEF ProviderIsGood, RowsHeld
  <1>7. \A n \in Nat : n < release => n < v
    BY <1>2, <1>3
  <1>8. Flushes(provider, progressOf, v)
    BY <1>2, <1>6, <1>7 DEF ProviderIsGood, Flushes
  <1>9. ProviderIsGood(provider, progressOf, ended, v)
    BY <1>2, <1>3, <1>5, <1>8 DEF ProviderIsGood
  <1>10. ASSUME NEW s \in saves PROVE SaveIsGood(s, progressOf, ended, v, provider.bundle)
    <2>1. s.row \in TourRow
      BY <1>2 DEF SaveIsGood
    <2>2. s.row.version \in Nat
      BY <2>1, VersionIs
    <2> QED BY <1>2, <1>7, <2>2 DEF SaveIsGood
  <1>11. ended \subseteq Tour \X (1..v)
    BY <1>2, <1>3
  <1> HIDE DEF v
  <1> QED BY <1>1, <1>2, <1>3, <1>4, <1>9, <1>10, <1>11 DEF TInv

\* The invariant holds at the start and every step keeps it.
LEMMA TourStart == TourInit => TInv
  <1> SUFFICES ASSUME TourInit PROVE TInv
    OBVIOUS
  <1> DEFINE first == {NoRow} \cup [version : {1}, status : {"COMPLETED", "DISMISSED"}]
  <1>1. /\ release = 1 /\ progressOf \in [Known -> first] /\ queue = None /\ saves = {}
        /\ ended = {<<t, progressOf[t].version>> : t \in {u \in Tour : progressOf[u] # NoRow}}
        /\ settled = ended /\ \E imp \in BOOLEAN : provider = Provider(1, imp)
    BY TourAssumption DEF TourInit
  <1>2. first \subseteq TourRow /\ \A r \in first : r = NoRow \/ r.version = 1
    BY DEF TourRow
  <1> HIDE DEF first
  <1>3. progressOf \in Progress
    BY <1>1, <1>2 DEF Progress
  <1>4. /\ ended \subseteq Tour \X (1..release)
        /\ \A t \in Tour : progressOf[t] # NoRow => <<t, progressOf[t].version>> \in ended
    BY <1>1, <1>2, TourNames
  <1>5. Earned(progressOf, ended) /\ Earned(queue, ended)
    BY <1>1, <1>3, <1>4, NoneEarned DEF Earned
  <1>6. \A t \in Tour : queue[t].version = 0
    BY <1>1, NoneIs, TourNames DEF NoRow
  <1>7. \A t \in Tour : <<t, release>> \in settled => In(progressOf, queue, t, release)
    <2>1. \A t \in Tour : <<t, 1>> \in ended => progressOf[t].version = 1
      BY <1>1
    <2> QED BY <1>1, <2>1 DEF In
  <1>8. PICK imp \in BOOLEAN : provider = Provider(1, imp)
    BY <1>1
  <1>9. ProviderIsGood(provider, progressOf, ended, release) /\ provider.bundle = 1
    BY <1>1, <1>5, <1>6, <1>7, <1>8, MountedGood
  <1> QED BY <1>1, <1>4, <1>5, <1>6, <1>7, <1>9 DEF TInv

LEMMA TourStep == TInv /\ [TourNext]_tourVars => TInv'
  <1> SUFFICES ASSUME TInv, [TourNext]_tourVars PROVE TInv'
    OBVIOUS
  <1>1. CASE ListServed \/ ListFails \/ Loaded
    BY <1>1, ListServedInv, ListFailsInv, LoadedInv
  <1>2. CASE \E t \in Tour, f \in BOOLEAN : FlushOne(t, f)
    BY <1>2, FlushOneInv
  <1>3. CASE Fire
    BY <1>3, FireInv
  <1>4. CASE Shown \/ PageReady \/ Dialog
    BY <1>4, PageInv
  <1>5. CASE \E t \in Tour : start(t) \/ requestTour(t)
    BY <1>5, PageInv
  <1>6. CASE \E page \in (Tour \ {gs}) \cup {Onboarding} : registerPageTour(page)
    BY <1>6, PageInv
  <1>7. CASE Release
    BY <1>7, ReleaseInv
  <1>8. CASE \E f \in BOOLEAN : setAutoOff(f)
    BY <1>8, SetAutoOffInv
  <1>9. CASE \E o \in {"completed", "dismissed", "aborted"} : Ends(o)
    BY <1>9, EndsInv
  <1>10. CASE \E s \in saves : SaveFails(s) \/ SaveAnswered(s)
                               \/ \E lost \in BOOLEAN : SaveServed(s, lost)
    BY <1>10, SaveFailsInv, SaveAnsweredInv, SaveServedInv
  <1>11. CASE \E reload, imp \in BOOLEAN : Remount(reload, imp)
    BY <1>11, RemountInv
  <1>12. CASE UNCHANGED tourVars
    BY <1>12 DEF tourVars, TInv
  <1> QED BY <1>1, <1>2, <1>3, <1>4, <1>5, <1>6, <1>7, <1>8, <1>9, <1>10, <1>11, <1>12
       DEF TourNext

\* A tour that starts by itself is the one the timer waited for, and it may.
LEMMA RenderPlays ==
    ASSUME NEW p, ShapeOf(p), NEW t, NEW auto, Play(p, t, auto)
    PROVE  provider'.running = t /\ provider'.auto = auto
  <1> DEFINE q == [p EXCEPT !.running = t, !.auto = auto, !.plays = @ + 1]
  <1>1. Rendered(q)
    BY DEF Play
  <1>2. q.running = t /\ q.auto = auto /\ q.requested = p.requested /\ q.page = p.page
        /\ DOMAIN q = ProviderField
    BY DEF ShapeOf, ProviderField
  <1> HIDE DEF q
  <1>3. provider' = [q EXCEPT !.timer = candidate(q)]
    BY <1>1 DEF Rendered
  <1>4. provider'.running = q.running /\ provider'.auto = q.auto
    BY <1>2, <1>3 DEF ProviderField
  <1> QED BY <1>2, <1>4

LEMMA GoPlays ==
    ASSUME NEW p, ShapeOf(p), NEW page, Go(p, page)
    PROVE  provider'.running = p.running
  <1> DEFINE q == [p EXCEPT !.page = page, !.ready = FALSE]
  <1>1. provider' = [q EXCEPT !.timer = candidate(q)]
    BY DEF Go, Rendered
  <1>2. q.running = p.running /\ DOMAIN q = ProviderField
    BY DEF ShapeOf, ProviderField
  <1> HIDE DEF q
  <1> QED BY <1>1, <1>2 DEF ProviderField

LEMMA RenderKeeps ==
    ASSUME NEW p, DOMAIN p = ProviderField, Rendered(p) PROVE provider'.running = p.running
  BY DEF Rendered, ProviderField

LEMMA EndsPlays ==
    ASSUME TInv, NEW outcome, Ends(outcome) PROVE provider'.running = NoTour
  <1> DEFINE p == provider
             t == p.running
             row == Row(p.bundle, IF outcome = "completed" THEN "COMPLETED" ELSE "DISMISSED")
             progress == IF persisted(outcome) /\ p.loaded
                         THEN [p.progress EXCEPT
                                 ![t] = mergeProgress(p.progress, [None EXCEPT ![t] = row])[t]]
                         ELSE p.progress
             seen == p.seen \cup {t}
             over == [p EXCEPT !.running = NoTour, !.shown = FALSE, !.seen = seen,
                        !.progress = progress]
             there == [over EXCEPT !.requested = nextTour(t)]
  <1>1. \/ nextTour(t) # NoTour /\ Go(there, nextTour(t))
        \/ Rendered(over)
    BY DEF Ends
  <1>2. ShapeOf(p) /\ nextTour(t) \in Tour \cup {NoTour}
    BY DEF TInv, ProviderIsGood, nextTour, Tour
  <1> HIDE DEF progress, seen
  <1>3. ShapeOf(over) /\ over.running = NoTour
    BY <1>2 DEF ShapeOf, ProviderField
  <1> HIDE DEF over
  <1>4. ShapeOf(there) /\ there.running = NoTour
    BY <1>2, <1>3 DEF ShapeOf, ProviderField
  <1> HIDE DEF there
  <1>5. CASE Go(there, nextTour(t))
    BY <1>4, <1>5, GoPlays
  <1>6. CASE Rendered(over)
    BY <1>3, <1>6, RenderKeeps DEF ShapeOf
  <1> QED BY <1>1, <1>5, <1>6

LEMMA AutoStartIs ==
    ASSUME TInv, [TourNext]_tourVars, AutoStarts
    PROVE  MayStart(provider, provider'.running) /\ provider'.running \in Tour
  <1> DEFINE p == provider
  <1>1. ShapeOf(p) /\ TimerIsRight(p) /\ p.running = NoTour
        /\ provider'.running # NoTour /\ provider'.auto
    BY DEF TInv, ProviderIsGood, AutoStarts
  <1>2. DOMAIN p = ProviderField
    BY <1>1 DEF ShapeOf
  <1>3. CASE ListServed \/ ListFails
    BY <1>1, <1>2, <1>3 DEF ListServed, ListFails, ProviderField
  <1>4. CASE Loaded
    <2> DEFINE merged == mergeProgress(p.answer, p.pending)
               flush == IF p.impersonating THEN {} ELSE {t \in Tour : p.pending[t] # NoRow}
               q == [p EXCEPT !.loading = "over", !.loaded = TRUE, !.progress = merged,
                       !.flush = flush]
    <2>1. Rendered(q)
      BY <1>4 DEF Loaded
    <2> HIDE DEF merged, flush
    <2>2. DOMAIN q = ProviderField /\ q.running = p.running
      BY <1>2 DEF ProviderField
    <2> HIDE DEF q
    <2> QED BY <1>1, <2>1, <2>2, RenderKeeps
  <1>5. CASE \E t \in Tour, f \in BOOLEAN : FlushOne(t, f)
    <2> PICK t \in Tour, f \in BOOLEAN : FlushOne(t, f)
      BY <1>5
    <2> DEFINE rest == p.flush \ {t}
               failing == IF f THEN [p.failing EXCEPT ![t] = p.pending[t]] ELSE p.failing
    <2>1. provider' = [p EXCEPT !.flush = rest, !.failing = failing]
      BY DEF FlushOne
    <2> HIDE DEF rest, failing
    <2> QED BY <1>1, <1>2, <2>1 DEF ProviderField
  <1>6. CASE Shown \/ Dialog
    BY <1>1, <1>2, <1>6 DEF Shown, Dialog, ProviderField
  <1>7. CASE PageReady
    <2> DEFINE q == [p EXCEPT !.ready = TRUE]
    <2>1. Rendered(q)
      BY <1>7 DEF PageReady
    <2>2. DOMAIN q = ProviderField /\ q.running = p.running
      BY <1>2 DEF ProviderField
    <2> HIDE DEF q
    <2> QED BY <1>1, <2>1, <2>2, RenderKeeps
  <1>8. CASE \E t \in Tour : start(t)
    BY <1>1, <1>8, RenderPlays DEF start
  <1>9. CASE \E t \in Tour : requestTour(t)
    <2> PICK t \in Tour : requestTour(t)
      BY <1>9
    <2> DEFINE q == [p EXCEPT !.requested = t]
    <2>1. Go(q, t)
      BY DEF requestTour
    <2>2. ShapeOf(q) /\ q.running = p.running
      BY <1>1 DEF ShapeOf, ProviderField
    <2> HIDE DEF q
    <2> QED BY <1>1, <2>1, <2>2, GoPlays
  <1>10. CASE \E page \in (Tour \ {gs}) \cup {Onboarding} : registerPageTour(page)
    BY <1>1, <1>10, GoPlays DEF registerPageTour
  <1>11. CASE \E f \in BOOLEAN : setAutoOff(f)
    <2> PICK f \in BOOLEAN : setAutoOff(f)
      BY <1>11
    <2> DEFINE off == IF p.off = "unset" THEN p.progress[AutoOff] # NoRow ELSE p.off = "on"
               row == IF off THEN NoRow ELSE Row(1, "DISMISSED")
               says == IF off THEN "off" ELSE "on"
               early == p.loading # "over"
               progress == IF p.loaded THEN [p.progress EXCEPT ![AutoOff] = row] ELSE p.progress
               q == [p EXCEPT !.off = says, !.early = early, !.progress = progress]
    <2>1. Rendered(q)
      BY DEF setAutoOff
    <2> HIDE DEF off, row, says, early, progress
    <2>2. DOMAIN q = ProviderField /\ q.running = p.running
      BY <1>2 DEF ProviderField
    <2> HIDE DEF q
    <2> QED BY <1>1, <2>1, <2>2, RenderKeeps
  <1>12. CASE \E o \in {"completed", "dismissed", "aborted"} : Ends(o)
    BY <1>1, <1>12, EndsPlays
  <1>13. CASE \E reload, imp \in BOOLEAN : Remount(reload, imp)
    <2> PICK reload \in BOOLEAN, imp \in BOOLEAN : Remount(reload, imp)
      BY <1>13
    <2> DEFINE bundle == IF reload THEN release ELSE p.bundle
               new == Provider(bundle, imp)
    <2>1. provider' = [new EXCEPT !.loads = p.loads + 1, !.plays = p.plays]
      BY DEF Remount
    <2>2. DOMAIN new = ProviderField /\ new.running = NoTour
      BY DEF Provider, ProviderField
    <2> HIDE DEF new
    <2> QED BY <1>1, <2>1, <2>2 DEF ProviderField
  <1>14. CASE Fire
    <2> DEFINE t == p.timer
               q == IF t.asked THEN [p EXCEPT !.requested = NoTour] ELSE p
    <2>1. CASE p.dialog
      BY <1>1, <1>2, <1>14, <2>1 DEF Fire, ProviderField
    <2>2. CASE ~p.dialog
      <3>1. Play(q, t.tour, ~t.asked) /\ t.tour # NoTour
        BY <1>14, <2>2 DEF Fire
      <3>2. ShapeOf(q)
        BY <1>1 DEF ShapeOf, ProviderField
      <3> HIDE DEF q
      <3>3. provider'.running = t.tour /\ provider'.auto = ~t.asked
        BY <3>1, <3>2, RenderPlays
      <3>4. t.tour \in Tour /\ ~t.asked
        BY <1>1, <3>1, <3>3 DEF TimerIsRight
      <3> QED BY <1>1, <3>1, <3>3, <3>4 DEF TimerIsRight
    <2> QED BY <2>1, <2>2
  <1>15. CASE Release \/ (\E s \in saves : SaveFails(s) \/ SaveAnswered(s)
                              \/ \E lost \in BOOLEAN : SaveServed(s, lost))
              \/ UNCHANGED tourVars
    BY <1>1, <1>15 DEF Release, SaveFails, SaveAnswered, SaveServed, tourVars
  <1> QED BY <1>1, <1>3, <1>4, <1>5, <1>6, <1>7, <1>8, <1>9, <1>10, <1>11, <1>12, <1>13,
             <1>14, <1>15
       DEF TourNext

\* The three action properties, one step at a time.
LEMMA NeverReplaysStep ==
    TInv /\ [TourNext]_tourVars =>
      [AutoStarts =>
        /\ provider'.running \notin provider.seen
        /\ provider.bundle = release => <<provider'.running, release>> \notin provider.known
      ]_tourVars
  <1> SUFFICES ASSUME TInv, [TourNext]_tourVars, AutoStarts
               PROVE  /\ provider'.running \notin provider.seen
                      /\ provider.bundle = release =>
                           <<provider'.running, release>> \notin provider.known
    OBVIOUS
  <1> DEFINE t == provider'.running
  <1>1. MayStart(provider, t) /\ t \in Tour
    BY AutoStartIs
  <1>2. \A u \in Tour : <<u, release>> \in provider.known /\ provider.loaded =>
                          provider.progress[u].version >= release
    BY DEF TInv, ProviderIsGood, Remembers
  <1> QED BY <1>1, <1>2 DEF MayStart, isTourSeen

LEMMA OffMeansOffStep ==
    TInv /\ [TourNext]_tourVars =>
      [AutoStarts /\ provider.off = "on" => provider.early]_tourVars
  <1> SUFFICES ASSUME TInv, [TourNext]_tourVars, AutoStarts, provider.off = "on",
                      ~provider.early
               PROVE  FALSE
    OBVIOUS
  <1>1. provider.loaded /\ provider.progress[AutoOff] = NoRow
    BY AutoStartIs DEF MayStart
  <1>2. provider.loaded => provider.progress[AutoOff] # NoRow
    BY DEF TInv, ProviderIsGood, OffIsShown
  <1> QED BY <1>1, <1>2

LEMMA StartsFirstStep ==
    TInv /\ [TourNext]_tourVars =>
      [AutoStarts /\ provider'.running # gs =>
        gs \in provider.seen \/ \E v \in provider.bundle..release : <<gs, v>> \in ended]_tourVars
  <1> SUFFICES ASSUME TInv, [TourNext]_tourVars, AutoStarts, provider'.running # gs,
                      gs \notin provider.seen
               PROVE  \E v \in provider.bundle..release : <<gs, v>> \in ended
    OBVIOUS
  <1> DEFINE v == provider.progress[gs].version
  <1>1. v >= provider.bundle
    BY AutoStartIs DEF MayStart, gettingStartedDone, isTourSeen
  <1>2. /\ provider.bundle \in 1..release /\ Earned(provider.progress, ended)
        /\ ended \subseteq Tour \X (1..release) /\ release \in Nat
    BY DEF TInv, ProviderIsGood, RowsHeld
  <1>3. provider.progress[gs] \in TourRow /\ gs \in Tour
    BY <1>2, TourNames, RowOf DEF Earned
  <1>4. v \in Nat /\ provider.progress[gs] # NoRow
    BY <1>1, <1>2, <1>3, VersionIs
  <1>5. <<gs, v>> \in ended
    BY <1>2, <1>3, <1>4 DEF Earned
  <1>6. v \in 1..release
    BY <1>2, <1>5
  <1> QED BY <1>1, <1>2, <1>5, <1>6

\* The rows of the API, the queue and the page are earned.
LEMMA EarnedRows == TInv => RowsAreEarned
  BY DEF TInv, ProviderIsGood, RowsHeld, Earned, RowsAreEarned

\* Whatever fails, is reloaded, released or impersonated: rows are earned, no tour replays,
\* the switch is obeyed and "getting started" comes first (tour-provider.tsx, progress.ts).
THEOREM ToursPlayed == TourSpec => ToursPlayOnce
  <1>1. TourInit => TInv
    BY TourStart
  <1>2. TInv /\ [TourNext]_tourVars => TInv'
    BY TourStep
  <1>3. TInv => RowsAreEarned
    BY EarnedRows
  <1>4. TInv /\ [TourNext]_tourVars =>
          [AutoStarts =>
            /\ provider'.running \notin provider.seen
            /\ provider.bundle = release => <<provider'.running, release>> \notin provider.known
          ]_tourVars
    BY NeverReplaysStep
  <1>5. TInv /\ [TourNext]_tourVars =>
          [AutoStarts /\ provider.off = "on" => provider.early]_tourVars
    BY OffMeansOffStep
  <1>6. TInv /\ [TourNext]_tourVars =>
          [AutoStarts /\ provider'.running # gs =>
            gs \in provider.seen
            \/ \E v \in provider.bundle..release : <<gs, v>> \in ended]_tourVars
    BY StartsFirstStep
  <1> QED BY <1>1, <1>2, <1>3, <1>4, <1>5, <1>6, PTL
       DEF TourSpec, ToursPlayOnce, NeverReplays, OffMeansOff, StartsFirst

-----------------------------------------------------------------------------
\* The payment gateway.

\* A request that is about to insert a row is the only one that knows its
\* transaction id, and no row has it: inserting overwrites nothing.
CreateIsFresh ==
    \A r \in Request : req[r].pc = "create" =>
        /\ req[r].pay \in Payment
        /\ payment[req[r].pay].status = "NONE"
        /\ \A o \in Request \ {r} : req[o].pay # req[r].pay

\* A webhook's transaction names an existing payment.
FlipNamesPayment == \A r \in Request : req[r].pc = "flip" => req[r].pay \in Payment

\* The inductive invariant.
GInv == TypeOK /\ CreateIsFresh /\ FlipNamesPayment /\ FlipIsForItsSession

\* The fields of a ticket, one by one.
LEMMA TicketFields ==
    ASSUME NEW s \in {"UNPAID", "PAID"}, NEW c \in Nat, NEW n \in Nat, NEW b \in BOOLEAN
    PROVE  [status |-> s, service |-> c, paid |-> n, archived |-> b] \in TicketRow
  BY Zenon DEF TicketRow

\* Initially no payment exists and no request is in flight.
LEMMA GatewayInit == Init => GInv
<1> SUFFICES ASSUME Init PROVE GInv
  OBVIOUS
<1>1. ticket \in TicketRow
  <2>1. PICK c \in Services : ticket = [status |-> "UNPAID", service |-> c, paid |-> 0,
                                       archived |-> FALSE]
    BY DEF Init
  <2>2. c \in Nat /\ 0 \in Nat /\ "UNPAID" \in {"UNPAID", "PAID"} /\ FALSE \in BOOLEAN
    BY GatewayAssumption
  <2> QED BY <2>1, <2>2, TicketFields, Zenon
<1>2. payment \in [Payment -> PaymentRow] /\ wallet \in Nat
  BY DEF Init, PaymentRow
<1>3. session \in [Payment -> Outcome \cup {"NONE"}]
  BY DEF Init
<1>4. Idle \in RequestRow /\ Idle.pc = "idle"
  BY DEF Idle, RequestRow, Pc
<1>5. req \in [Request -> RequestRow] /\ \A r \in Request : req[r].pc = "idle"
  BY <1>4 DEF Init
<1> QED
  BY <1>1, <1>2, <1>3, <1>5
  DEF GInv, TypeOK, CreateIsFresh, FlipNamesPayment, FlipIsForItsSession

\* The ticket keeps its type when it receives an amount.
LEMMA ReceivedType ==
    ASSUME ticket \in TicketRow, NEW a \in Nat
    PROVE  received(a) \in TicketRow
<1>1. ticket.paid \in Nat /\ ticket.status \in {"UNPAID", "PAID"}
  BY DEF TicketRow
<1>2. /\ ticket.paid + a \in Nat
      /\ (IF ticket.paid + a >= ticket.service THEN "PAID" ELSE ticket.status)
           \in {"UNPAID", "PAID"}
  BY <1>1
<1> QED BY <1>2, Zenon DEF received, TicketRow

\* The steps of initiate before its insert.
LEMMA InitiateInv ==
    ASSUME GInv, NEW r \in Request,
           Initiate(r) \/ CancelLive(r) \/ SessionFails(r)
    PROVE  GInv'
<1>1. CASE Initiate(r)
  <2>1. Total - ticket.paid \in Nat
    BY <1>1, GatewayAssumption DEF GInv, TypeOK, TicketRow, Initiate
  <2> QED
    BY <1>1, <2>1, GatewayAssumption
    DEF Initiate, Goto, Idle, GInv, TypeOK, CreateIsFresh, FlipNamesPayment,
        FlipIsForItsSession, RequestRow, Pc
<1>2. CASE CancelLive(r)
  BY <1>2
  DEF CancelLive, Goto, GInv, TypeOK, CreateIsFresh, FlipNamesPayment,
      FlipIsForItsSession, RequestRow, PaymentRow, Pc
<1>3. CASE SessionFails(r)
  BY <1>3, GatewayAssumption
  DEF SessionFails, Goto, Idle, GInv, TypeOK, CreateIsFresh, FlipNamesPayment,
      FlipIsForItsSession, RequestRow, Pc
<1> QED BY <1>1, <1>2, <1>3

\* The gateway's transaction id is new, so the insert will overwrite nothing.
LEMMA OpenSessionInv ==
    ASSUME GInv, NEW r \in Request, NEW p \in Payment, OpenSession(r, p)
    PROVE  GInv'
<1>1. TypeOK'
  BY DEF OpenSession, Goto, GInv, TypeOK, RequestRow, Pc
<1>2. CreateIsFresh'
  BY GatewayAssumption DEF OpenSession, Goto, GInv, TypeOK, RequestRow, CreateIsFresh
<1>3. FlipNamesPayment' /\ FlipIsForItsSession'
  BY DEF OpenSession, Goto, GInv, TypeOK, RequestRow, FlipNamesPayment, FlipIsForItsSession
<1> QED BY <1>1, <1>2, <1>3 DEF GInv

\* The insert leaves every payment that a webhook is working on alone.
LEMMA CreatePaymentInv ==
    ASSUME GInv, NEW r \in Request, CreatePayment(r)
    PROVE  GInv'
<1> DEFINE p == req[r].pay
<1>1. /\ p \in Payment
      /\ payment[p].status = "NONE"
      /\ \A o \in Request \ {r} : req[o].pay # p
  BY DEF CreatePayment, GInv, CreateIsFresh
<1>2. TypeOK'
  BY <1>1 DEF CreatePayment, Goto, Idle, GInv, TypeOK, RequestRow, PaymentRow, Pc
<1>3. CreateIsFresh'
  BY <1>1, GatewayAssumption
  DEF CreatePayment, Goto, Idle, GInv, TypeOK, RequestRow, CreateIsFresh
<1>4. FlipNamesPayment' /\ FlipIsForItsSession'
  BY <1>1
  DEF CreatePayment, Goto, Idle, GInv, TypeOK, RequestRow, PaymentRow,
      FlipNamesPayment, FlipIsForItsSession
<1> QED BY <1>2, <1>3, <1>4 DEF GInv

\* What happens at the gateway and in the rest of the system.
LEMMA EnvironmentInv ==
    ASSUME GInv,
           \/ \E p \in Payment, o \in Outcome : Checkout(p, o)
           \/ \E a \in Amount : WalletPays(a)
           \/ BulkAction
    PROVE  GInv'
<1>1. ASSUME NEW p \in Payment, NEW o \in Outcome, Checkout(p, o)
      PROVE  GInv'
  BY <1>1
  DEF Checkout, GInv, TypeOK, CreateIsFresh, FlipNamesPayment, FlipIsForItsSession,
      Outcome
<1>2. ASSUME NEW a \in Amount, WalletPays(a)
      PROVE  GInv'
  <2>1. a \in Nat /\ wallet + a \in Nat
    BY GatewayAssumption DEF GInv, TypeOK
  <2>2. ticket' \in TicketRow
    BY <1>2, <2>1, ReceivedType DEF WalletPays, GInv, TypeOK
  <2> QED
    BY <1>2, <2>1, <2>2
    DEF WalletPays, GInv, TypeOK, CreateIsFresh, FlipNamesPayment, FlipIsForItsSession
<1>3. CASE BulkAction
  BY <1>3
  DEF BulkAction, GInv, TypeOK, TicketRow, CreateIsFresh, FlipNamesPayment,
      FlipIsForItsSession
<1> QED BY <1>1, <1>2, <1>3

\* A webhook's unlocked read: it goes on only with the amount of its session.
LEMMA WebhookSuccessInv ==
    ASSUME GInv, NEW r \in Request, NEW p \in Payment, NEW a \in Amount,
           WebhookSuccess(r, p, a)
    PROVE  GInv'
<1>1. a \in Nat
  BY GatewayAssumption
<1>2. TypeOK'
  BY <1>1 DEF WebhookSuccess, Goto, GInv, TypeOK, RequestRow, Pc
<1>3. CreateIsFresh'
  BY DEF WebhookSuccess, Goto, GInv, TypeOK, RequestRow, CreateIsFresh
<1>4. FlipNamesPayment' /\ FlipIsForItsSession'
  BY DEF WebhookSuccess, Goto, GInv, TypeOK, RequestRow, FlipNamesPayment,
         FlipIsForItsSession
<1> QED BY <1>2, <1>3, <1>4 DEF GInv

\* The transaction that flips and credits, or finds the payment decided.
LEMMA FlipAndCreditInv ==
    ASSUME GInv, NEW r \in Request, FlipAndCredit(r)
    PROVE  GInv'
<1> DEFINE p == req[r].pay
<1>1. p \in Payment /\ payment[p].status # "NONE" /\ req[r].amount \in Nat
  BY DEF FlipAndCredit, GInv, TypeOK, RequestRow, FlipNamesPayment, FlipIsForItsSession
<1>2. ticket' \in TicketRow
  BY <1>1, ReceivedType DEF FlipAndCredit, GInv, TypeOK
<1>3. /\ payment' \in [Payment -> PaymentRow]
      /\ \A q \in Payment : /\ payment'[q].amount = payment[q].amount
                            /\ payment'[q].status = "NONE" <=> payment[q].status = "NONE"
  BY <1>1 DEF FlipAndCredit, GInv, TypeOK, PaymentRow
<1>4. TypeOK'
  BY <1>2, <1>3 DEF FlipAndCredit, Goto, Idle, GInv, TypeOK, RequestRow, Pc
<1>5. CreateIsFresh'
  BY <1>3, GatewayAssumption
  DEF FlipAndCredit, Goto, Idle, GInv, TypeOK, RequestRow, CreateIsFresh
<1>6. FlipNamesPayment' /\ FlipIsForItsSession'
  BY <1>3 DEF FlipAndCredit, Goto, Idle, GInv, TypeOK, RequestRow, FlipNamesPayment,
              FlipIsForItsSession
<1> QED BY <1>4, <1>5, <1>6 DEF GInv

\* A failed or abandoned session ends its payment if it is still live.
LEMMA WebhookFailureInv ==
    ASSUME GInv, NEW p \in Payment, WebhookFailure(p)
    PROVE  GInv'
  BY DEF WebhookFailure, GInv, TypeOK, PaymentRow, CreateIsFresh, FlipNamesPayment,
         FlipIsForItsSession

\* Every step keeps the invariant.
LEMMA GatewayNext == GInv /\ [Next]_vars => GInv'
<1> SUFFICES ASSUME GInv, [Next]_vars PROVE GInv'
  OBVIOUS
<1>1. CASE UNCHANGED vars
  BY <1>1 DEF vars, GInv, TypeOK, CreateIsFresh, FlipNamesPayment, FlipIsForItsSession
<1>2. CASE Next
  BY <1>2, InitiateInv, OpenSessionInv, CreatePaymentInv, EnvironmentInv,
     WebhookSuccessInv, FlipAndCreditInv, WebhookFailureInv DEF Next
<1> QED BY <1>1, <1>2

\* The invariant holds for ever.
THEOREM GatewayInvariant == Spec => []GInv
  BY GatewayInit, GatewayNext, PTL DEF Spec

\* The rows and the requests of the gateway keep their types; in particular
\* initiate never asks the gateway for a negative amount, however much the wallet
\* has paid since.
THEOREM GatewayTypeCorrect == Spec => []TypeOK
<1>1. GInv => TypeOK
  BY DEF GInv
<1> QED BY <1>1, GatewayInvariant, PTL

\* handleWebhook never reaches its transaction with an amount its session was not
\* opened for, or for a session that did not succeed.
THEOREM CreditsMatchSessions == Spec => []FlipIsForItsSession
<1>1. GInv => FlipIsForItsSession
  BY DEF GInv
<1> QED BY <1>1, GatewayInvariant, PTL

\* A decided payment is never written again, by any step.
LEMMA OutcomeStep ==
    ASSUME GInv, Next, NEW p \in Payment, payment[p].status \in Outcome
    PROVE  payment'[p] = payment[p]
<1>1. ASSUME NEW r \in Request, CancelLive(r)
      PROVE  payment'[p] = payment[p]
  BY <1>1 DEF CancelLive, Outcome
<1>2. ASSUME NEW r \in Request, CreatePayment(r)
      PROVE  payment'[p] = payment[p]
  <2>1. req[r].pay # p
    BY <1>2 DEF CreatePayment, GInv, CreateIsFresh, Outcome
  <2> QED BY <1>2, <2>1 DEF CreatePayment, GInv, TypeOK
<1>3. ASSUME NEW r \in Request, FlipAndCredit(r)
      PROVE  payment'[p] = payment[p]
  BY <1>3 DEF FlipAndCredit, GInv, TypeOK, Outcome
<1>4. ASSUME NEW q \in Payment, WebhookFailure(q)
      PROVE  payment'[p] = payment[p]
  BY <1>4 DEF WebhookFailure, GInv, TypeOK, Outcome
<1> QED
  BY <1>1, <1>2, <1>3, <1>4
  DEF Next, Initiate, OpenSession, SessionFails, Checkout, WebhookSuccess, WalletPays,
      BulkAction

\* A payment that ended keeps its outcome and its amount, whatever webhooks arrive
\* late and whatever is initiated later.
THEOREM OutcomesAreFinal == Spec => OutcomeIsFinal
<1>1. GInv /\ [Next]_vars
      => [\A p \in Payment : payment[p].status \in Outcome
                             => payment'[p] = payment[p]]_vars
  BY OutcomeStep DEF vars
<1> QED BY <1>1, GatewayInvariant, PTL DEF Spec, OutcomeIsFinal

-----------------------------------------------------------------------------
\* What the ticket has received.

Amounts == [p \in Payment |-> payment[p].amount]
Successful == {p \in Payment : payment[p].status = "SUCCESS"}

\* The successful payments are finitely many rows with integer amounts.
LEMMA AmountFacts ==
    ASSUME GInv
    PROVE  /\ IsFiniteSet(Successful)
           /\ \A p \in Payment : Amounts[p] \in Int
           /\ SumFunctionOnSet(Amounts, Successful) \in Int
           /\ ticket.paid \in Int /\ wallet \in Int
<1>1. IsFiniteSet(Successful)
  BY GatewayAssumption, FS_Subset DEF Successful
<1>2. \A p \in Payment : Amounts[p] \in Int
  BY DEF Amounts, GInv, TypeOK, PaymentRow
<1>3. \A p \in Successful : Amounts[p] \in Int
  BY <1>2 DEF Successful
<1>4. SumFunctionOnSet(Amounts, Successful) \in Int
  BY <1>1, <1>3, SumType
<1> QED BY <1>1, <1>2, <1>4 DEF GInv, TypeOK, TicketRow

\* A step that neither completes a payment nor rewrites the amount of a completed one
\* keeps the sum of the completed ones.
LEMMA SumKept ==
    ASSUME GInv, Successful' = Successful,
           \A p \in Successful : payment'[p].amount = payment[p].amount
    PROVE  SumFunctionOnSet(Amounts, Successful)' = SumFunctionOnSet(Amounts, Successful)
<1> DEFINE u == Amounts'
           S == Successful
<1>1. IsFiniteSet(S) /\ \A p \in S : Amounts[p] \in Int
  BY AmountFacts DEF Successful
<1>2. \A p \in S : u[p] = Amounts[p]
  BY DEF Amounts, Successful
<1> HIDE DEF u, S
<1>3. SumFunctionOnSet(u, S) = SumFunctionOnSet(Amounts, S)
  BY <1>1, <1>2, SumSame
<1> QED BY <1>3 DEF u, S

\* A step that leaves what the ticket has received and what the wallet paid alone.
LEMMA NothingReceived ==
    ASSUME GInv, CreditedOnce, ticket'.paid = ticket.paid, wallet' = wallet,
           Successful' = Successful,
           \A p \in Successful : payment'[p].amount = payment[p].amount
    PROVE  CreditedOnce'
  BY SumKept DEF CreditedOnce, Amounts, Successful

\* The transaction of a webhook: the flip adds one payment to the successful ones in the
\* step in which the ticket receives that payment's amount.
LEMMA FlipCredits ==
    ASSUME GInv, CreditedOnce, NEW r \in Request, FlipAndCredit(r)
    PROVE  CreditedOnce'
<1> DEFINE p == req[r].pay
<1>0. /\ p \in Payment /\ req[r].amount = payment[p].amount
      /\ payment \in [Payment -> PaymentRow] /\ ticket \in TicketRow
  BY DEF FlipAndCredit, GInv, TypeOK, FlipNamesPayment, FlipIsForItsSession
<1>1. CASE payment[p].status # "INITIATED"
  <2>1. payment' = payment /\ ticket' = ticket /\ wallet' = wallet
    BY <1>1 DEF FlipAndCredit
  <2> QED BY <2>1, NothingReceived DEF Successful
<1>2. CASE payment[p].status = "INITIATED"
  <2>1. /\ payment' = [payment EXCEPT ![p].status = "SUCCESS"]
        /\ ticket' = received(req[r].amount) /\ wallet' = wallet
    BY <1>2 DEF FlipAndCredit
  <2>2. /\ p \notin Successful /\ Successful' = Successful \cup {p}
        /\ Amounts' = Amounts /\ Amounts[p] = req[r].amount
    <3>1. \A q \in Payment : payment'[q].amount = payment[q].amount
      BY <1>0, <2>1 DEF PaymentRow
    <3>2. \A q \in Payment : payment'[q].status = IF q = p THEN "SUCCESS" ELSE payment[q].status
      BY <1>0, <2>1 DEF PaymentRow
    <3> QED BY <1>0, <1>2, <3>1, <3>2 DEF Successful, Amounts
  <2>3. ticket'.paid = ticket.paid + req[r].amount
    BY <1>0, <2>1 DEF received, TicketRow
  <2>4. IsFiniteSet(Successful) /\ \A q \in Successful \cup {p} : Amounts[q] \in Int
    BY <1>0, AmountFacts DEF Successful
  <2>5. SumFunctionOnSet(Amounts, Successful \cup {p})
        = Amounts[p] + SumFunctionOnSet(Amounts, Successful)
    BY <2>2, <2>4, SumAdd
  <2>6. /\ ticket.paid = wallet + SumFunctionOnSet(Amounts, Successful)
        /\ SumFunctionOnSet(Amounts, Successful) \in Int /\ Amounts[p] \in Int
        /\ wallet \in Int
    BY <1>0, AmountFacts DEF CreditedOnce, Amounts, Successful
  <2>7. ticket'.paid = wallet' + SumFunctionOnSet(Amounts, Successful)'
    BY <2>1, <2>2, <2>3, <2>5, <2>6
  <2> QED BY <2>7 DEF CreditedOnce, Amounts, Successful
<1> QED BY <1>1, <1>2

\* Every step keeps the ticket's amount at its wallet debits and successful payments.
LEMMA CreditedStep ==
    ASSUME GInv, CreditedOnce, Next
    PROVE  CreditedOnce'
<1>0. payment \in [Payment -> PaymentRow] /\ ticket \in TicketRow /\ wallet \in Nat
  BY DEF GInv, TypeOK
<1>1. ASSUME NEW r \in Request, CancelLive(r) PROVE CreditedOnce'
  <2>1. \A p \in Payment : /\ payment'[p].amount = payment[p].amount
                           /\ payment'[p].status = "SUCCESS" <=> payment[p].status = "SUCCESS"
    BY <1>0, <1>1 DEF CancelLive, PaymentRow
  <2>2. Successful' = Successful /\ \A p \in Successful : payment'[p].amount = payment[p].amount
    BY <2>1 DEF Successful
  <2> QED BY <1>1, <2>2, NothingReceived DEF CancelLive
<1>2. ASSUME NEW r \in Request, CreatePayment(r) PROVE CreditedOnce'
  <2>1. req[r].pay \in Payment /\ payment[req[r].pay].status = "NONE"
    BY <1>2 DEF CreatePayment, GInv, CreateIsFresh
  <2>2. \A p \in Payment : \/ payment'[p] = payment[p]
                           \/ payment[p].status = "NONE" /\ payment'[p].status = "INITIATED"
    BY <1>0, <1>2, <2>1 DEF CreatePayment
  <2>3. Successful' = Successful /\ \A p \in Successful : payment'[p].amount = payment[p].amount
    BY <2>2 DEF Successful
  <2> QED BY <1>2, <2>3, NothingReceived DEF CreatePayment
<1>3. ASSUME NEW q \in Payment, WebhookFailure(q) PROVE CreditedOnce'
  <2>1. \A p \in Payment : /\ payment'[p].amount = payment[p].amount
                           /\ payment'[p].status = "SUCCESS" <=> payment[p].status = "SUCCESS"
    BY <1>0, <1>3 DEF WebhookFailure, PaymentRow
  <2>2. Successful' = Successful /\ \A p \in Successful : payment'[p].amount = payment[p].amount
    BY <2>1 DEF Successful
  <2> QED BY <1>3, <2>2, NothingReceived DEF WebhookFailure
<1>4. ASSUME NEW a \in Amount, WalletPays(a) PROVE CreditedOnce'
  <2>1. /\ Amounts' = Amounts /\ Successful' = Successful /\ wallet' = wallet + a
        /\ a \in Int
    BY <1>4, GatewayAssumption DEF WalletPays, Amounts, Successful
  <2>2. ticket'.paid = ticket.paid + a
    BY <1>0, <1>4 DEF WalletPays, received, TicketRow
  <2>3. /\ ticket.paid = wallet + SumFunctionOnSet(Amounts, Successful)
        /\ SumFunctionOnSet(Amounts, Successful) \in Int /\ wallet \in Int
    BY AmountFacts DEF CreditedOnce, Amounts, Successful
  <2>4. ticket'.paid = wallet' + SumFunctionOnSet(Amounts, Successful)'
    BY <2>1, <2>2, <2>3
  <2> QED BY <2>4 DEF CreditedOnce, Amounts, Successful
<1>5. CASE BulkAction
  <2>1. ticket'.paid = ticket.paid /\ wallet' = wallet /\ payment' = payment
    BY <1>0, <1>5 DEF BulkAction, TicketRow
  <2>2. Successful' = Successful /\ \A p \in Successful : payment'[p].amount = payment[p].amount
    BY <2>1 DEF Successful
  <2> QED BY <2>1, <2>2, NothingReceived
<1>6. CASE UNCHANGED <<ticket, wallet, payment>>
  BY <1>6, NothingReceived DEF Successful
<1>7. ASSUME NEW r \in Request, FlipAndCredit(r) PROVE CreditedOnce'
  BY <1>7, FlipCredits
<1> QED
  BY <1>1, <1>2, <1>3, <1>4, <1>5, <1>6, <1>7
  DEF Next, Initiate, OpenSession, SessionFails, Checkout, WebhookSuccess

\* Nothing is credited twice or erased: for any number of payments, sessions and webhooks,
\* in any order and repeated at will, the ticket has received exactly what the wallet paid
\* and the amount of each successful payment once.
THEOREM CreditedExactlyOnce == Spec => []CreditedOnce
<1>1. Init => CreditedOnce
  <2> SUFFICES ASSUME Init PROVE CreditedOnce
    OBVIOUS
  <2>1. Successful = {} /\ ticket.paid = 0 /\ wallet = 0
    BY DEF Init, Successful
  <2>2. SumFunctionOnSet(Amounts, {}) = 0
    BY SumEmpty
  <2>3. ticket.paid = wallet + SumFunctionOnSet(Amounts, Successful)
    BY <2>1, <2>2
  <2> QED BY <2>3, Zenon DEF CreditedOnce, Amounts, Successful
<1>2. GInv /\ CreditedOnce /\ [Next]_vars => CreditedOnce'
  <2>1. ASSUME GInv, CreditedOnce, UNCHANGED vars PROVE CreditedOnce'
    BY <2>1, NothingReceived DEF vars, Successful
  <2> QED BY <2>1, CreditedStep
<1> QED BY <1>1, <1>2, GatewayInvariant, PTL DEF Spec

-----------------------------------------------------------------------------
\* The bell of a tab.

\* A request of the tab.
AskTyped(a) ==
    /\ a = [kind |-> a.kind, number |-> a.number, row |-> a.row,
            stage |-> a.stage, value |-> a.value]
    /\ a.kind \in {"count", "list", "markAllRead", "clearAll", "markOne"}
    /\ a.stage \in {"sent", "done", "failed"}
    /\ a.number \in Nat
    /\ a.kind = "count" => a.value \in Nat

RowsTyped ==
    /\ written \in Nat
    /\ DOMAIN rows \subseteq 1..written
    /\ rows \in [DOMAIN rows -> BOOLEAN]

AsksTyped ==
    /\ asked \in Nat
    /\ IsFiniteSet(asks)
    /\ \A a \in asks : AskTyped(a) /\ a.number < asked
    /\ \A a, b \in asks : a.number = b.number => a = b

TabTypeOK == RowsTyped /\ AsksTyped /\ wire \in Seq(Nat) /\ badge \in Nat
             /\ stream \in BOOLEAN /\ crossed \in BOOLEAN

Clearing == {"markAllRead", "clearAll"}
clicks == {a \in asks : a.kind = "markOne" /\ a.stage = "done"}

\* The number comes from the database; the tab adds the messages of the stream and takes off
\* its clicks.  While the number is still asked for nothing but lists may be asked for too;
\* afterwards the badge differs from the unread rows by the messages and the clicks under
\* way, unless everything has been marked or cleared.
Counted ==
    \/ \E a \in asks : a.kind \in Clearing /\ a.stage = "done"
    \/ unreadRows = {} /\ badge = 0 /\ wire = <<>>
    \/ badge + Len(wire) = Cardinality(unreadRows) + Cardinality(clicks)

Kept ==
    /\ asks = {} \/ wire = <<>>
    /\ \A a \in asks : a.kind # "list" => a.stage # "failed"
    /\ \A a \in asks : a.kind \in Clearing /\ a.stage = "done" => unreadRows = {}
    /\ \A a \in asks : a.kind = "count" =>
          /\ a.stage = "done" => a.value = Cardinality(unreadRows)
          /\ \A b \in asks : b # a => b.kind = "list"
    /\ (\A a \in asks : a.kind # "count") => Counted

TabInv == TabTypeOK /\ (~crossed => Kept)

\* There are finitely many rows.
LEMMA UnreadFinite ==
    ASSUME RowsTyped
    PROVE  /\ IsFiniteSet(DOMAIN rows) /\ IsFiniteSet(unreadRows)
           /\ Cardinality(unreadRows) \in Nat
  <1>1. IsFiniteSet(1..written)
    BY FS_Interval DEF RowsTyped
  <1>2. IsFiniteSet(DOMAIN rows)
    BY <1>1, FS_Subset DEF RowsTyped
  <1>3. unreadRows \subseteq DOMAIN rows
    BY DEF unreadRows
  <1> QED BY <1>2, <1>3, FS_Subset, FS_CardinalityType

LEMMA ClicksFinite ==
    ASSUME AsksTyped
    PROVE  IsFiniteSet(clicks) /\ Cardinality(clicks) \in Nat
  <1>1. clicks \subseteq asks
    BY DEF clicks
  <1> QED BY <1>1, FS_Subset, FS_CardinalityType DEF AsksTyped

\* An answer takes the place of its request.
LEMMA AskReplaced ==
    ASSUME AsksTyped, NEW a \in asks, NEW d, AskTyped(d), d.number = a.number,
           asks' = (asks \ {a}) \cup {d}, asked' = asked
    PROVE  AsksTyped'
  <1>1. IsFiniteSet(asks \ {a})
    BY FS_RemoveElement DEF AsksTyped
  <1>2. IsFiniteSet(asks')
    BY <1>1, FS_AddElement
  <1>3. \A b \in asks' : AskTyped(b) /\ b.number < asked
    BY DEF AsksTyped
  <1>4. \A b, c \in asks' : b.number = c.number => b = c
    BY DEF AsksTyped
  <1>5. (\A b \in asks' : AskTyped(b) /\ b.number < asked') <=> (\A b \in asks' : AskTyped(b) /\ b.number < asked)
    OBVIOUS
  <1> QED BY <1>2, <1>3, <1>4 DEF AsksTyped, AskTyped

LEMMA AskRemoved ==
    ASSUME AsksTyped, NEW a \in asks, asks' = asks \ {a}, asked' = asked
    PROVE  AsksTyped'
  <1>1. IsFiniteSet(asks')
    BY FS_RemoveElement DEF AsksTyped
  <1> QED BY <1>1 DEF AsksTyped, AskTyped

\* A request that is sent.
LEMMA AskSent ==
    ASSUME AsksTyped, NEW k \in {"count", "list", "markAllRead", "clearAll", "markOne"}, NEW n,
           NEW A \in {asks, {}}, asks' = A \cup {New(k, n)}, asked' = asked + 1
    PROVE  /\ AsksTyped'
           /\ New(k, n).kind = k /\ New(k, n).stage = "sent" /\ New(k, n).number = asked
  <1> DEFINE d == New(k, n)
  <1>1. d.kind = k /\ d.stage = "sent" /\ d.number = asked /\ AskTyped(d)
    BY DEF New, AskTyped, AsksTyped
  <1>2. \A b \in A : AskTyped(b) /\ b.number < asked
    BY DEF AsksTyped
  <1>3. IsFiniteSet(A)
    BY FS_EmptySet DEF AsksTyped
  <1> HIDE DEF d
  <1>4. asked \in Nat
    BY DEF AsksTyped
  <1>5. asks' = A \cup {d}
    BY DEF d
  <1>6. IsFiniteSet(asks')
    BY <1>3, <1>5, FS_AddElement
  <1>7. \A b \in asks' : AskTyped(b) /\ b.number < asked'
    <2> TAKE b \in asks'
    <2>1. AskTyped(b) /\ b.number <= asked
      <3>1. CASE b \in A
        <4>1. b.number \in Nat
          BY <1>2, <3>1 DEF AskTyped
        <4> QED BY <1>2, <1>4, <3>1, <4>1
      <3>2. CASE b = d
        BY <1>1, <1>4, <3>2
      <3> QED BY <1>5, <3>1, <3>2
    <2>2. b.number \in Nat
      BY <2>1 DEF AskTyped
    <2> QED BY <1>4, <2>1, <2>2
  <1>8. \A b, c \in asks' : b.number = c.number => b = c
    <2>1. \A b \in A : b.number # asked
      <3> TAKE b \in A
      <3>1. b.number \in Nat /\ b.number < asked
        BY <1>2 DEF AskTyped
      <3> QED BY <1>4, <3>1
    <2>2. \A b, c \in A : b.number = c.number => b = c
      BY DEF AsksTyped
    <2> QED BY <1>1, <1>5, <2>1, <2>2
  <1> QED BY <1>1, <1>4, <1>6, <1>7, <1>8 DEF AsksTyped, AskTyped, d

\* A request that the API has served.
Done(a, v) == [kind |-> a.kind, number |-> a.number, row |-> a.row, stage |-> "done", value |-> v]

LEMMA DoneIs ==
    ASSUME NEW a, NEW v, AskTyped(a), a.kind = "count" => v \in Nat
    PROVE  /\ AskTyped(Done(a, v))
           /\ Done(a, v).number = a.number /\ Done(a, v).kind = a.kind
           /\ Done(a, v).stage = "done" /\ Done(a, v).value = v
  BY DEF Done, AskTyped

LEMMA DoneByExcept ==
    ASSUME NEW a, NEW v, AskTyped(a)
    PROVE  /\ [a EXCEPT !.stage = "done"] = Done(a, a.value)
           /\ [[a EXCEPT !.stage = "done"] EXCEPT !.value = v] = Done(a, v)
  <1>1. a = [kind |-> a.kind, number |-> a.number, row |-> a.row,
             stage |-> a.stage, value |-> a.value]
    BY DEF AskTyped
  <1>2. [a EXCEPT !.stage = "done"] = Done(a, a.value)
    BY <1>1 DEF Done
  <1>3. [Done(a, a.value) EXCEPT !.value = v] = Done(a, v)
    BY DEF Done
  <1> QED BY <1>2, <1>3

\* What serving a request changes: one alternative for each kind.
LEMMA ServeIs ==
    ASSUME RowsTyped, NEW a \in asks, AskTyped(a), Serve(a)
    PROVE  /\ a.stage = "sent"
           /\ UNCHANGED <<written, stream, wire, badge, shown, asked, mounts>>
           /\ \E v : /\ asks' = (asks \ {a}) \cup {Done(a, v)}
                     /\ a.kind = "count" => v = Cardinality(unreadRows)
           /\ a.kind \in {"count", "list"} => rows' = rows
           /\ a.kind = "markAllRead" => rows' = [n \in DOMAIN rows |-> TRUE]
           /\ a.kind = "clearAll" => rows' = <<>>
           /\ a.kind = "markOne" => rows' = [n \in DOMAIN rows |-> rows[n] \/ n = a.row]
           /\ a.kind # "markOne" => crossed' = crossed
           /\ a.kind = "markOne" => crossed' = (crossed \/ a.row \notin unreadRows)
  <1> DEFINE done == [a EXCEPT !.stage = "done"]
  <1>1. a.kind \in {"count", "list", "markAllRead", "clearAll", "markOne"}
    BY DEF AskTyped
  <1>2. a.stage = "sent" /\ UNCHANGED <<written, stream, wire, badge, shown, asked, mounts>>
    BY DEF Serve
  <1>3. done = Done(a, a.value) /\ \A v : [done EXCEPT !.value = v] = Done(a, v)
    BY DoneByExcept
  <1>4. CASE a.kind = "count"
    <2>1. /\ asks' = (asks \ {a}) \cup {[done EXCEPT !.value = Cardinality(unreadRows)]}
          /\ UNCHANGED <<rows, crossed>>
      BY <1>4 DEF Serve
    <2> HIDE DEF done
    <2> QED BY <1>2, <1>3, <1>4, <2>1
  <1>5. CASE a.kind = "list"
    <2> DEFINE v == [i \in 1..Len(findAll) |->
                       [row |-> findAll[i], read |-> rows[findAll[i]], link |-> TRUE]]
    <2>1. asks' = (asks \ {a}) \cup {[done EXCEPT !.value = v]} /\ UNCHANGED <<rows, crossed>>
      BY <1>5 DEF Serve
    <2> HIDE DEF done, v
    <2> QED BY <1>2, <1>3, <1>5, <2>1
  <1>6. CASE a.kind = "markAllRead"
    <2>1. /\ asks' = (asks \ {a}) \cup {done}
          /\ rows' = [n \in DOMAIN rows |-> TRUE] /\ UNCHANGED crossed
      BY <1>6 DEF Serve
    <2> HIDE DEF done
    <2> QED BY <1>2, <1>3, <1>6, <2>1
  <1>7. CASE a.kind = "clearAll"
    <2>1. asks' = (asks \ {a}) \cup {done} /\ rows' = <<>> /\ UNCHANGED crossed
      BY <1>7 DEF Serve
    <2> HIDE DEF done
    <2> QED BY <1>2, <1>3, <1>7, <2>1
  <1>8. CASE a.kind = "markOne"
    <2>1. /\ asks' = (asks \ {a}) \cup {done}
          /\ rows' = [n \in DOMAIN rows |-> rows[n] \/ n = a.row]
          /\ crossed' = (crossed \/ a.row \notin unreadRows)
      BY <1>8 DEF Serve
    <2> HIDE DEF done
    <2> QED BY <1>2, <1>3, <1>8, <2>1
  <1> QED BY <1>1, <1>4, <1>5, <1>6, <1>7, <1>8

\* A request that failed.
Failed(a) == [kind |-> a.kind, number |-> a.number, row |-> a.row, stage |-> "failed",
              value |-> a.value]

LEMMA FailedIs ==
    ASSUME NEW a, AskTyped(a)
    PROVE  /\ [a EXCEPT !.stage = "failed"] = Failed(a)
           /\ AskTyped(Failed(a))
           /\ Failed(a).number = a.number /\ Failed(a).kind = a.kind
           /\ Failed(a).stage = "failed"
  <1>1. a = [kind |-> a.kind, number |-> a.number, row |-> a.row,
             stage |-> a.stage, value |-> a.value]
    BY DEF AskTyped
  <1>2. [a EXCEPT !.stage = "failed"] = Failed(a)
    BY <1>1 DEF Failed
  <1> QED BY <1>2 DEF AskTyped, Failed

-----------------------------------------------------------------------------
\* Types.

LEMMA ServeTyped ==
    ASSUME TabTypeOK, NEW a \in asks, Serve(a)
    PROVE  TabTypeOK'
  <1>1. RowsTyped /\ AsksTyped /\ AskTyped(a)
    BY DEF TabTypeOK, AsksTyped
  <1>2. UNCHANGED <<written, stream, wire, badge, asked>>
    BY <1>1, ServeIs
  <1>3. AsksTyped'
    <2>1. PICK v : /\ asks' = (asks \ {a}) \cup {Done(a, v)}
                   /\ a.kind = "count" => v = Cardinality(unreadRows)
      BY <1>1, ServeIs
    <2>2. AskTyped(Done(a, v)) /\ Done(a, v).number = a.number
      BY <1>1, <2>1, DoneIs, UnreadFinite
    <2> QED BY <1>1, <1>2, <2>1, <2>2, AskReplaced
  <1>4. RowsTyped'
    <2>1. a.kind \in {"count", "list", "markAllRead", "clearAll", "markOne"}
      BY <1>1 DEF AskTyped
    <2>2. \/ rows' = rows
          \/ rows' = <<>>
          \/ rows' = [n \in DOMAIN rows |-> TRUE]
          \/ rows' = [n \in DOMAIN rows |-> rows[n] \/ n = a.row]
      BY <1>1, <2>1, ServeIs
    <2>3. rows \in [DOMAIN rows -> BOOLEAN] /\ DOMAIN rows \subseteq 1..written /\ written \in Nat
      BY <1>1 DEF RowsTyped
    <2>4. CASE rows' = rows
      BY <1>2, <2>3, <2>4 DEF RowsTyped
    <2>5. CASE rows' = <<>>
      <3>1. DOMAIN rows' = {} /\ rows' \in [{} -> BOOLEAN]
        BY <2>5
      <3> QED BY <1>2, <2>3, <3>1 DEF RowsTyped
    <2>6. CASE rows' = [n \in DOMAIN rows |-> TRUE]
      <3>1. DOMAIN rows' = DOMAIN rows /\ rows' \in [DOMAIN rows -> BOOLEAN]
        BY <2>6
      <3> QED BY <1>2, <2>3, <3>1 DEF RowsTyped
    <2>7. CASE rows' = [n \in DOMAIN rows |-> rows[n] \/ n = a.row]
      <3>1. DOMAIN rows' = DOMAIN rows /\ rows' \in [DOMAIN rows -> BOOLEAN]
        BY <2>7
      <3> QED BY <1>2, <2>3, <3>1 DEF RowsTyped
    <2> QED BY <2>2, <2>4, <2>5, <2>6, <2>7
  <1>5. crossed' \in BOOLEAN
    BY <1>1, ServeIs DEF TabTypeOK, AskTyped
  <1> QED BY <1>2, <1>3, <1>4, <1>5 DEF TabTypeOK

LEMMA AskFailsTyped ==
    ASSUME TabTypeOK, NEW a \in asks, AskFails(a)
    PROVE  TabTypeOK'
  <1>1. AsksTyped /\ AskTyped(a)
    BY DEF TabTypeOK, AsksTyped
  <1>2. asks' = (asks \ {a}) \cup {Failed(a)} /\ asked' = asked
    BY <1>1, FailedIs DEF AskFails
  <1>3. AsksTyped'
    BY <1>1, <1>2, FailedIs, AskReplaced
  <1>4. RowsTyped' /\ wire' \in Seq(Nat) /\ badge' \in Nat /\ stream' \in BOOLEAN /\ crossed' \in BOOLEAN
    BY DEF AskFails, TabTypeOK, RowsTyped
  <1> QED BY <1>3, <1>4 DEF TabTypeOK

LEMMA AnsweredTyped ==
    ASSUME TabTypeOK, NEW a \in asks, Answered(a)
    PROVE  TabTypeOK'
  <1>1. AsksTyped /\ AskTyped(a)
    BY DEF TabTypeOK, AsksTyped
  <1>2. asks' = asks \ {a} /\ asked' = asked
    BY DEF Answered
  <1>3. AsksTyped'
    BY <1>1, <1>2, AskRemoved
  <1>4. badge' \in Nat
    <2>1. badge' = CASE a.kind = "count" /\ a.stage = "done" -> a.value
                     [] a.kind \in {"markAllRead", "clearAll"} -> 0
                     [] a.kind = "markOne" -> IF badge = 0 THEN 0 ELSE badge - 1
                     [] OTHER -> badge
      BY DEF Answered
    <2>2. badge \in Nat /\ (a.kind = "count" => a.value \in Nat)
      BY <1>1 DEF AskTyped, TabTypeOK
    <2> QED BY <2>1, <2>2
  <1>5. RowsTyped' /\ wire' \in Seq(Nat) /\ stream' \in BOOLEAN /\ crossed' \in BOOLEAN
    BY DEF Answered, TabTypeOK, RowsTyped
  <1> QED BY <1>3, <1>4, <1>5 DEF TabTypeOK

LEMMA SendTyped ==
    ASSUME TabTypeOK, NEW k \in {"list", "markAllRead", "clearAll", "markOne"}, NEW n, Send(k, n)
    PROVE  TabTypeOK'
  <1>1. AsksTyped'
    <2>1. AsksTyped /\ asks' = asks \cup {New(k, n)} /\ asked' = asked + 1
      BY DEF TabTypeOK, Send
    <2> QED BY <2>1, AskSent
  <1>2. RowsTyped' /\ wire' \in Seq(Nat) /\ badge' \in Nat /\ stream' \in BOOLEAN /\ crossed' \in BOOLEAN
    BY DEF Send, TabTypeOK, RowsTyped, Crossing
  <1> QED BY <1>1, <1>2 DEF TabTypeOK

LEMMA CreateTyped ==
    ASSUME TabTypeOK, create
    PROVE  TabTypeOK'
  <1>1. RowsTyped'
    <2> DEFINE f == [n \in DOMAIN rows \cup {written + 1} |->
                       IF n = written + 1 THEN FALSE ELSE rows[n]]
    <2>1. rows' = f /\ written' = written + 1 /\ written \in Nat
      BY DEF create, TabTypeOK, RowsTyped
    <2>2. f \in [DOMAIN rows \cup {written + 1} -> BOOLEAN]
      BY DEF TabTypeOK, RowsTyped
    <2>3. DOMAIN f = DOMAIN rows \cup {written + 1} /\ DOMAIN f \subseteq 1..(written + 1)
      BY DEF TabTypeOK, RowsTyped
    <2> HIDE DEF f
    <2> QED BY <2>1, <2>2, <2>3 DEF RowsTyped
  <1>2. AsksTyped'
    BY DEF create, TabTypeOK, AsksTyped, AskTyped
  <1>3. wire' \in Seq(Nat)
    BY DEF create, TabTypeOK, RowsTyped
  <1>4. badge' \in Nat /\ stream' \in BOOLEAN /\ crossed' \in BOOLEAN
    BY DEF create, TabTypeOK, Crossing
  <1> QED BY <1>1, <1>2, <1>3, <1>4 DEF TabTypeOK

LEMMA TabTyped ==
    ASSUME TabTypeOK, [TabNext]_tabVars
    PROVE  TabTypeOK'
  <1>1. CASE Mount
    <2>1. AsksTyped'
      <3>1. AsksTyped /\ asks' = {} \cup {New("count", 0)} /\ asked' = asked + 1
        BY <1>1 DEF TabTypeOK, Mount, Mounted
      <3> QED BY <3>1, AskSent
    <2>2. RowsTyped'
      BY <1>1 DEF Mount, TabTypeOK, RowsTyped
    <2>3. wire' = <<>> /\ badge' = 0 /\ stream' = FALSE /\ crossed' = FALSE
      BY <1>1 DEF Mount, Mounted
    <2>4. wire' \in Seq(Nat) /\ badge' \in Nat
      BY <2>3
    <2> QED BY <2>1, <2>2, <2>3, <2>4 DEF TabTypeOK
  <1>2. CASE addClient
    BY <1>2 DEF addClient, TabTypeOK, RowsTyped, AsksTyped, AskTyped
  <1>3. CASE StreamCloses
    <2>1. AsksTyped' /\ RowsTyped' /\ badge' = badge
      BY <1>3 DEF StreamCloses, TabTypeOK, RowsTyped, AsksTyped, AskTyped
    <2>2. wire' = <<>> /\ stream' = FALSE /\ crossed' \in BOOLEAN
      BY <1>3 DEF StreamCloses, TabTypeOK
    <2>3. wire' \in Seq(Nat)
      BY <2>2
    <2> QED BY <2>1, <2>2, <2>3 DEF TabTypeOK
  <1>4. CASE create
    BY <1>4, CreateTyped
  <1>5. CASE onmessage
    <2>1. AsksTyped' /\ RowsTyped'
      BY <1>5 DEF onmessage, TabTypeOK, RowsTyped, AsksTyped, AskTyped
    <2>2. wire' \in Seq(Nat) /\ badge' \in Nat /\ stream' \in BOOLEAN /\ crossed' \in BOOLEAN
      BY <1>5 DEF onmessage, TabTypeOK
    <2> QED BY <2>1, <2>2 DEF TabTypeOK
  <1>6. CASE loadNotifications
    BY <1>6, SendTyped DEF loadNotifications
  <1>7. CASE markAllRead
    BY <1>7, SendTyped DEF markAllRead
  <1>8. CASE clearAll
    BY <1>8, SendTyped DEF clearAll
  <1>9. CASE markOne
    <2>1. PICK i \in 1..Len(shown) : Send("markOne", shown[i].row)
      BY <1>9 DEF markOne
    <2> QED BY <2>1, SendTyped
  <1>10. CASE \E a \in asks : Serve(a) \/ AskFails(a) \/ Answered(a)
    BY <1>10, ServeTyped, AskFailsTyped, AnsweredTyped
  <1>11. CASE UNCHANGED tabVars
    BY <1>11 DEF tabVars, TabTypeOK, RowsTyped, AsksTyped, AskTyped
  <1> QED BY <1>1, <1>2, <1>3, <1>4, <1>5, <1>6, <1>7, <1>8, <1>9, <1>10, <1>11 DEF TabNext

-----------------------------------------------------------------------------
\* The number the tab keeps.

LEMMA KeptSame ==
    ASSUME Kept, UNCHANGED <<rows, wire, badge, asks>>
    PROVE  Kept'
  <1>1. unreadRows' = unreadRows /\ clicks' = clicks
    BY DEF unreadRows, clicks
  <1> QED BY <1>1 DEF Kept, Counted

LEMMA KeptMount ==
    ASSUME Mount
    PROVE  Kept'
  <1>1. wire' = <<>> /\ asks' = {New("count", 0)}
    BY DEF Mount, Mounted
  <1>2. New("count", 0).kind = "count" /\ New("count", 0).stage = "sent"
    BY DEF New
  <1> QED BY <1>1, <1>2 DEF Kept, Clearing

LEMMA KeptCreate ==
    ASSUME TabInv, ~crossed', create
    PROVE  Kept'
  <1>1. RowsTyped /\ wire \in Seq(Nat) /\ badge \in Nat
    BY DEF TabInv, TabTypeOK
  <1>2. /\ ~crossed /\ ~Crossing /\ Kept
        /\ stream \/ \E a \in asks : a.kind = "count" /\ a.stage = "sent"
        /\ asks' = asks /\ badge' = badge
    BY DEF create, TabInv
  <1>3. CASE stream
    <2>1. wire' = Append(wire, written + 1) /\ written + 1 \in Nat
      BY <1>1, <1>3 DEF create, RowsTyped
    <2>2. wire' # <<>> /\ Len(wire') = Len(wire) + 1 /\ Len(wire) \in Nat
      BY <1>1, <2>1
    <2>3. asks = {}
      BY <1>2, <2>2 DEF Crossing
    <2>4. clicks = {} /\ clicks' = {} /\ Cardinality({}) = 0
      BY <1>2, <2>3, FS_EmptySet DEF clicks
    <2>5. badge + Len(wire) = Cardinality(unreadRows)
      <3>1. Counted
        BY <1>2, <2>3 DEF Kept
      <3>2. CASE unreadRows = {} /\ badge = 0 /\ wire = <<>>
        <4>1. Len(wire) = 0
          BY <3>2
        <4> QED BY <2>4, <3>2, <4>1
      <3>3. CASE badge + Len(wire) = Cardinality(unreadRows) + Cardinality(clicks)
        <4>1. Cardinality(unreadRows) \in Nat
          BY <1>1, UnreadFinite
        <4> QED BY <1>1, <2>2, <2>4, <3>3, <4>1
      <3> QED BY <2>3, <3>1, <3>2, <3>3 DEF Counted
    <2>6. Cardinality(unreadRows') = Cardinality(unreadRows) + 1
      <3>1. /\ rows' = [n \in DOMAIN rows \cup {written + 1} |->
                          IF n = written + 1 THEN FALSE ELSE rows[n]]
            /\ DOMAIN rows \subseteq 1..written /\ written \in Nat
        BY <1>1 DEF create, RowsTyped
      <3>2. written + 1 \notin DOMAIN rows
        BY <3>1
      <3>3. unreadRows' = unreadRows \cup {written + 1}
        BY <3>1, <3>2 DEF unreadRows
      <3>4. written + 1 \notin unreadRows
        BY <3>2 DEF unreadRows
      <3> QED BY <1>1, <3>3, <3>4, UnreadFinite, FS_AddElement
    <2>7. badge' + Len(wire') = Cardinality(unreadRows') + Cardinality(clicks')
      <3>1. Cardinality(unreadRows) \in Nat
        BY <1>1, UnreadFinite
      <3> QED BY <1>1, <1>2, <2>2, <2>4, <2>5, <2>6, <3>1
    <2> QED BY <1>2, <2>3, <2>7 DEF Kept, Counted
  <1>4. CASE ~stream
    <2>1. PICK c \in asks : c.kind = "count" /\ c.stage = "sent"
      BY <1>2, <1>4
    <2>2. wire' = wire
      BY <1>4 DEF create
    <2>3. \A b \in asks : b # c => b.kind = "list"
      BY <1>2, <2>1 DEF Kept
    <2> QED BY <1>2, <2>1, <2>2, <2>3 DEF Kept, Clearing
  <1> QED BY <1>3, <1>4

LEMMA KeptMessage ==
    ASSUME TabInv, ~crossed', onmessage
    PROVE  Kept'
  <1>1. /\ Kept /\ wire \in Seq(Nat) /\ badge \in Nat /\ wire # <<>>
        /\ wire' = Tail(wire) /\ badge' = badge + 1 /\ asks' = asks /\ rows' = rows
    BY DEF TabInv, TabTypeOK, onmessage
  <1>2. asks = {}
    BY <1>1 DEF Kept
  <1>3. Len(wire') = Len(wire) - 1 /\ Len(wire) \in Nat
    BY <1>1
  <1>4. unreadRows' = unreadRows /\ clicks' = clicks
    BY <1>1 DEF unreadRows, clicks
  <1>5. badge + Len(wire) = Cardinality(unreadRows) + Cardinality(clicks)
    BY <1>1, <1>2 DEF Kept, Counted
  <1>6. badge' + Len(wire') = badge + Len(wire)
    BY <1>1, <1>3
  <1>7. Counted'
    BY <1>4, <1>5, <1>6 DEF Counted
  <1> QED BY <1>1, <1>2, <1>7 DEF Kept

LEMMA KeptSend ==
    ASSUME TabInv, ~crossed', NEW k \in {"list", "markAllRead", "clearAll", "markOne"}, NEW n,
           Send(k, n)
    PROVE  Kept'
  <1> DEFINE d == New(k, n)
  <1>1. /\ Kept /\ ~Crossing /\ asks' = asks \cup {d}
        /\ UNCHANGED <<rows, wire, badge>>
        /\ k = "list" \/ \A a \in asks : a.kind # "count"
    BY DEF TabInv, Send
  <1>2. d.kind = k /\ d.stage = "sent"
    BY DEF New
  <1> HIDE DEF d
  <1>3. wire' = <<>>
    BY <1>1 DEF Crossing
  <1>4. unreadRows' = unreadRows /\ clicks' = clicks
    BY <1>1, <1>2 DEF unreadRows, clicks
  <1>5. ASSUME \A a \in asks' : a.kind # "count" PROVE Counted'
    <2>1. Counted
      BY <1>1, <1>5 DEF Kept
    <2> QED BY <1>1, <1>4, <2>1 DEF Counted
  <1>6. ASSUME NEW a \in asks', a.kind = "count"
        PROVE  /\ a.stage = "done" => a.value = Cardinality(unreadRows')
               /\ \A b \in asks' : b # a => b.kind = "list"
    <2>1. a \in asks /\ k = "list"
      BY <1>1, <1>2, <1>6
    <2> QED BY <1>1, <1>2, <1>4, <1>6, <2>1 DEF Kept
  <1>7. /\ \A a \in asks' : a.kind # "list" => a.stage # "failed"
        /\ \A a \in asks' : a.kind \in Clearing /\ a.stage = "done" => unreadRows' = {}
    BY <1>1, <1>2, <1>4 DEF Kept
  <1> QED BY <1>3, <1>5, <1>6, <1>7 DEF Kept

\* What one request becomes when the API has served it, among the others.
LEMMA KeptServe ==
    ASSUME TabInv, ~crossed', NEW a \in asks, Serve(a)
    PROVE  Kept'
  <1>1. RowsTyped /\ AsksTyped /\ AskTyped(a) /\ badge \in Nat /\ wire \in Seq(Nat)
    BY DEF TabInv, TabTypeOK, AsksTyped
  <1>2. /\ a.stage = "sent" /\ wire' = wire /\ badge' = badge
        /\ a.kind \in {"count", "list"} => rows' = rows
        /\ a.kind = "markAllRead" => rows' = [n \in DOMAIN rows |-> TRUE]
        /\ a.kind = "clearAll" => rows' = <<>>
        /\ a.kind = "markOne" => rows' = [n \in DOMAIN rows |-> rows[n] \/ n = a.row]
    BY <1>1, ServeIs
  <1>3. ~crossed /\ (a.kind = "markOne" => a.row \in unreadRows)
    BY <1>1, ServeIs DEF AskTyped, TabInv, TabTypeOK
  <1>4. PICK v : /\ asks' = (asks \ {a}) \cup {Done(a, v)}
                 /\ a.kind = "count" => v = Cardinality(unreadRows)
    BY <1>1, ServeIs
  <1> DEFINE d == Done(a, v)
  <1>5. /\ d.kind = a.kind /\ d.stage = "done" /\ d.number = a.number
        /\ a.kind = "count" => d.value = Cardinality(unreadRows)
    BY <1>1, <1>4, DoneIs, UnreadFinite
  <1> HIDE DEF d
  <1>6. asks' = (asks \ {a}) \cup {d}
    BY <1>4 DEF d
  <1>7. d \notin asks
    BY <1>1, <1>2, <1>5 DEF AsksTyped
  <1>8. Kept /\ wire = <<>>
    BY <1>3 DEF Kept, TabInv
  <1>9. a.kind \in {"count", "list", "markAllRead", "clearAll", "markOne"}
    BY <1>1 DEF AskTyped
  <1>10. /\ \A b \in asks' : b.kind # "list" => b.stage # "failed"
         /\ wire' = <<>>
    BY <1>2, <1>5, <1>6, <1>8 DEF Kept
  <1>11. CASE a.kind \in {"count", "list"}
    <2>1. unreadRows' = unreadRows /\ clicks' = clicks
      BY <1>2, <1>5, <1>6, <1>11 DEF unreadRows, clicks
    <2>2. \A b \in asks' : b.kind \in Clearing /\ b.stage = "done" => unreadRows' = {}
      BY <1>5, <1>6, <1>8, <1>11, <2>1 DEF Kept, Clearing
    <2>3. ASSUME NEW b \in asks', b.kind = "count"
          PROVE  /\ b.stage = "done" => b.value = Cardinality(unreadRows')
                 /\ \A e \in asks' : e # b => e.kind = "list"
      <3>1. CASE a.kind = "count"
        <4>1. \A e \in asks : e # a => e.kind = "list"
          BY <1>8, <3>1 DEF Kept
        <4> QED BY <1>5, <1>6, <2>1, <2>3, <3>1, <4>1
      <3>2. CASE a.kind = "list"
        <4>1. b \in asks /\ b # d
          BY <1>5, <1>6, <2>3, <3>2
        <4>2. /\ b.stage = "done" => b.value = Cardinality(unreadRows)
              /\ \A e \in asks : e # b => e.kind = "list"
          BY <1>8, <2>3, <4>1 DEF Kept
        <4> QED BY <1>5, <1>6, <2>1, <3>2, <4>2
      <3> QED BY <1>11, <3>1, <3>2
    <2>4. ASSUME \A b \in asks' : b.kind # "count" PROVE Counted'
      <3>1. a.kind = "list" /\ \A b \in asks : b.kind # "count"
        BY <1>5, <1>6, <1>11, <2>4
      <3>2. Counted
        BY <1>8, <3>1 DEF Kept
      <3>3. CASE \E b \in asks : b.kind \in Clearing /\ b.stage = "done"
        <4>1. PICK b \in asks : b.kind \in Clearing /\ b.stage = "done"
          BY <3>3
        <4>2. b \in asks'
          BY <1>2, <1>6, <4>1
        <4> QED BY <4>1, <4>2 DEF Counted
      <3> QED BY <1>2, <2>1, <3>2, <3>3 DEF Counted
    <2> QED BY <1>10, <2>2, <2>3, <2>4 DEF Kept
  <1>12. CASE a.kind \in Clearing
    <2>1. unreadRows' = {}
      <3>1. CASE a.kind = "markAllRead"
        BY <1>2, <3>1 DEF unreadRows
      <3>2. CASE a.kind = "clearAll"
        <4>1. DOMAIN rows' = {}
          BY <1>2, <3>2
        <4> QED BY <4>1 DEF unreadRows
      <3> QED BY <1>12, <3>1, <3>2 DEF Clearing
    <2>2. \A b \in asks' : b.kind # "count"
      BY <1>5, <1>6, <1>8, <1>12 DEF Kept, Clearing
    <2>3. Counted'
      BY <1>5, <1>6, <1>12 DEF Counted
    <2> QED BY <1>10, <2>1, <2>2, <2>3 DEF Kept
  <1>13. CASE a.kind = "markOne"
    <2>1. \A b \in asks' : b.kind # "count"
      BY <1>5, <1>6, <1>8, <1>13 DEF Kept
    <2>2. \A b \in asks : ~(b.kind \in Clearing /\ b.stage = "done")
      BY <1>3, <1>8, <1>13 DEF Kept
    <2>3. unreadRows' = unreadRows \ {a.row} /\ a.row \in unreadRows
      <3>1. rows' = [n \in DOMAIN rows |-> rows[n] \/ n = a.row]
        BY <1>2, <1>13
      <3>2. DOMAIN rows' = DOMAIN rows /\ \A n \in DOMAIN rows : rows'[n] = (rows[n] \/ n = a.row)
        BY <3>1
      <3> QED BY <1>3, <1>13, <3>2 DEF unreadRows
    <2>4. Cardinality(unreadRows') = Cardinality(unreadRows) - 1
      BY <1>1, <2>3, UnreadFinite, FS_RemoveElement
    <2>5. clicks' = clicks \cup {d} /\ d \notin clicks
      BY <1>2, <1>5, <1>6, <1>7, <1>13 DEF clicks
    <2>6. Cardinality(clicks') = Cardinality(clicks) + 1
      BY <1>1, <2>5, ClicksFinite, FS_AddElement
    <2>7. badge + Len(wire) = Cardinality(unreadRows) + Cardinality(clicks)
      <3>1. \A b \in asks : b.kind # "count"
        BY <1>2, <1>8, <1>13 DEF Kept
      <3>2. Counted
        BY <1>8, <3>1 DEF Kept
      <3> QED BY <2>2, <2>3, <3>2 DEF Counted
    <2>8. badge' + Len(wire') = Cardinality(unreadRows') + Cardinality(clicks')
      <3>1. Cardinality(unreadRows) \in Nat /\ Cardinality(clicks) \in Nat
        BY <1>1, UnreadFinite, ClicksFinite
      <3> QED BY <1>2, <2>4, <2>6, <2>7, <3>1
    <2>9. \A b \in asks' : ~(b.kind \in Clearing /\ b.stage = "done")
      BY <1>5, <1>6, <1>13, <2>2 DEF Clearing
    <2> QED BY <1>10, <2>1, <2>8, <2>9 DEF Kept, Counted
  <1> QED BY <1>9, <1>11, <1>12, <1>13 DEF Clearing

LEMMA KeptFails ==
    ASSUME TabInv, ~crossed', NEW a \in asks, AskFails(a)
    PROVE  Kept'
  <1>1. AsksTyped /\ AskTyped(a)
    BY DEF TabInv, TabTypeOK, AsksTyped
  <1> DEFINE d == Failed(a)
  <1>2. /\ Kept /\ a.kind = "list" /\ a.stage = "sent"
        /\ asks' = (asks \ {a}) \cup {d}
        /\ UNCHANGED <<rows, wire, badge>>
    BY <1>1, FailedIs DEF AskFails, TabInv
  <1>3. d.kind = "list" /\ d.stage = "failed"
    BY <1>1, <1>2, FailedIs
  <1> HIDE DEF d
  <1>4. unreadRows' = unreadRows /\ clicks' = clicks
    BY <1>2, <1>3 DEF unreadRows, clicks
  <1>5. wire' = <<>>
    BY <1>2 DEF Kept
  <1>6. /\ \A b \in asks' : b.kind # "list" => b.stage # "failed"
        /\ \A b \in asks' : b.kind \in Clearing /\ b.stage = "done" => unreadRows' = {}
    BY <1>2, <1>3, <1>4 DEF Kept, Clearing
  <1>7. ASSUME NEW b \in asks', b.kind = "count"
        PROVE  /\ b.stage = "done" => b.value = Cardinality(unreadRows')
               /\ \A e \in asks' : e # b => e.kind = "list"
    <2>1. b \in asks
      BY <1>2, <1>3, <1>7
    <2> QED BY <1>2, <1>3, <1>4, <1>7, <2>1 DEF Kept
  <1>8. ASSUME \A b \in asks' : b.kind # "count" PROVE Counted'
    <2>1. Counted
      BY <1>2, <1>8 DEF Kept
    <2>2. \A b \in asks : b.kind \in Clearing => b \in asks'
      BY <1>2 DEF Clearing
    <2> QED BY <1>2, <1>4, <2>1, <2>2 DEF Counted
  <1> QED BY <1>5, <1>6, <1>7, <1>8 DEF Kept

LEMMA KeptAnswered ==
    ASSUME TabInv, ~crossed', NEW a \in asks, Answered(a)
    PROVE  Kept'
  <1>1. RowsTyped /\ AsksTyped /\ AskTyped(a) /\ badge \in Nat /\ wire \in Seq(Nat)
    BY DEF TabInv, TabTypeOK, AsksTyped
  <1>2. /\ Kept /\ a.stage # "sent" /\ asks' = asks \ {a}
        /\ UNCHANGED <<rows, wire>>
        /\ badge' = CASE a.kind = "count" /\ a.stage = "done" -> a.value
                      [] a.kind \in {"markAllRead", "clearAll"} -> 0
                      [] a.kind = "markOne" -> IF badge = 0 THEN 0 ELSE badge - 1
                      [] OTHER -> badge
    BY DEF Answered, TabInv
  <1>3. wire = <<>> /\ wire' = <<>> /\ Len(wire) = 0 /\ Len(wire') = 0
    BY <1>2 DEF Kept
  <1>4. unreadRows' = unreadRows
    BY <1>2 DEF unreadRows
  <1>5. /\ \A b \in asks' : b.kind # "list" => b.stage # "failed"
        /\ \A b \in asks' : b.kind \in Clearing /\ b.stage = "done" => unreadRows' = {}
        /\ \A b \in asks' : b.kind = "count" =>
              /\ b.stage = "done" => b.value = Cardinality(unreadRows')
              /\ \A e \in asks' : e # b => e.kind = "list"
    BY <1>2, <1>4 DEF Kept
  <1>6. a.kind # "list" => a.stage = "done"
    BY <1>1, <1>2 DEF Kept, AskTyped
  <1>7. Cardinality(unreadRows) \in Nat /\ IsFiniteSet(clicks) /\ Cardinality(clicks) \in Nat
    BY <1>1, UnreadFinite, ClicksFinite
  <1>8. a.kind \in {"count", "list", "markAllRead", "clearAll", "markOne"}
    BY <1>1 DEF AskTyped
  <1>9. ASSUME \A b \in asks' : b.kind # "count" PROVE Counted'
    <2>1. CASE a.kind = "count"
      <3>1. badge' = Cardinality(unreadRows) /\ \A b \in asks' : b.kind = "list"
        BY <1>2, <1>6, <2>1 DEF Kept
      <3>2. clicks' = {} /\ Cardinality({}) = 0
        BY <3>1, FS_EmptySet DEF clicks
      <3>3. badge' + Len(wire') = Cardinality(unreadRows') + Cardinality(clicks')
        BY <1>3, <1>4, <1>7, <3>1, <3>2
      <3> QED BY <3>3 DEF Counted
    <2>2. CASE a.kind \in Clearing
      <3>1. badge' = 0
        BY <1>2, <2>2 DEF Clearing
      <3>2. unreadRows = {}
        BY <1>2, <1>6, <2>2 DEF Kept, Clearing
      <3> QED BY <1>3, <1>4, <3>1, <3>2 DEF Counted
    <2>3. CASE a.kind \in {"list", "markOne"}
      <3>1. Counted
        <4>1. \A b \in asks : b.kind # "count"
          BY <1>2, <1>9, <2>3
        <4> QED BY <1>2, <4>1 DEF Kept
      <3>2. CASE \E b \in asks : b.kind \in Clearing /\ b.stage = "done"
        <4>1. PICK b \in asks : b.kind \in Clearing /\ b.stage = "done"
          BY <3>2
        <4>2. b \in asks'
          BY <1>2, <2>3, <4>1 DEF Clearing
        <4> QED BY <4>1, <4>2 DEF Counted
      <3>3. CASE unreadRows = {} /\ badge = 0 /\ wire = <<>>
        <4>1. badge' = 0
          BY <1>2, <2>3, <3>3
        <4> QED BY <1>3, <1>4, <3>3, <4>1 DEF Counted
      <3>4. CASE badge + Len(wire) = Cardinality(unreadRows) + Cardinality(clicks)
        <4>1. CASE a.kind = "list"
          <5>1. clicks' = clicks /\ badge' = badge
            BY <1>2, <4>1 DEF clicks
          <5> QED BY <1>3, <1>4, <3>4, <5>1 DEF Counted
        <4>2. CASE a.kind = "markOne"
          <5>1. a \in clicks /\ clicks' = clicks \ {a}
            BY <1>2, <1>6, <4>2 DEF clicks
          <5>2. Cardinality(clicks') = Cardinality(clicks) - 1 /\ Cardinality(clicks') \in Nat
            <6>1. IsFiniteSet(clicks')
              BY <1>7, <5>1, FS_RemoveElement
            <6> QED BY <1>7, <5>1, <6>1, FS_RemoveElement, FS_CardinalityType
          <5>3. badge > 0
            BY <1>1, <1>3, <1>7, <3>4, <5>2
          <5>4. badge' = badge - 1
            BY <1>1, <1>2, <4>2, <5>3
          <5>5. badge' + Len(wire') = Cardinality(unreadRows') + Cardinality(clicks')
            BY <1>1, <1>3, <1>4, <1>7, <3>4, <5>2, <5>4
          <5> QED BY <5>5 DEF Counted
        <4> QED BY <2>3, <4>1, <4>2
      <3> QED BY <3>1, <3>2, <3>3, <3>4 DEF Counted
    <2> QED BY <1>8, <2>1, <2>2, <2>3 DEF Clearing
  <1> QED BY <1>3, <1>5, <1>9 DEF Kept

LEMMA TabKept ==
    ASSUME TabInv, [TabNext]_tabVars
    PROVE  TabInv'
  <1>1. TabTypeOK'
    BY TabTyped DEF TabInv
  <1>2. ASSUME ~crossed' PROVE Kept'
    <2>1. CASE Mount
      BY <2>1, KeptMount
    <2>2. CASE addClient
      BY <1>2, <2>2, KeptSame DEF addClient, TabInv
    <2>3. CASE StreamCloses
      BY <1>2, <2>3, KeptSame DEF StreamCloses, TabInv
    <2>4. CASE create
      BY <1>2, <2>4, KeptCreate
    <2>5. CASE onmessage
      BY <1>2, <2>5, KeptMessage
    <2>6. CASE loadNotifications
      BY <1>2, <2>6, KeptSend DEF loadNotifications
    <2>7. CASE markAllRead
      BY <1>2, <2>7, KeptSend DEF markAllRead
    <2>8. CASE clearAll
      BY <1>2, <2>8, KeptSend DEF clearAll
    <2>9. CASE markOne
      <3>1. PICK i \in 1..Len(shown) : Send("markOne", shown[i].row)
        BY <2>9 DEF markOne
      <3> QED BY <1>2, <3>1, KeptSend
    <2>10. CASE \E a \in asks : Serve(a) \/ AskFails(a) \/ Answered(a)
      BY <1>2, <2>10, KeptServe, KeptFails, KeptAnswered
    <2>11. CASE UNCHANGED tabVars
      BY <1>2, <2>11, KeptSame DEF tabVars, TabInv
    <2> QED BY <2>1, <2>2, <2>3, <2>4, <2>5, <2>6, <2>7, <2>8, <2>9, <2>10, <2>11 DEF TabNext
  <1> QED BY <1>1, <1>2 DEF TabInv

LEMMA TabStarts ==
    ASSUME TabInit
    PROVE  TabInv
  <1> DEFINE d == [kind |-> "count", number |-> 0, row |-> 0, stage |-> "sent", value |-> 0]
  <1>1. /\ asks = {d} /\ asked = 1 /\ wire = <<>> /\ badge = 0 /\ written = 0
        /\ rows = <<>> /\ stream = FALSE /\ crossed = FALSE
    BY DEF TabInit
  <1>2. AskTyped(d) /\ d.number = 0 /\ d.kind = "count" /\ d.stage = "sent"
    BY DEF AskTyped
  <1> HIDE DEF d
  <1>3. AsksTyped
    <2>1. IsFiniteSet(asks)
      BY <1>1, FS_Singleton
    <2> QED BY <1>1, <1>2, <2>1 DEF AsksTyped
  <1>4. RowsTyped
    <2>1. DOMAIN rows = {} /\ rows \in [{} -> BOOLEAN]
      BY <1>1
    <2> QED BY <1>1, <2>1 DEF RowsTyped
  <1>5. wire \in Seq(Nat) /\ badge \in Nat
    BY <1>1
  <1>6. Kept
    BY <1>1, <1>2 DEF Kept, Clearing
  <1> QED BY <1>1, <1>3, <1>4, <1>5, <1>6 DEF TabInv, TabTypeOK

LEMMA BadgeCounts ==
    ASSUME TabInv
    PROVE  BadgeIsCount
  <1> SUFFICES ASSUME asks = {}, wire = <<>>, ~crossed
               PROVE  badge = Cardinality(unreadRows)
    BY DEF BadgeIsCount
  <1>1. Counted /\ badge \in Nat /\ Cardinality(unreadRows) \in Nat
    BY UnreadFinite DEF TabInv, TabTypeOK, Kept
  <1>2. clicks = {} /\ Cardinality({}) = 0 /\ Len(wire) = 0
    BY FS_EmptySet DEF clicks
  <1>3. unreadRows = {} => Cardinality(unreadRows) = 0
    BY FS_EmptySet
  <1> QED BY <1>1, <1>2, <1>3 DEF Counted

-----------------------------------------------------------------------------
\* The list of the menu.

\* An unread row is the first of the list, whatever else has been read.
LEMMA FirstIsUnread ==
    ASSUME RowsTyped, unreadRows # {}
    PROVE  /\ Len(findAll) \in Nat /\ 1 \in 1..Len(findAll)
           /\ findAll[1] \in unreadRows
  <1> DEFINE place == [n \in DOMAIN rows |-> 1 + Cardinality({m \in DOMAIN rows : before(m, n)})]
             all == Cardinality(DOMAIN rows)
             long == IF all > RowsShown THEN RowsShown ELSE all
             earlier(n) == {m \in DOMAIN rows : before(m, n)}
  <1>1. /\ written \in Nat /\ DOMAIN rows \subseteq 1..written
        /\ \A n \in DOMAIN rows : rows[n] \in BOOLEAN /\ n \in Nat
        /\ IsFiniteSet(DOMAIN rows)
    BY UnreadFinite DEF RowsTyped
  <1>2. all \in Nat /\ all > 0
    <2>1. all \in Nat
      BY <1>1, FS_CardinalityType
    <2>2. DOMAIN rows # {}
      BY DEF unreadRows
    <2>3. all # 0
      BY <1>1, <2>2, FS_EmptySet
    <2> QED BY <2>1, <2>3
  <1> HIDE DEF all
  <1>3. long \in Nat /\ 1 \in 1..long
    BY <1>2, TabAssumption
  <1> HIDE DEF long
  <1>4. findAll = [i \in 1..long |-> CHOOSE n \in DOMAIN rows : place[n] = i]
    BY DEF findAll, Sorted, long, all
  <1>5. Len(findAll) = long
    <2> DEFINE f == [i \in 1..long |-> CHOOSE n \in DOMAIN rows : place[n] = i]
    <2>1. DOMAIN f = 1..long
      OBVIOUS
    <2> HIDE DEF f
    <2>2. Len(f) = long
      BY <1>3, <2>1
    <2> QED BY <1>4, <2>2 DEF f
  <1>6. findAll[1] = CHOOSE n \in DOMAIN rows : place[n] = 1
    BY <1>3, <1>4
  <1>7. \A n \in DOMAIN rows : place[n] = 1 <=> earlier(n) = {}
    <2> TAKE n \in DOMAIN rows
    <2>1. IsFiniteSet(earlier(n))
      BY <1>1, FS_Subset
    <2>2. place[n] = 1 + Cardinality(earlier(n))
      OBVIOUS
    <2> HIDE DEF place, earlier
    <2>3. Cardinality(earlier(n)) \in Nat /\ (Cardinality(earlier(n)) = 0 <=> earlier(n) = {})
      BY <2>1, FS_CardinalityType, FS_EmptySet
    <2> QED BY <2>2, <2>3
  <1>8. PICK g \in unreadRows : \A l \in unreadRows : l <= g
    <2>1. unreadRows \in SUBSET (1..written)
      BY <1>1 DEF unreadRows
    <2> QED BY <1>1, <2>1, HasGreatest
  <1>9. g \in DOMAIN rows /\ ~rows[g]
    BY <1>8 DEF unreadRows
  <1>10. earlier(g) = {}
    <2> SUFFICES ASSUME NEW m \in DOMAIN rows, before(m, g) PROVE FALSE
      OBVIOUS
    <2>1. ~rows[m] /\ m > g
      BY <1>1, <1>9 DEF before
    <2>2. m \in unreadRows
      BY <2>1 DEF unreadRows
    <2>3. m <= g /\ m \in Nat /\ g \in Nat
      BY <1>1, <1>8, <1>9, <2>2
    <2> QED BY <2>1, <2>3
  <1>11. place[g] = 1
    BY <1>7, <1>9, <1>10
  <1> HIDE DEF place
  <1>12. findAll[1] \in DOMAIN rows /\ place[findAll[1]] = 1
    BY <1>6, <1>9, <1>11
  <1>13. earlier(findAll[1]) = {}
    BY <1>7, <1>12
  <1>14. ~rows[findAll[1]]
    <2>1. ~before(g, findAll[1])
      BY <1>9, <1>13
    <2> QED BY <1>9, <2>1 DEF before
  <1>15. findAll[1] \in unreadRows
    BY <1>12, <1>14 DEF unreadRows
  <1> QED BY <1>3, <1>5, <1>15

LEMMA SeenIfUnread ==
    ASSUME TabInv, [TabNext]_tabVars
    PROVE  UnreadIsSeen
  <1> SUFFICES ASSUME NEW a \in asks, NEW b \in asks',
                      a.kind = "list", a.stage = "sent",
                      b = [a EXCEPT !.stage = "done", !.value = b.value],
                      asks = {a}, wire = <<>>, ~crossed, badge > 0
               PROVE  \E i \in 1..Len(b.value) : ~b.value[i].read
    BY DEF UnreadIsSeen
  <1>1. RowsTyped /\ AsksTyped /\ AskTyped(a) /\ badge \in Nat /\ Kept
    BY DEF TabInv, TabTypeOK, AsksTyped
  <1>2. b.stage = "done" /\ b.kind = "list"
    <2>1. a = [kind |-> a.kind, number |-> a.number, row |-> a.row,
               stage |-> a.stage, value |-> a.value]
      BY <1>1 DEF AskTyped
    <2> QED BY <2>1
  <1>3. b # a /\ b \notin asks
    BY <1>2
  <1>4. Serve(a)
    <2>1. CASE Mount
      <3>1. b = New("count", 0)
        BY <2>1 DEF Mount, Mounted
      <3> QED BY <1>2, <3>1 DEF New
    <2>2. CASE addClient
      BY <1>3, <2>2 DEF addClient
    <2>3. CASE StreamCloses
      BY <1>3, <2>3 DEF StreamCloses
    <2>4. CASE create
      BY <1>3, <2>4 DEF create
    <2>5. CASE onmessage
      BY <1>3, <2>5 DEF onmessage
    <2>6. ASSUME NEW k, NEW n, Send(k, n) PROVE FALSE
      <3>1. b = New(k, n)
        BY <1>3, <2>6 DEF Send
      <3> QED BY <1>2, <3>1 DEF New
    <2>7. CASE loadNotifications \/ markAllRead \/ clearAll \/ markOne
      BY <2>6, <2>7 DEF loadNotifications, markAllRead, clearAll, markOne
    <2>8. CASE AskFails(a)
      <3>1. b = Failed(a)
        BY <1>1, <1>3, <2>8, FailedIs DEF AskFails
      <3> QED BY <1>1, <1>2, <3>1, FailedIs
    <2>9. ~Answered(a)
      BY DEF Answered
    <2>10. CASE UNCHANGED tabVars
      BY <1>3, <2>10 DEF tabVars
    <2> QED BY <2>1, <2>2, <2>3, <2>4, <2>5, <2>7, <2>8, <2>9, <2>10 DEF TabNext
  <1> DEFINE done == [a EXCEPT !.stage = "done"]
             v == [i \in 1..Len(findAll) |->
                     [row |-> findAll[i], read |-> rows[findAll[i]], link |-> TRUE]]
  <1>5. asks' = (asks \ {a}) \cup {[done EXCEPT !.value = v]}
    BY <1>4 DEF Serve
  <1>6. b.value = v
    <2>1. b = [done EXCEPT !.value = v]
      BY <1>3, <1>5
    <2> HIDE DEF v, done
    <2>2. [done EXCEPT !.value = v] = Done(a, v)
      BY <1>1, DoneByExcept DEF done
    <2> QED BY <2>1, <2>2 DEF Done
  <1>7. unreadRows # {}
    <2>1. Counted /\ clicks = {}
      BY <1>1 DEF Kept, clicks
    <2>2. Cardinality({}) = 0 /\ Len(wire) = 0
      BY FS_EmptySet
    <2>3. badge = Cardinality(unreadRows) \/ badge = 0
      <3>1. Cardinality(unreadRows) \in Nat
        BY <1>1, UnreadFinite
      <3> QED BY <1>1, <2>1, <2>2, <3>1 DEF Counted, Clearing
    <2> QED BY <2>2, <2>3
  <1>8. /\ Len(findAll) \in Nat /\ 1 \in 1..Len(findAll)
        /\ findAll[1] \in unreadRows
    BY <1>1, <1>7, FirstIsUnread
  <1>9. ~rows[findAll[1]]
    BY <1>8 DEF unreadRows
  <1>10. Len(v) = Len(findAll)
    <2>1. DOMAIN v = 1..Len(findAll)
      OBVIOUS
    <2> HIDE DEF v
    <2> QED BY <1>8, <2>1
  <1>11. v[1].read = rows[findAll[1]]
    BY <1>8
  <1> HIDE DEF v
  <1> QED BY <1>6, <1>8, <1>9, <1>10, <1>11

\* The badge and the menu tell what the database holds, whatever the number of rows the menu
\* shows, of notifications, of requests under way and of page loads.  The number a tab counts
\* itself needs an invariant of everything under way: what it adds up with the messages and
\* the clicks to come is the number of unread rows, or all have been marked or cleared.
THEOREM BadgeTrue == TabSpec => BadgeIsTrue
  <1>1. TabInit => TabInv
    BY TabStarts
  <1>2. TabInv /\ [TabNext]_tabVars => TabInv'
    BY TabKept
  <1>3. TabInv /\ TabInv' /\ [TabNext]_tabVars => [BadgeIsCount' /\ UnreadIsSeen]_tabVars
    <2>1. TabInv => BadgeIsCount
      BY BadgeCounts
    <2>2. TabInv' => BadgeIsCount'
      BY <2>1, PTL
    <2>3. TabInv /\ [TabNext]_tabVars => UnreadIsSeen
      BY SeenIfUnread
    <2> QED BY <2>2, <2>3
  <1> QED BY <1>1, <1>2, <1>3, PTL DEF TabSpec, BadgeIsTrue
=============================================================================
