------------------------ MODULE TicketWorkflowProofs ------------------------
(***************************************************************************)
(* Theorems about TicketWorkflow, for any number of requests and           *)
(* representatives, any prices and charges and any set of endpoints.       *)
(***************************************************************************)
EXTENDS TicketWorkflow, SequenceTheorems, WellFoundedInduction, TLAPS

\* What a request that was validated against an unlocked read may rely on when it
\* writes: the transition it chose is listed for the status it saw, and the gate of
\* a physical delivery, once passed, stays open.
ReadHolds(q) ==
    /\ q.op = "updateStatus" =>
         /\ q.next \in STATUS_TRANSITIONS[q.seen]
         /\ q.next = "DELIVERED" => (flow.physical => dispatched)
    /\ q.op = "overrideStatus" /\ q.next = "DELIVERED" =>
         q.bypass \/ (flow.physical => dispatched)
    /\ q.op = "assign" => q.seen \in {"UNPAID", "PAID"} /\ q.actor \in Rep
    /\ q.op = "submitClerkCosts" => q.seen \in {"IN_PROGRESS", "WAITING_APPROVAL"}

ReadsHold == \A r \in Request : ReadHolds(req[r])

\* The history has a row from the ticket's creation on.
Chained == Len(history) > 0 /\ HistoryChain

\* The inductive invariant.
WInv == TypeOK /\ Chained /\ OneActiveAssignment /\ ReadsHold

-----------------------------------------------------------------------------
\* Lemmas about the operators.

\* A nonempty set of positions has a last one.
LEMMA LastPosition ==
    ASSUME NEW n \in Nat, NEW I \in SUBSET (1..n), I # {}
    PROVE  \E i \in I : \A j \in I : j <= i
<1> DEFINE R == {ss \in Nat \X Nat : ss[1] < ss[2]}
           T == {k \in Nat : n - k \in I}
<1>1. IsWellFoundedOn(R, Nat)
  BY NatLessThanWellFounded, Zenon DEF OpToRel
<1>2. T \subseteq Nat
  OBVIOUS
<1>3. T # {}
  <2>1. PICK i \in I : TRUE
    OBVIOUS
  <2>2. n - i \in Nat /\ n - (n - i) = i
    OBVIOUS
  <2> QED BY <2>1, <2>2
<1>4. \E x \in T : \A y \in T : ~ (<<y, x>> \in R)
  <2> HIDE DEF R, T
  <2> QED BY <1>1, <1>2, <1>3, WFMin, Zenon
<1>5. PICK x \in T : \A y \in T : ~ (<<y, x>> \in R)
  BY <1>4
<1>6. ASSUME NEW j \in I PROVE j <= n - x
  <2>1. n - j \in Nat /\ n - (n - j) = j
    OBVIOUS
  <2>2. n - j \in T
    BY <2>1
  <2>3. ~(n - j < x)
    BY <2>2, <1>5, <2>1
  <2> QED BY <2>1, <2>3
<1>7. n - x \in I
  OBVIOUS
<1> QED BY <1>6, <1>7

\* The newest assignment is a position of the list, or 0.
LEMMA LatestType ==
    ASSUME assignments \in Seq(AssignmentRow), NEW S
    PROVE  latest(S) \in 0..Len(assignments)
<1> DEFINE I == {i \in 1..Len(assignments) : assignments[i].status \in S}
<1>1. CASE I = {}
  BY <1>1 DEF latest
<1>2. CASE I # {}
  <2>1. \E i \in I : \A j \in I : j <= i
    <3>1. I \in SUBSET (1..Len(assignments)) /\ Len(assignments) \in Nat
      OBVIOUS
    <3> QED BY <3>1, <1>2, LastPosition, Zenon
  <2>2. (CHOOSE i \in I : \A j \in I : j <= i) \in I
    BY <2>1
  <2> QED BY <1>2, <2>2 DEF latest
<1> QED BY <1>1, <1>2

\* What is assigned comes from PAID, and what is delivered from COMPLETED.
LEMMA Transitions ==
    ASSUME NEW s \in Status
    PROVE  /\ STATUS_TRANSITIONS[s] \subseteq Status
           /\ "ASSIGNED" \in STATUS_TRANSITIONS[s] => s = "PAID"
           /\ s = "UNPAID" => STATUS_TRANSITIONS[s] = {"PAID"}
           /\ s = "PAID" => STATUS_TRANSITIONS[s] = {"ASSIGNED"}
           /\ s = "ASSIGNED" => STATUS_TRANSITIONS[s] = {"IN_PROGRESS"}
           /\ s = "IN_PROGRESS" => STATUS_TRANSITIONS[s] = {"WAITING_APPROVAL"}
           /\ s = "WAITING_APPROVAL" => STATUS_TRANSITIONS[s] = {"COMPLETED", "IN_PROGRESS"}
<1>1. CASE s = "UNPAID"
  BY <1>1 DEF STATUS_TRANSITIONS, Status
<1>2. CASE s = "PAID"
  BY <1>2 DEF STATUS_TRANSITIONS, Status
<1>3. CASE s = "ASSIGNED"
  BY <1>3 DEF STATUS_TRANSITIONS, Status
<1>4. CASE s = "IN_PROGRESS"
  BY <1>4 DEF STATUS_TRANSITIONS, Status
<1>5. CASE s = "WAITING_APPROVAL"
  BY <1>5 DEF STATUS_TRANSITIONS, Status
<1>6. CASE s = "COMPLETED"
  BY <1>6 DEF STATUS_TRANSITIONS, Status
<1>7. CASE s = "DELIVERED"
  BY <1>7 DEF STATUS_TRANSITIONS, Status
<1> QED BY <1>1, <1>2, <1>3, <1>4, <1>5, <1>6, <1>7, Zenon DEF Status

\* A request without a ticket row in hand.
LEMMA BlankRow ==
    /\ Blank \in RequestRow
    /\ Blank.op = "none"
    /\ [Blank EXCEPT !.pc = "done"] \in RequestRow
    /\ [Blank EXCEPT !.pc = "done"].op = "none"
    /\ [Blank EXCEPT !.pc = "done"].pc = "done"
    /\ [Blank EXCEPT !.pc = "settle"] \in RequestRow
    /\ [Blank EXCEPT !.pc = "settle"].op = "none"
<1>1. (CHOOSE p \in Price : TRUE) \in Price /\ (CHOOSE c \in Charge : TRUE) \in Charge
  BY WorkflowAssumption
<1> QED BY <1>1 DEF Blank, RequestRow, Endpoint, Status

\* h tells the story of a ticket up to the status s without a gap.
ChainTo(h, s) ==
    /\ Len(h) > 0
    /\ \A i \in 1..(Len(h) - 1) : Continues(h[i][2], h[i + 1][1])
    /\ Continues(h[Len(h)][2], s)

\* A row that starts from the status the story has reached continues it.
LEMMA AppendChained ==
    ASSUME NEW h \in Seq(Status \X Status), NEW from \in Status, NEW to \in Status,
           ChainTo(h, from)
    PROVE  Append(h, <<from, to>>) \in Seq(Status \X Status)
           /\ ChainTo(Append(h, <<from, to>>), to)
<1> DEFINE g == Append(h, <<from, to>>)
<1>1. <<from, to>> \in Status \X Status
  OBVIOUS
<1>2. /\ g \in Seq(Status \X Status)
      /\ Len(g) = Len(h) + 1
      /\ \A i \in 1..Len(h) : g[i] = h[i]
      /\ g[Len(h) + 1] = <<from, to>>
  BY <1>1, AppendProperties
<1>3. Len(h) \in Nat /\ Len(h) > 0
  BY LenProperties DEF ChainTo
<1> HIDE DEF g
<1>4. ASSUME NEW i \in 1..Len(h) PROVE Continues(g[i][2], g[i + 1][1])
  <2>1. CASE i < Len(h)
    <3>1. i \in 1..(Len(h) - 1) /\ i + 1 \in 1..Len(h)
      BY <1>3, <2>1
    <3>2. g[i] = h[i] /\ g[i + 1] = h[i + 1]
      BY <3>1, <1>2
    <3> QED BY <3>1, <3>2 DEF ChainTo
  <2>2. CASE i = Len(h)
    <3>1. g[i] = h[Len(h)] /\ g[i + 1] = <<from, to>>
      BY <2>2, <1>2, <1>3
    <3> QED BY <3>1 DEF ChainTo
  <2> QED BY <2>1, <2>2, <1>3
<1>5. Continues(g[Len(g)][2], to)
  BY <1>2, <1>3 DEF Continues
<1>6. 1..(Len(g) - 1) = 1..Len(h) /\ Len(g) > 0
  BY <1>2, <1>3
<1>7. ChainTo(g, to)
  BY <1>4, <1>5, <1>6 DEF ChainTo
<1> QED BY <1>2, <1>7 DEF g

\* A conditional flip whose condition implies that the row still has the status the
\* history row starts from continues the history.
LEMMA FlipChained ==
    ASSUME TypeOK, Chained, NEW ok \in BOOLEAN, NEW from \in Status, NEW to \in Status,
           ok => status = from, Flip(ok, from, to)
    PROVE  status' \in Status /\ history' \in Seq(Status \X Status) /\ Chained'
<1>1. CASE ~ok
  BY <1>1 DEF TypeOK, Chained, HistoryChain, Continues, Flip
<1>2. CASE ok
  <2>1. history \in Seq(Status \X Status) /\ ChainTo(history, from)
    BY <1>2 DEF TypeOK, Chained, HistoryChain, ChainTo
  <2>2. status' = to /\ history' = Append(history, <<from, to>>)
    BY <1>2 DEF Flip
  <2>3. history' \in Seq(Status \X Status) /\ ChainTo(history', to)
    BY <2>1, <2>2, AppendChained
  <2> QED BY <2>2, <2>3 DEF Chained, HistoryChain, ChainTo, Continues
<1> QED BY <1>1, <1>2

-----------------------------------------------------------------------------
\* The inductive invariant.

\* A ticket starts with the rows it has and no request in flight.
LEMMA WorkflowInit == Init => WInv
<1> SUFFICES ASSUME Init PROVE WInv
  OBVIOUS
<1>1. flow \in Flows /\ status \in Status /\ dispatched \in BOOLEAN /\ finalized \in BOOLEAN
  BY WorkflowAssumption DEF Init
<1>2. approval \in {"NONE", "SUBMITTED", "VERIFIED", "REJECTED"} /\ covered \in 0..2
  BY DEF Init
<1>3. price \in Price /\ charge \in Charge /\ bill \in Bill
  BY DEF Init, Bill
<1>4. assignments \in Seq(AssignmentRow) /\ Len(assignments) <= 1
  <2>1. PICK rep \in Rep :
          assignments =
            CASE status \in {"UNPAID", "PAID"} -> <<>>
              [] status = "ASSIGNED" -> <<[rep |-> rep, status |-> "ACTIVE"]>>
              [] OTHER -> <<[rep |-> rep, status |-> "ACCEPTED"]>>
    BY DEF Init
  <2>2. /\ [rep |-> rep, status |-> "ACTIVE"] \in AssignmentRow
        /\ [rep |-> rep, status |-> "ACCEPTED"] \in AssignmentRow
    BY DEF AssignmentRow
  <2>3. \/ assignments = <<>>
        \/ assignments = <<[rep |-> rep, status |-> "ACTIVE"]>>
        \/ assignments = <<[rep |-> rep, status |-> "ACCEPTED"]>>
    BY <2>1
  <2>4. <<>> \in Seq(AssignmentRow) /\ Len(<<>>) = 0
    OBVIOUS
  <2>5. ASSUME NEW a \in AssignmentRow PROVE <<a>> \in Seq(AssignmentRow) /\ Len(<<a>>) = 1
    OBVIOUS
  <2>6. CASE assignments = <<>>
    BY <2>6, <2>4
  <2>7. ASSUME NEW a \in AssignmentRow, assignments = <<a>>
        PROVE  assignments \in Seq(AssignmentRow) /\ Len(assignments) <= 1
    BY <2>7, <2>5
  <2> QED BY <2>2, <2>3, <2>6, <2>7, Zenon
<1>5. history \in Seq(Status \X Status) /\ Chained
  <2>1. history = <<<<"UNPAID", status>>>> /\ "UNPAID" \in Status
    BY DEF Init, Status
  <2>2. history \in Seq(Status \X Status) /\ Len(history) = 1 /\ history[1][2] = status
    BY <1>1, <2>1
  <2> QED BY <2>2 DEF Chained, HistoryChain, Continues
<1>6. req \in [Request -> RequestRow] /\ \A r \in Request : req[r].op = "none"
  BY BlankRow DEF Init
<1>7. TypeOK
  BY <1>1, <1>2, <1>3, <1>4, <1>5, <1>6 DEF TypeOK
<1>8. OneActiveAssignment
  BY <1>4 DEF OneActiveAssignment
<1>9. ReadsHold
  BY <1>6 DEF ReadsHold, ReadHolds
<1> QED BY <1>5, <1>7, <1>8, <1>9 DEF WInv

\* The columns that are neither the status, its history nor the assignments.
Columns ==
    /\ approval \in {"NONE", "SUBMITTED", "VERIFIED", "REJECTED"}
    /\ finalized \in BOOLEAN
    /\ covered \in 0..2
    /\ price \in Price
    /\ charge \in Charge
    /\ bill \in Bill

\* What is left to show of a step that finishes its request: its columns, its
\* status and history, and its assignments.  The other requests' reads hold on,
\* because a flow never changes and a parcel is never called back.
LEMMA Finishing ==
    ASSUME WInv, NEW r \in Request, NEW row \in RequestRow, row.op = "none",
           req' = [req EXCEPT ![r] = row],
           flow' = flow, dispatched' \in BOOLEAN, dispatched => dispatched',
           Columns', status' \in Status, history' \in Seq(Status \X Status), Chained',
           assignments' \in Seq(AssignmentRow), OneActiveAssignment'
    PROVE  WInv'
<1>1. req' \in [Request -> RequestRow]
  BY DEF WInv, TypeOK
<1>2. TypeOK'
  BY <1>1 DEF WInv, TypeOK, Columns
<1>3. ReadsHold'
  <2> SUFFICES ASSUME NEW o \in Request PROVE ReadHolds(req[o])'
    BY DEF ReadsHold
  <2>1. CASE o = r
    BY <2>1 DEF WInv, TypeOK, ReadHolds
  <2>2. CASE o # r
    <3>1. req'[o] = req[o] /\ ReadHolds(req[o])
      BY <2>2 DEF WInv, TypeOK, ReadsHold
    <3> QED BY <3>1 DEF ReadHolds
  <2> QED BY <2>1, <2>2
<1> QED BY <1>2, <1>3 DEF WInv

\* A step that changes one request's locals only.
LEMMA Reading ==
    ASSUME WInv, NEW r \in Request, NEW row \in RequestRow, ReadHolds(row),
           req' = [req EXCEPT ![r] = row],
           UNCHANGED <<flow, status, approval, dispatched, money, assignments, history>>
    PROVE  WInv'
<1>1. req' \in [Request -> RequestRow]
  BY DEF WInv, TypeOK
<1>2. TypeOK'
  BY <1>1 DEF WInv, TypeOK, money
<1>3. Chained' /\ OneActiveAssignment'
  BY DEF WInv, Chained, HistoryChain, Continues, OneActiveAssignment
<1>4. ReadsHold'
  <2> SUFFICES ASSUME NEW o \in Request PROVE ReadHolds(req[o])'
    BY DEF ReadsHold
  <2>1. CASE o = r
    BY <2>1 DEF WInv, TypeOK, ReadHolds
  <2>2. CASE o # r
    <3>1. req'[o] = req[o] /\ ReadHolds(req[o])
      BY <2>2 DEF WInv, TypeOK, ReadsHold
    <3> QED BY <3>1 DEF ReadHolds
  <2> QED BY <2>1, <2>2
<1> QED BY <1>2, <1>3, <1>4 DEF WInv

\* A request that arrives reads the ticket and changes nothing of it.
LEMMA ArrivesInv ==
    ASSUME WInv, NEW r \in Request, NEW e \in Endpoint,
           NEW pc \in {"allowed", "find", "write"}, NEW q \in RequestRow,
           Arrives(r, e, pc, q), ReadHolds([q EXCEPT !.op = e, !.pc = pc, !.seen = status])
    PROVE  WInv'
<1> DEFINE row == [q EXCEPT !.op = e, !.pc = pc, !.seen = status]
<1>1. row \in RequestRow
  BY DEF WInv, TypeOK, RequestRow
<1>2. /\ req' = [req EXCEPT ![r] = row]
      /\ UNCHANGED <<flow, status, approval, dispatched, money, assignments, history>>
  BY DEF Arrives
<1> HIDE DEF row
<1> QED BY <1>1, <1>2, Reading DEF row

\* The unlocked reads of the staff's endpoints.
LEMMA StaffReadsInv ==
    ASSUME WInv, NEW r \in Request,
           \/ \E s \in Status : UpdateStatus(r, s)
           \/ \E s \in Status, b \in BOOLEAN : OverrideStatus(r, s, b)
           \/ SendBackToClerk(r)
           \/ \E rep \in Rep : Assign(r, rep)
           \/ \E p \in Price, c \in Charge : RepriceTicket(r, p, c)
    PROVE  WInv'
<1>0. req[r] \in RequestRow /\ status \in Status /\ price \in Price /\ charge \in Charge
  BY DEF WInv, TypeOK
<1>1. ASSUME NEW s \in Status, UpdateStatus(r, s) PROVE WInv'
  <2> DEFINE q == [req[r] EXCEPT !.next = s]
  <2>1. q \in RequestRow
    BY <1>0 DEF RequestRow
  <2>2. "updateStatus" \in Endpoint
    BY DEF Endpoint
  <2>3. ReadHolds([q EXCEPT !.op = "updateStatus", !.pc = "write", !.seen = status])
    BY <1>0, <1>1, <2>1 DEF UpdateStatus, ReadHolds, RequestRow, mayDeliver
  <2> QED BY <1>1, <2>1, <2>2, <2>3, ArrivesInv DEF UpdateStatus
<1>2. ASSUME NEW s \in Status, NEW b \in BOOLEAN, OverrideStatus(r, s, b) PROVE WInv'
  <2> DEFINE q == [req[r] EXCEPT !.next = s, !.bypass = b /\ s = "DELIVERED"]
  <2>1. q \in RequestRow
    BY <1>0 DEF RequestRow
  <2>2. "overrideStatus" \in Endpoint
    BY DEF Endpoint
  <2>3. ReadHolds([q EXCEPT !.op = "overrideStatus", !.pc = "write", !.seen = status])
    BY <1>0, <1>2, <2>1 DEF OverrideStatus, ReadHolds, RequestRow, mayDeliver
  <2> QED BY <1>2, <2>1, <2>2, <2>3, ArrivesInv DEF OverrideStatus
<1>3. CASE SendBackToClerk(r)
  <2> DEFINE q == [req[r] EXCEPT !.next = "IN_PROGRESS"]
  <2>1. q \in RequestRow
    BY <1>0 DEF RequestRow, Status
  <2>2. "sendBackToClerk" \in Endpoint
    BY DEF Endpoint
  <2>3. ReadHolds([q EXCEPT !.op = "sendBackToClerk", !.pc = "write", !.seen = status])
    BY <1>0, <2>1 DEF ReadHolds, RequestRow
  <2> QED BY <1>3, <2>1, <2>2, <2>3, ArrivesInv DEF SendBackToClerk
<1>4. ASSUME NEW rep \in Rep, Assign(r, rep) PROVE WInv'
  <2> DEFINE q == [req[r] EXCEPT !.actor = rep, !.price = price, !.charge = charge]
  <2>1. q \in RequestRow
    BY <1>0 DEF RequestRow
  <2>2. "assign" \in Endpoint
    BY DEF Endpoint
  <2>3. status \in {"UNPAID", "PAID"}
    BY <1>0, <1>4, Transitions DEF Assign
  <2>4. ReadHolds([q EXCEPT !.op = "assign", !.pc = "write", !.seen = status])
    BY <1>0, <2>1, <2>3 DEF ReadHolds, RequestRow
  <2> QED BY <1>4, <2>1, <2>2, <2>4, ArrivesInv DEF Assign
<1>5. ASSUME NEW p \in Price, NEW c \in Charge, RepriceTicket(r, p, c) PROVE WInv'
  <2> DEFINE q == [req[r] EXCEPT !.price = p, !.charge = c]
  <2>1. q \in RequestRow
    BY <1>0 DEF RequestRow
  <2>2. "repriceTicket" \in Endpoint
    BY DEF Endpoint
  <2>3. ReadHolds([q EXCEPT !.op = "repriceTicket", !.pc = "write", !.seen = status])
    BY <1>0, <2>1 DEF ReadHolds, RequestRow
  <2> QED BY <1>5, <2>1, <2>2, <2>3, ArrivesInv DEF RepriceTicket
<1> QED BY <1>1, <1>2, <1>3, <1>4, <1>5

\* The unlocked reads of the representative's endpoints.
LEMMA ClerkReadsInv ==
    ASSUME WInv, NEW r \in Request,
           \/ \E rep \in Rep : AcceptAssignment(r, rep)
           \/ \E who \in Actor : RejectAssignment(r, who)
           \/ \E who \in Actor : SubmitClerkReceipt(r, who)
           \/ \E who \in Actor, c \in Charge : SubmitClerkCosts(r, who, c)
           \/ \E who \in Actor, c \in Charge : SaveClerkCharges(r, who, c)
           \/ \E who \in Actor : DispatchDelivery(r, who)
    PROVE  WInv'
<1>0. req[r] \in RequestRow /\ status \in Status
  BY DEF WInv, TypeOK
<1>1. ASSUME NEW who \in Actor PROVE [req[r] EXCEPT !.actor = who] \in RequestRow
  BY <1>0 DEF RequestRow, Actor
<1>2. ASSUME NEW who \in Actor, NEW c \in Charge
      PROVE  [req[r] EXCEPT !.actor = who, !.charge = c] \in RequestRow
  BY <1>0 DEF RequestRow, Actor
<1>3. ASSUME NEW q \in RequestRow,
             NEW e \in {"acceptAssignment", "rejectAssignment", "submitClerkReceipt",
                        "saveClerkCharges", "dispatchDelivery"},
             NEW pc \in {"allowed", "find"}, Arrives(r, e, pc, q)
      PROVE  WInv'
  <2>1. e \in Endpoint
    BY DEF Endpoint
  <2>2. ReadHolds([q EXCEPT !.op = e, !.pc = pc, !.seen = status])
    BY <1>0 DEF ReadHolds, RequestRow
  <2> QED BY <1>3, <2>1, <2>2, ArrivesInv
<1>4. ASSUME NEW rep \in Rep, AcceptAssignment(r, rep) PROVE WInv'
  <2>1. rep \in Actor
    BY DEF Actor
  <2> QED BY <1>1, <1>3, <1>4, <2>1 DEF AcceptAssignment
<1>5. ASSUME NEW who \in Actor,
             RejectAssignment(r, who) \/ SubmitClerkReceipt(r, who) \/ DispatchDelivery(r, who)
      PROVE  WInv'
  BY <1>1, <1>3, <1>5 DEF RejectAssignment, SubmitClerkReceipt, DispatchDelivery
<1>6. ASSUME NEW who \in Actor, NEW c \in Charge, SaveClerkCharges(r, who, c) PROVE WInv'
  BY <1>2, <1>3, <1>6 DEF SaveClerkCharges
<1>7. ASSUME NEW who \in Actor, NEW c \in Charge, SubmitClerkCosts(r, who, c) PROVE WInv'
  <2> DEFINE q == [req[r] EXCEPT !.actor = who, !.charge = c]
  <2>1. q \in RequestRow
    BY <1>2
  <2>2. "submitClerkCosts" \in Endpoint
    BY DEF Endpoint
  <2>3. status \in {"IN_PROGRESS", "WAITING_APPROVAL"}
    BY <1>7 DEF SubmitClerkCosts
  <2>4. ReadHolds([q EXCEPT !.op = "submitClerkCosts", !.pc = "allowed", !.seen = status])
    BY <1>0, <2>1, <2>3 DEF ReadHolds, RequestRow
  <2> QED BY <1>7, <2>1, <2>2, <2>4, ArrivesInv DEF SubmitClerkCosts
<1> QED BY <1>4, <1>5, <1>6, <1>7

\* The reads of the assignments before the transaction.
LEMMA AssignmentReadsInv ==
    ASSUME WInv, NEW r \in Request, EnsureClerkActionAllowed(r) \/ FindActive(r)
    PROVE  WInv'
<1> DEFINE done == [Blank EXCEPT !.pc = "done"]
<1>0. /\ req[r] \in RequestRow /\ ReadHolds(req[r])
      /\ assignments \in Seq(AssignmentRow)
  BY DEF WInv, TypeOK, ReadsHold
<1>1. ASSUME Done(r),
             UNCHANGED <<flow, status, approval, dispatched, money, assignments, history>>
      PROVE  WInv'
  <2>1. done \in RequestRow /\ ReadHolds(done)
    BY BlankRow DEF ReadHolds
  <2> QED BY <1>1, <2>1, Reading DEF Done
<1>2. CASE EnsureClerkActionAllowed(r)
  <2> DEFINE row == [req[r] EXCEPT !.pc = IF req[r].op = "rejectAssignment"
                                          THEN "find" ELSE "write"]
  <2>1. row \in RequestRow /\ ReadHolds(row)
    BY <1>0 DEF RequestRow, ReadHolds
  <2>2. \/ req' = [req EXCEPT ![r] = row]
        \/ Done(r)
    BY <1>2 DEF EnsureClerkActionAllowed
  <2>3. UNCHANGED <<flow, status, approval, dispatched, money, assignments, history>>
    BY <1>2 DEF EnsureClerkActionAllowed
  <2> QED BY <1>1, <2>1, <2>2, <2>3, Reading
<1>3. CASE FindActive(r)
  <2> DEFINE row == [req[r] EXCEPT !.found = latest({"ACTIVE"}), !.pc = "write"]
  <2>1. latest({"ACTIVE"}) \in Nat
    BY <1>0, LatestType, LenProperties
  <2>2. row \in RequestRow /\ ReadHolds(row)
    BY <1>0, <2>1 DEF RequestRow, ReadHolds
  <2>3. \/ req' = [req EXCEPT ![r] = row]
        \/ Done(r)
    BY <1>0, <1>3 DEF FindActive, RequestRow, WInv, TypeOK
  <2>4. UNCHANGED <<flow, status, approval, dispatched, money, assignments, history>>
    BY <1>3 DEF FindActive
  <2> QED BY <1>1, <2>2, <2>3, <2>4, Reading
<1> QED BY <1>2, <1>3

\* A finished request leaves no row in hand, as one that goes on to the settlement.
LEMMA DoneRow ==
    ASSUME NEW r \in Request, Done(r) \/ ThenSettle(r)
    PROVE  \E row \in RequestRow : row.op = "none" /\ req' = [req EXCEPT ![r] = row]
  BY BlankRow DEF Done, ThenSettle

\* A finished step whose assignments are left alone.
LEMMA Writing ==
    ASSUME WInv, NEW r \in Request, Done(r) \/ ThenSettle(r),
           flow' = flow, dispatched' \in BOOLEAN, dispatched => dispatched',
           Columns', status' \in Status, history' \in Seq(Status \X Status), Chained',
           assignments' = assignments
    PROVE  WInv'
<1>1. PICK row \in RequestRow : row.op = "none" /\ req' = [req EXCEPT ![r] = row]
  BY DoneRow
<1>2. assignments' \in Seq(AssignmentRow) /\ OneActiveAssignment'
  BY DEF WInv, TypeOK, OneActiveAssignment
<1> QED BY <1>1, <1>2, Finishing

\* The conditional status changes: updateStatus, overrideStatus, sendBackToClerk and
\* the representative's receipt and charges.
LEMMA StatusWritesInv ==
    ASSUME WInv, NEW r \in Request,
           ChangeStatus(r) \/ SendBackWrite(r) \/ ReceiptWrite(r) \/ CostsWrite(r)
    PROVE  WInv'
<1>0. /\ TypeOK /\ Chained /\ dispatched \in BOOLEAN
      /\ req[r].seen \in Status /\ req[r].next \in Status /\ req[r].charge \in Charge
  BY DEF WInv, TypeOK, RequestRow
<1>1. CASE ChangeStatus(r)
  <2>1. status' \in Status /\ history' \in Seq(Status \X Status) /\ Chained'
    BY <1>0, <1>1, FlipChained DEF ChangeStatus
  <2>2. Columns'
    BY <1>0, <1>1 DEF ChangeStatus, Columns, TypeOK, money
  <2> QED BY <1>0, <1>1, <2>1, <2>2, Writing DEF ChangeStatus
<1>2. CASE SendBackWrite(r)
  <2>1. status' \in Status /\ history' \in Seq(Status \X Status) /\ Chained'
    <3>1. "WAITING_APPROVAL" \in Status /\ "IN_PROGRESS" \in Status
      BY DEF Status
    <3> QED BY <1>0, <1>2, <3>1, FlipChained DEF SendBackWrite
  <2>2. Columns'
    BY <1>0, <1>2 DEF SendBackWrite, Columns, TypeOK, money
  <2> QED BY <1>0, <1>2, <2>1, <2>2, Writing DEF SendBackWrite
<1>3. CASE ReceiptWrite(r)
  <2>1. status' \in Status /\ history' \in Seq(Status \X Status) /\ Chained'
    <3>1. "WAITING_APPROVAL" \in Status /\ "IN_PROGRESS" \in Status
      BY DEF Status
    <3> QED BY <1>0, <1>3, <3>1, FlipChained DEF ReceiptWrite
  <2>2. Columns'
    BY <1>0, <1>3 DEF ReceiptWrite, Columns, TypeOK, money
  <2> QED BY <1>0, <1>3, <2>1, <2>2, Writing DEF ReceiptWrite
<1>4. CASE CostsWrite(r)
  <2>1. status' \in Status /\ history' \in Seq(Status \X Status) /\ Chained'
    <3>1. "WAITING_APPROVAL" \in Status
      BY DEF Status
    <3>2. costsApply(r) \in BOOLEAN /\ (costsApply(r) => status = req[r].seen)
      BY <1>0 DEF costsApply, TypeOK
    <3>3. Flip(costsApply(r), req[r].seen, "WAITING_APPROVAL")
      BY <1>4 DEF CostsWrite
    <3> QED BY <1>0, <3>1, <3>2, <3>3, FlipChained
  <2>2. Columns'
    BY <1>0, <1>4 DEF CostsWrite, Columns, TypeOK
  <2> QED BY <1>0, <1>4, <2>1, <2>2, Writing DEF CostsWrite
<1> QED BY <1>1, <1>2, <1>3, <1>4

\* Assigning supersedes every active assignment before it adds its own.
LEMMA AssignWriteInv ==
    ASSUME WInv, NEW r \in Request, AssignWrite(r)
    PROVE  WInv'
<1>0. /\ TypeOK /\ Chained /\ dispatched \in BOOLEAN
      /\ req[r].seen \in Status /\ "ASSIGNED" \in Status
      /\ req[r].price \in Price /\ req[r].charge \in Charge
  BY DEF WInv, TypeOK, RequestRow, Status
<1>1. status' \in Status /\ history' \in Seq(Status \X Status) /\ Chained'
  BY <1>0, FlipChained DEF AssignWrite
<1>2. Columns'
  BY <1>0 DEF AssignWrite, Columns, TypeOK, Bill
<1>3. PICK row \in RequestRow : row.op = "none" /\ req' = [req EXCEPT ![r] = row]
  BY DoneRow DEF AssignWrite
<1>4. CASE status # req[r].seen
  BY <1>0, <1>1, <1>2, <1>4, Writing DEF AssignWrite
<1>5. CASE status = req[r].seen
  <2> DEFINE n == Len(assignments)
             old == [i \in 1..n |->
                       IF assignments[i].status = "ACTIVE"
                       THEN [assignments[i] EXCEPT !.status = "SUPERSEDED"]
                       ELSE assignments[i]]
             new == [rep |-> req[r].actor, status |-> "ACTIVE"]
  <2>1. n \in Nat /\ \A i \in 1..n : assignments[i] \in AssignmentRow
    BY <1>0, LenProperties DEF TypeOK
  <2>2. \A i \in 1..n : old[i] \in AssignmentRow /\ old[i].status # "ACTIVE"
    BY <2>1 DEF AssignmentRow
  <2>3. old \in Seq(AssignmentRow) /\ Len(old) = n
    <3> HIDE DEF AssignmentRow
    <3> QED BY <2>1, <2>2
  <2>4. new \in AssignmentRow
    BY DEF WInv, ReadsHold, ReadHolds, AssignWrite, AtWrite, AssignmentRow
  <2>5. assignments' = Append(old, new)
    BY <1>5 DEF AssignWrite
  <2> HIDE DEF old, new
  <2>6. /\ assignments' \in Seq(AssignmentRow)
        /\ Len(assignments') = n + 1
        /\ \A i \in 1..n : assignments'[i] = old[i]
    BY <2>3, <2>4, <2>5, AppendProperties
  <2>7. \A i \in 1..Len(assignments') : assignments'[i].status = "ACTIVE" => i = n + 1
    BY <2>1, <2>2, <2>6
  <2>8. OneActiveAssignment'
    BY <2>7 DEF OneActiveAssignment
  <2> QED BY <1>0, <1>1, <1>2, <1>3, <2>6, <2>8, Finishing DEF AssignWrite
<1> QED BY <1>4, <1>5

\* Accepting and rejecting take an assignment out of ACTIVE, and put none into it.
LEMMA AnswerWritesInv ==
    ASSUME WInv, NEW r \in Request, AcceptWrite(r) \/ RejectWrite(r)
    PROVE  WInv'
<1>0. /\ TypeOK /\ Chained /\ dispatched \in BOOLEAN
      /\ "ASSIGNED" \in Status /\ "IN_PROGRESS" \in Status /\ "PAID" \in Status
  BY DEF WInv, TypeOK, Status
<1>1. status' \in Status /\ history' \in Seq(Status \X Status) /\ Chained'
  BY <1>0, FlipChained DEF AcceptWrite, RejectWrite
<1>2. Columns' /\ flow' = flow /\ dispatched' = dispatched /\ Done(r)
  BY <1>0 DEF AcceptWrite, RejectWrite, Columns, TypeOK, money
<1>3. PICK row \in RequestRow : row.op = "none" /\ req' = [req EXCEPT ![r] = row]
  BY <1>2, DoneRow
<1>4. CASE assignments' = assignments
  BY <1>0, <1>1, <1>2, <1>4, Writing
<1>5. ASSUME NEW answer \in {"ACCEPTED", "REJECTED"}, NEW i \in Nat,
             assignments' = [assignments EXCEPT ![i].status = answer]
      PROVE  WInv'
  <2>1. Len(assignments) \in Nat /\ DOMAIN assignments = 1..Len(assignments)
    BY <1>0, LenProperties DEF TypeOK
  <2>2. CASE i \notin 1..Len(assignments)
    <3>1. assignments' = assignments
      BY <1>5, <2>1, <2>2, <1>0 DEF TypeOK
    <3> QED BY <3>1, <1>4
  <2>3. CASE i \in 1..Len(assignments)
    <3> DEFINE row1 == [assignments[i] EXCEPT !.status = answer]
    <3>1. row1 \in AssignmentRow /\ row1.status # "ACTIVE"
      <4>1. assignments[i] \in AssignmentRow
        BY <1>0, <2>3, ElementOfSeq DEF TypeOK
      <4> QED BY <4>1 DEF AssignmentRow
    <3>2. assignments' = [assignments EXCEPT ![i] = row1]
      BY <1>5
    <3> HIDE DEF row1
    <3>3. /\ assignments' \in Seq(AssignmentRow)
          /\ Len(assignments') = Len(assignments)
          /\ \A j \in 1..Len(assignments) :
               assignments'[j] = IF j = i THEN row1 ELSE assignments[j]
      BY <1>0, <2>3, <3>1, <3>2, ExceptSeq DEF TypeOK
    <3>4. OneActiveAssignment'
      BY <3>1, <3>3 DEF WInv, OneActiveAssignment
    <3> QED BY <1>0, <1>1, <1>2, <1>3, <3>3, <3>4, Finishing
  <2> QED BY <2>2, <2>3
<1>6. req[r].found \in Nat
  BY <1>0 DEF TypeOK, RequestRow
<1>7. CASE AcceptWrite(r)
  BY <1>4, <1>5, <1>6, <1>7 DEF AcceptWrite
<1>8. CASE RejectWrite(r)
  BY <1>4, <1>5, <1>6, <1>8 DEF RejectWrite
<1> QED BY <1>7, <1>8

\* A step that keeps the status and the history.
LEMMA StatusKept ==
    ASSUME WInv, status' = status, history' = history
    PROVE  status' \in Status /\ history' \in Seq(Status \X Status) /\ Chained'
  BY DEF WInv, TypeOK, Chained, HistoryChain, Continues

\* The writes that leave the status alone: drafts of charges, the dispatch of a parcel,
\* a reprice and a finalized remainder.
LEMMA ColumnWritesInv ==
    ASSUME WInv, NEW r \in Request,
           \/ SaveChargesWrite(r)
           \/ DispatchWrite(r)
           \/ RepriceWrite(r)
           \/ \E c \in Charge : FinalizeRemainder(r, c)
    PROVE  WInv'
<1>0. /\ TypeOK /\ dispatched \in BOOLEAN /\ status \in Status
      /\ req[r].price \in Price /\ req[r].charge \in Charge
  BY DEF WInv, TypeOK, RequestRow
<1>1. status' = status /\ history' = history /\ flow' = flow /\ assignments' = assignments
  BY DEF SaveChargesWrite, DispatchWrite, RepriceWrite, FinalizeRemainder
<1>2. status' \in Status /\ history' \in Seq(Status \X Status) /\ Chained'
  BY <1>1, StatusKept
<1>3. Done(r) \/ ThenSettle(r)
  BY DEF SaveChargesWrite, DispatchWrite, RepriceWrite, FinalizeRemainder
<1>4. dispatched' \in BOOLEAN /\ (dispatched => dispatched')
  BY <1>0 DEF SaveChargesWrite, DispatchWrite, RepriceWrite, FinalizeRemainder
<1>5. Columns'
  <2>1. CASE SaveChargesWrite(r)
    BY <1>0, <2>1 DEF SaveChargesWrite, Columns, TypeOK
  <2>2. CASE DispatchWrite(r)
    BY <1>0, <2>2 DEF DispatchWrite, Columns, TypeOK, money
  <2>3. CASE RepriceWrite(r)
    BY <1>0, <2>3 DEF RepriceWrite, Columns, TypeOK, Bill
  <2>4. ASSUME NEW c \in Charge, FinalizeRemainder(r, c) PROVE Columns'
    BY <1>0, <2>4 DEF FinalizeRemainder, Finalizing, Columns, TypeOK, Bill
  <2> QED BY <2>1, <2>2, <2>3, <2>4
<1> QED BY <1>1, <1>2, <1>3, <1>4, <1>5, Writing

\* A review completes the ticket and may deliver it in the same transaction: one row or
\* two, each starting where the one before it ended.
LEMMA ReviewInv ==
    ASSUME WInv, NEW r \in Request, NEW c \in Charge, ReviewAndComplete(r, c)
    PROVE  WInv'
<1>0. TypeOK /\ dispatched \in BOOLEAN /\ history \in Seq(Status \X Status)
  BY DEF WInv, TypeOK
<1>1. /\ "WAITING_APPROVAL" \in Status /\ "COMPLETED" \in Status /\ "DELIVERED" \in Status
      /\ ChainTo(history, "WAITING_APPROVAL")
  BY DEF ReviewAndComplete, WInv, Chained, HistoryChain, ChainTo, Status
<1>2. Columns'
  <2>1. approval' \in {"NONE", "SUBMITTED", "VERIFIED", "REJECTED"}
    BY <1>0 DEF ReviewAndComplete, TypeOK
  <2>2. CASE flow.caps /\ ~finalized
    <3>1. Finalizing(c)
      BY <2>2 DEF ReviewAndComplete
    <3> QED BY <1>0, <2>1, <3>1 DEF Finalizing, Columns, TypeOK, Bill
  <2>3. CASE ~(flow.caps /\ ~finalized)
    <3>1. UNCHANGED money
      BY <2>3 DEF ReviewAndComplete
    <3> QED BY <1>0, <2>1, <3>1 DEF money, Columns, TypeOK
  <2> QED BY <2>2, <2>3
<1> DEFINE one == Append(history, <<"WAITING_APPROVAL", "COMPLETED">>)
           two == Append(one, <<"COMPLETED", "DELIVERED">>)
<1>3. one \in Seq(Status \X Status) /\ ChainTo(one, "COMPLETED")
  BY <1>0, <1>1, AppendChained
<1>4. two \in Seq(Status \X Status) /\ ChainTo(two, "DELIVERED")
  <2> HIDE DEF one
  <2> QED BY <1>1, <1>3, AppendChained
<1>5. two = history \o <<<<"WAITING_APPROVAL", "COMPLETED">>, <<"COMPLETED", "DELIVERED">>>>
  BY <1>0, <1>1
<1>6. \/ status' = "COMPLETED" /\ history' = one
      \/ status' = "DELIVERED" /\ history' = two
  BY <1>5 DEF ReviewAndComplete
<1> HIDE DEF one, two
<1>7. history' \in Seq(Status \X Status) /\ ChainTo(history', status')
  BY <1>3, <1>4, <1>6
<1>8. status' \in Status /\ Chained'
  BY <1>1, <1>6, <1>7 DEF Chained, HistoryChain, ChainTo, Continues
<1> QED BY <1>0, <1>2, <1>7, <1>8, Writing DEF ReviewAndComplete

\* A payment may make an UNPAID ticket PAID; the history allows for that one gap.
LEMMA PaysInv ==
    ASSUME WInv, NEW r \in Request, NEW level \in 0..2, Payment(r, level) \/ Settle(r, level)
    PROVE  WInv'
<1>0. TypeOK /\ dispatched \in BOOLEAN /\ Pays(level) /\ Done(r)
  BY DEF WInv, TypeOK, Payment, Settle
<1>1. \/ status' = status
      \/ status = "UNPAID" /\ status' = "PAID"
  BY <1>0 DEF Pays
<1>2. status' \in Status
  BY <1>0, <1>1 DEF TypeOK, Status
<1>3. history' = history
  BY <1>0 DEF Pays
<1>4. history' \in Seq(Status \X Status) /\ Chained'
  BY <1>0, <1>1, <1>3 DEF WInv, TypeOK, Chained, HistoryChain, Continues
<1>5. Columns'
  BY <1>0 DEF Pays, TypeOK, Columns
<1> QED BY <1>0, <1>2, <1>4, <1>5, Writing DEF Pays

\* Every step keeps the inductive invariant.
LEMMA WorkflowNext == WInv /\ [Next]_vars => WInv'
<1> SUFFICES ASSUME WInv, [Next]_vars PROVE WInv'
  OBVIOUS
<1>1. CASE UNCHANGED vars
  BY <1>1 DEF vars, money, WInv, TypeOK, Chained, HistoryChain, Continues,
              OneActiveAssignment, ReadsHold, ReadHolds
<1>2. ASSUME NEW r \in Request, Step(r) PROVE WInv'
  <2>1. ASSUME NEW level \in 1..2, Payment(r, level) PROVE WInv'
    BY <2>1, PaysInv
  <2> QED
    BY <1>2, <2>1, StaffReadsInv, ClerkReadsInv, AssignmentReadsInv, StatusWritesInv,
       AssignWriteInv, AnswerWritesInv, ColumnWritesInv, ReviewInv, PaysInv, Zenon
    DEF Step
<1> QED BY <1>1, <1>2 DEF Next

-----------------------------------------------------------------------------
\* The theorems.

\* The inductive invariant holds in every reachable state.
THEOREM WorkflowInvariant == Spec => []WInv
  BY WorkflowInit, WorkflowNext, PTL DEF Spec

\* Every column of the ticket and every local of a request keeps its type, for any
\* representatives and any number of concurrent requests.
THEOREM WorkflowTypeCorrect == Spec => []TypeOK
<1>1. WInv => TypeOK
  BY DEF WInv
<1> QED BY <1>1, WorkflowInvariant, PTL

\* However the requests interleave, the history is the ticket's story without a gap: the
\* conditional update of TicketsService writes a row only for the flip it made.
THEOREM HistoryHasNoGap == Spec => []HistoryChain
<1>1. WInv => HistoryChain
  BY DEF WInv, Chained
<1> QED BY <1>1, WorkflowInvariant, PTL

\* At most one representative is asked to accept a ticket, whatever number of
\* assignments, acceptances and rejections race for it.
THEOREM OneRepresentativeAsked == Spec => []OneActiveAssignment
<1>1. WInv => OneActiveAssignment
  BY DEF WInv
<1> QED BY <1>1, WorkflowInvariant, PTL

-----------------------------------------------------------------------------
\* What a step may do.

Moves == OnlyOverridesSkip /\ DispatchedBeforeDelivered

\* A step that keeps the status makes no move.
LEMMA NoMove ==
    ASSUME status' = status
    PROVE  Moves
  BY DEF Moves, OnlyOverridesSkip, DispatchedBeforeDelivered

\* A listed transition to anything but DELIVERED.
LEMMA ListedMove ==
    ASSUME NEW from \in Status, NEW to \in Status, to # "DELIVERED",
           to \in STATUS_TRANSITIONS[from]
           \/ (from = "UNPAID" /\ to = "ASSIGNED")
           \/ (from = "ASSIGNED" /\ to = "PAID"),
           NEW ok \in BOOLEAN, ok => status = from, Flip(ok, from, to)
    PROVE  Moves
<1>1. CASE ok
  BY <1>1 DEF Flip, Moves, OnlyOverridesSkip, DispatchedBeforeDelivered
<1>2. CASE ~ok
  BY <1>2, NoMove DEF Flip
<1> QED BY <1>1, <1>2

\* What a request does before its transaction leaves the status alone.
LEMMA QuietSteps ==
    ASSUME NEW r \in Request, Step(r)
    PROVE  \/ status' = status
           \/ ChangeStatus(r) \/ SendBackWrite(r) \/ AssignWrite(r) \/ AcceptWrite(r)
           \/ RejectWrite(r) \/ ReceiptWrite(r) \/ CostsWrite(r)
           \/ \E c \in Charge : ReviewAndComplete(r, c)
           \/ \E level \in 0..2 : Pays(level)
<1>1. ASSUME NEW level \in 1..2, Payment(r, level) PROVE \E l \in 0..2 : Pays(l)
  BY <1>1 DEF Payment
<1>2. ASSUME NEW level \in 0..2, Settle(r, level) PROVE \E l \in 0..2 : Pays(l)
  BY <1>2 DEF Settle
<1> HIDE DEF Pays, ReviewAndComplete, ChangeStatus, SendBackWrite, AssignWrite, AcceptWrite,
             RejectWrite, ReceiptWrite, CostsWrite
<1> QED
  BY <1>1, <1>2, Zenon
  DEF Step, Arrives, UpdateStatus, OverrideStatus, SendBackToClerk, Assign, AcceptAssignment,
      RejectAssignment, EnsureClerkActionAllowed, FindActive, SubmitClerkReceipt,
      SubmitClerkCosts, SaveClerkCharges, SaveChargesWrite, DispatchDelivery, DispatchWrite,
      FinalizeRemainder, RepriceTicket, RepriceWrite

\* A status change by staff: what was validated against the status it read is written
\* only while the ticket still has that status.
LEMMA ChangeStatusMoves ==
    ASSUME WInv, NEW r \in Request, ChangeStatus(r)
    PROVE  Moves
<1>0. req[r].seen \in Status /\ req[r].next \in Status /\ req \in [Request -> RequestRow]
  BY DEF WInv, TypeOK, RequestRow
<1>1. CASE status # req[r].seen
  BY <1>1, NoMove DEF ChangeStatus, Flip
<1>2. CASE status = req[r].seen
  <2>1. status' = req[r].next
    BY <1>2 DEF ChangeStatus, Flip
  <2>2. ReadHolds(req[r])
    BY DEF WInv, ReadsHold
  <2>3. CASE req[r].op = "updateStatus"
    BY <1>2, <2>1, <2>2, <2>3
    DEF ReadHolds, Moves, OnlyOverridesSkip, DispatchedBeforeDelivered
  <2>4. CASE req[r].op = "overrideStatus"
    <3>1. req'[r] # req[r]
      <4>1. req'[r].op = "none"
        BY <1>0, BlankRow DEF ChangeStatus, Done
      <4> QED BY <2>4, <4>1
    <3> QED BY <2>1, <2>2, <2>4, <3>1
        DEF ReadHolds, Moves, OnlyOverridesSkip, DispatchedBeforeDelivered, Overrides
  <2> QED BY <2>3, <2>4 DEF ChangeStatus, AtWrite
<1> QED BY <1>1, <1>2

\* Every step moves the ticket as the workflow allows.
LEMMA MovesStep ==
    ASSUME WInv, NEW r \in Request, Step(r)
    PROVE  Moves
<1>0. /\ status \in Status /\ flow.physical \in BOOLEAN /\ dispatched \in BOOLEAN
      /\ finalized \in BOOLEAN /\ req[r].seen \in Status /\ ReadHolds(req[r])
  BY WorkflowAssumption DEF WInv, TypeOK, RequestRow, ReadsHold
<1>00. /\ "WAITING_APPROVAL" \in Status /\ "COMPLETED" \in Status /\ "IN_PROGRESS" \in Status
       /\ "ASSIGNED" \in Status /\ "PAID" \in Status /\ "UNPAID" \in Status
  BY DEF Status
<1>1. CASE status' = status
  BY <1>1, NoMove
<1>2. CASE ChangeStatus(r)
  BY <1>2, ChangeStatusMoves
<1>3. CASE SendBackWrite(r)
  <2>1. "IN_PROGRESS" \in STATUS_TRANSITIONS["WAITING_APPROVAL"]
    BY <1>00, Transitions
  <2> QED BY <1>3, <1>00, <2>1, ListedMove DEF SendBackWrite
<1>4. CASE AssignWrite(r)
  <2>1. req[r].seen \in {"UNPAID", "PAID"}
    BY <1>0, <1>4 DEF AssignWrite, AtWrite, ReadHolds
  <2>2. "ASSIGNED" \in STATUS_TRANSITIONS["PAID"]
    BY <1>00, Transitions
  <2> QED BY <1>4, <1>00, <2>1, <2>2, ListedMove DEF AssignWrite
<1>5. CASE AcceptWrite(r)
  <2>1. "IN_PROGRESS" \in STATUS_TRANSITIONS["ASSIGNED"]
    BY <1>00, Transitions
  <2> QED BY <1>5, <1>00, <2>1, ListedMove DEF AcceptWrite
<1>6. CASE RejectWrite(r)
  BY <1>6, <1>00, ListedMove DEF RejectWrite
<1>7. CASE ReceiptWrite(r)
  <2>1. "WAITING_APPROVAL" \in STATUS_TRANSITIONS["IN_PROGRESS"]
    BY <1>00, Transitions
  <2> QED BY <1>7, <1>00, <2>1, ListedMove DEF ReceiptWrite
<1>8. CASE CostsWrite(r)
  <2>1. req[r].seen \in {"IN_PROGRESS", "WAITING_APPROVAL"}
    BY <1>0, <1>8 DEF CostsWrite, AtWrite, ReadHolds
  <2>2. "WAITING_APPROVAL" \in STATUS_TRANSITIONS["IN_PROGRESS"]
    BY <1>00, Transitions
  <2>3. costsApply(r) \in BOOLEAN /\ (costsApply(r) => status = req[r].seen)
    BY <1>0 DEF costsApply
  <2>4. Flip(costsApply(r), req[r].seen, "WAITING_APPROVAL")
    BY <1>8 DEF CostsWrite
  <2>5. CASE req[r].seen = "IN_PROGRESS"
    BY <1>00, <2>2, <2>3, <2>4, <2>5, ListedMove
  <2>6. CASE req[r].seen = "WAITING_APPROVAL"
    BY <2>3, <2>4, <2>6, NoMove DEF Flip
  <2> QED BY <2>1, <2>5, <2>6
<1>9. ASSUME NEW c \in Charge, ReviewAndComplete(r, c) PROVE Moves
  <2>1. "COMPLETED" \in STATUS_TRANSITIONS["WAITING_APPROVAL"]
    BY <1>00, Transitions
  <2>2. /\ status = "WAITING_APPROVAL"
        /\ \/ status' = "COMPLETED"
           \/ status' = "DELIVERED" /\ ~flow.physical
    BY <1>9 DEF ReviewAndComplete
  <2> QED BY <1>0, <2>1, <2>2 DEF Moves, OnlyOverridesSkip, DispatchedBeforeDelivered
<1>10. ASSUME NEW level \in 0..2, Pays(level) PROVE Moves
  <2>1. "PAID" \in STATUS_TRANSITIONS["UNPAID"]
    BY <1>00, Transitions
  <2>2. \/ status' = status
        \/ status = "UNPAID" /\ status' = "PAID"
    BY <1>10 DEF Pays
  <2> QED BY <2>1, <2>2 DEF Moves, OnlyOverridesSkip, DispatchedBeforeDelivered
<1> QED BY <1>1, <1>2, <1>3, <1>4, <1>5, <1>6, <1>7, <1>8, <1>9, <1>10, QuietSteps, Zenon

\* Whatever the requests had read, every move of a ticket is one the workflow allows at
\* that moment: only overrides leave STATUS_TRANSITIONS, and a physical ticket is delivered
\* dispatched unless a super-admin bypassed the gates.
THEOREM EveryMoveIsAllowed == Spec => MovesAreAllowed
<1>1. WInv /\ [Next]_vars => [OnlyOverridesSkip /\ DispatchedBeforeDelivered]_vars
  BY MovesStep DEF Next, Moves
<1> QED BY <1>1, WorkflowInvariant, PTL DEF Spec, MovesAreAllowed

\* A step keeps the total of a finalized remainder, or is one of the two exceptions.
BillKept ==
    finalized /\ Reconciles =>
       \/ Reconciles'
       \/ \E r \in Request : /\ req[r].op \in {"saveClerkCharges", "assign"}
                             /\ req'[r] # req[r]

\* A step that leaves price, charges and total alone.
LEMMA BillUnchanged ==
    ASSUME UNCHANGED <<price, charge, bill>>
    PROVE  BillKept
  BY DEF BillKept, Reconciles

\* A finalization and a reprice write the total together with what it is computed from,
\* and the charges of a submission are written only before the remainder is final.
LEMMA BillStep ==
    ASSUME WInv, NEW r \in Request, Step(r)
    PROVE  BillKept
<1>0. req \in [Request -> RequestRow] /\ finalized \in BOOLEAN
  BY DEF WInv, TypeOK
<1>1. ASSUME Done(r), req[r].op \in {"saveClerkCharges", "assign"} PROVE BillKept
  <2>1. req'[r].op = "none"
    BY <1>0, <1>1, BlankRow DEF Done
  <2> QED BY <1>1, <2>1 DEF BillKept
<1>2. CASE AssignWrite(r) \/ SaveChargesWrite(r)
  BY <1>1, <1>2 DEF AssignWrite, SaveChargesWrite, AtWrite
<1>3. CASE CostsWrite(r)
  <2>1. CASE finalized
    BY <1>3, <2>1, BillUnchanged DEF CostsWrite, costsApply
  <2>2. CASE ~finalized
    BY <2>2 DEF BillKept
  <2> QED BY <2>1, <2>2
<1>4. ASSUME NEW c \in Charge, Finalizing(c) PROVE BillKept
  BY <1>4 DEF Finalizing, BillKept, Reconciles
<1>5. ASSUME NEW c \in Charge, FinalizeRemainder(r, c) PROVE BillKept
  BY <1>4, <1>5 DEF FinalizeRemainder
<1>6. ASSUME NEW c \in Charge, ReviewAndComplete(r, c) PROVE BillKept
  <2>1. Finalizing(c) \/ UNCHANGED money
    BY <1>6 DEF ReviewAndComplete
  <2> QED BY <1>4, <2>1, BillUnchanged DEF money
<1>7. CASE RepriceWrite(r)
  BY <1>7 DEF RepriceWrite, BillKept, Reconciles
<1>8. CASE UNCHANGED <<price, charge, bill>>
  BY <1>8, BillUnchanged
<1>9. ASSUME NEW level, Payment(r, level) \/ Settle(r, level) PROVE UNCHANGED <<price, charge, bill>>
  BY <1>9 DEF Payment, Settle, Pays
<1>10. ASSUME ChangeStatus(r) \/ SendBackWrite(r) \/ AcceptWrite(r) \/ RejectWrite(r)
              \/ ReceiptWrite(r) \/ DispatchWrite(r) \/ EnsureClerkActionAllowed(r)
              \/ FindActive(r)
       PROVE  UNCHANGED <<price, charge, bill>>
  BY <1>10 DEF ChangeStatus, SendBackWrite, AcceptWrite, RejectWrite, ReceiptWrite,
               DispatchWrite, EnsureClerkActionAllowed, FindActive, money
<1>11. ASSUME NEW e, NEW pc, NEW q, Arrives(r, e, pc, q) PROVE UNCHANGED <<price, charge, bill>>
  BY <1>11 DEF Arrives, money
<1> QED
  BY <1>2, <1>3, <1>5, <1>6, <1>7, <1>8, <1>9, <1>10, <1>11, Zenon
  DEF Step, UpdateStatus, OverrideStatus, SendBackToClerk, Assign, AcceptAssignment,
      RejectAssignment, SubmitClerkReceipt, SubmitClerkCosts, SaveClerkCharges,
      DispatchDelivery, RepriceTicket

\* Once the remainder is final, no request that was validated before it parts the total
\* from the price and the charges, but a saved draft or an assignment after an override.
THEOREM FinalBillStays == Spec => FinalBillKept
<1>1. WInv /\ [Next]_vars => [BillKept]_vars
  BY BillStep DEF Next
<1> QED BY <1>1, WorkflowInvariant, PTL DEF Spec, FinalBillKept, BillKept

=============================================================================
