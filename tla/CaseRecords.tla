---------------------------- MODULE CaseRecords ----------------------------
(***************************************************************************)
(* One legal case of CasesService: its row, its event log, the tickets     *)
(* ordered under it, and what the completion of a ticket writes back       *)
(* (TicketsService.applyTicketCompletionToCase).  No operation locks the   *)
(* row: each reads it, writes it by id and then appends its event.         *)
(***************************************************************************)
EXTENDS Integers, Sequences, FiniteSets, FiniteSetsExt, SequencesExt

CONSTANTS
    CaseReq,        \* requests that overlap
    CaseField,      \* columns of the case that a ticket can report
    CaseValue,      \* what such a column holds, normalised
    CaseFlow,       \* the flows tickets are ordered under
    NullValue,      \* an empty column
    CaseScenes,     \* the sets of operations that are explored together
    CaseTicketLimit, CaseEventLimit

NoField == "none"
ASSUME CaseAssumption ==
    /\ NullValue \notin CaseValue
    /\ IsFiniteSet(CaseField) /\ NoField \notin CaseField
    /\ CaseTicketLimit \in Nat /\ CaseEventLimit \in Nat

VARIABLES caseRow, caseTicket, caseEvent, caseReq, caseOps

caseVars == <<caseRow, caseTicket, caseEvent, caseReq, caseOps>>

CaseStatus == {"OPEN", "CLOSED", "ARCHIVED"}
Column == CaseValue \cup {NullValue}
Columns == [CaseField -> Column]
CaseRow == [status : CaseStatus, closedAt : BOOLEAN, deleted : BOOLEAN, col : Columns]
CaseTicketRow == [flow : CaseFlow, status : {"OPEN", "COMPLETED", "DELIVERED"},
                  archived : BOOLEAN, col : Columns]

EventType == {"CASE_CREATED", "CASE_UPDATED", "CASE_CLOSED", "CASE_REOPENED",
              "TICKET_CREATED", "CONTEXT_DRIFT_DETECTED", "CONTEXT_RESOLVED",
              "RECOMMENDATION_TRIGGERED"}
CaseEventRow == [type : EventType, field : CaseField \cup {NoField},
                 caseValue : Column, ticketValue : Column]
PlainEvent(type) == [type |-> type, field |-> NoField, caseValue |-> NullValue,
                     ticketValue |-> NullValue]

\* set: the columns to write; fill: they come from a completed ticket; events: what is
\* still to be appended.
CaseReqRow == [pc : {"idle", "write", "event"}, fill : BOOLEAN, to : CaseStatus \cup {NoField},
               closedAt : BOOLEAN, delete : BOOLEAN, set : Columns,
               events : Seq(CaseEventRow)]
NoColumns == [f \in CaseField |-> NullValue]
IdleReq == [pc |-> "idle", fill |-> FALSE, to |-> NoField, closedAt |-> FALSE, delete |-> FALSE,
            set |-> NoColumns, events |-> <<>>]

\* The row and CASE_CREATED of createCase have been written.
CaseInit ==
    /\ caseRow = [status |-> "OPEN", closedAt |-> FALSE, deleted |-> FALSE,
                  col |-> NoColumns]
    /\ caseTicket = <<>>
    /\ caseEvent = <<PlainEvent("CASE_CREATED")>>
    /\ caseReq = [r \in CaseReq |-> IdleReq]
    /\ caseOps \in CaseScenes

CaseRead(r, op, visible, next) ==
    /\ op \in caseOps /\ UNCHANGED caseOps
    /\ caseReq[r] = IdleReq
    /\ visible
    /\ caseReq' = [caseReq EXCEPT ![r] = next]

-----------------------------------------------------------------------------
\* The requests read the row here ...

UpdateStatus(r) ==
    \E to \in CaseStatus :
        LET type == IF to # "OPEN" THEN "CASE_CLOSED"
                    ELSE IF caseRow.status # "OPEN" THEN "CASE_REOPENED" ELSE "CASE_UPDATED"
        IN  /\ caseRow.status # to
            /\ CaseRead(r, "UpdateStatus", ~caseRow.deleted,
                 [IdleReq EXCEPT !.pc = "write", !.to = to,
                    !.closedAt = IF to = "CLOSED" THEN TRUE
                                 ELSE IF to = "OPEN" THEN FALSE ELSE caseRow.closedAt,
                    !.events = <<PlainEvent(type)>>])
            /\ UNCHANGED <<caseRow, caseTicket, caseEvent>>

UpdateCase(r) ==
    \E f \in CaseField, v \in CaseValue :
        /\ CaseRead(r, "UpdateCase", ~caseRow.deleted,
             [IdleReq EXCEPT !.pc = "write", !.set[f] = v,
                             !.events = <<PlainEvent("CASE_UPDATED")>>])
        /\ UNCHANGED <<caseRow, caseTicket, caseEvent>>

DeleteCase(r) ==
    /\ CaseRead(r, "DeleteCase", ~caseRow.deleted, [IdleReq EXCEPT !.pc = "write", !.delete = TRUE])
    /\ UNCHANGED <<caseRow, caseTicket, caseEvent>>

\* createCaseTicket: the payload is the case's columns, with the caller's overrides.
Overrides == {NoColumns} \cup {[NoColumns EXCEPT ![f] = v] : f \in CaseField, v \in CaseValue}
CreateCaseTicket(r) ==
    \E flow \in CaseFlow, override \in Overrides :
        /\ Len(caseTicket) < CaseTicketLimit
        /\ CaseRead(r, "CreateCaseTicket", caseRow.status = "OPEN" /\ ~caseRow.deleted,
             [IdleReq EXCEPT !.pc = "event", !.events = <<PlainEvent("TICKET_CREATED")>>])
        /\ caseTicket' = Append(caseTicket,
             [flow |-> flow, status |-> "OPEN", archived |-> FALSE,
              col |-> [f \in CaseField |-> IF override[f] # NullValue THEN override[f]
                                           ELSE caseRow.col[f]]])
        /\ UNCHANGED <<caseRow, caseEvent>>

TrackRecommendationClick(r) ==
    /\ CaseRead(r, "TrackRecommendationClick", ~caseRow.deleted,
         [IdleReq EXCEPT !.pc = "event", !.events = <<PlainEvent("RECOMMENDATION_TRIGGERED")>>])
    /\ UNCHANGED <<caseRow, caseTicket, caseEvent>>

DriftEvents == {e \in ToSet(caseEvent) : e.type = "CONTEXT_DRIFT_DETECTED"}

Resolved(e) == [e EXCEPT !.type = "CONTEXT_RESOLVED"]

\* resolveDrift takes any drift event of the case, resolved before or not.
ResolveDrift(r) ==
    \E e \in DriftEvents, source \in {"CASE", "TICKET"} :
        /\ CaseRead(r, "ResolveDrift", ~caseRow.deleted,
             [IdleReq EXCEPT !.pc = IF source = "TICKET" THEN "write" ELSE "event",
                !.set[e.field] = IF source = "TICKET" THEN e.ticketValue ELSE NullValue,
                !.events = <<Resolved(e)>>])
        /\ UNCHANGED <<caseRow, caseTicket, caseEvent>>

\* A drift event for every reported column that differs, and the empty columns filled.
drifts(t) ==
    LET differ == {f \in CaseField : /\ t.col[f] # NullValue /\ caseRow.col[f] # NullValue
                                     /\ t.col[f] # caseRow.col[f]}
    IN  SetToSeq({[type |-> "CONTEXT_DRIFT_DETECTED", field |-> f,
                   caseValue |-> caseRow.col[f], ticketValue |-> t.col[f]] : f \in differ})
fills(t) == [f \in CaseField |-> IF caseRow.col[f] = NullValue THEN t.col[f] ELSE NullValue]

\* A ticket is completed; applyTicketCompletionToCase reads it and the case.
CompleteTicket(r) ==
    \E i \in DOMAIN caseTicket :
        LET t == caseTicket[i]
            pc == IF fills(t) # NoColumns THEN "write"
                  ELSE IF drifts(t) # <<>> THEN "event" ELSE "idle"
        IN  /\ t.status = "OPEN"
            /\ caseTicket' = [caseTicket EXCEPT ![i].status = "COMPLETED"]
            /\ CaseRead(r, "CompleteTicket", TRUE, [IdleReq EXCEPT !.pc = pc, !.fill = pc = "write",
                                                 !.set = fills(t), !.events = drifts(t)])
            /\ UNCHANGED <<caseRow, caseEvent>>

\* ... write the row by id here ...
WriteCase(r) ==
    LET q == caseReq[r] IN
    /\ q.pc = "write"
    /\ caseRow' = [caseRow EXCEPT
         !.status = IF q.to = NoField THEN @ ELSE q.to,
         !.closedAt = IF q.to = NoField THEN @ ELSE q.closedAt,
         !.deleted = @ \/ q.delete,
         !.col = [f \in CaseField |-> IF q.set[f] # NullValue THEN q.set[f] ELSE @[f]]]
    /\ caseReq' = [caseReq EXCEPT ![r] = IF q.events = <<>> THEN IdleReq
                                         ELSE [q EXCEPT !.pc = "event"]]
    /\ UNCHANGED <<caseOps, caseTicket, caseEvent>>

\* ... and append their events here, one at a time.
AppendCaseEvent(r) ==
    LET q == caseReq[r] IN
    /\ q.pc = "event"
    /\ Len(caseEvent) < CaseEventLimit
    /\ caseEvent' = Append(caseEvent, Head(q.events))
    /\ caseReq' = [caseReq EXCEPT ![r] = IF Len(q.events) = 1 THEN IdleReq
                                         ELSE [q EXCEPT !.events = Tail(q.events)]]
    /\ UNCHANGED <<caseOps, caseRow, caseTicket>>

CaseReqDies(r) ==
    /\ caseReq[r] # IdleReq
    /\ caseReq' = [caseReq EXCEPT ![r] = IdleReq]
    /\ UNCHANGED <<caseOps, caseRow, caseTicket, caseEvent>>

\* The ticket's own life goes on (TicketWorkflow).
TicketMoves ==
    \E i \in DOMAIN caseTicket :
        /\ \/ /\ caseTicket[i].status = "COMPLETED"
              /\ caseTicket' = [caseTicket EXCEPT ![i].status = "DELIVERED"]
           \/ /\ ~caseTicket[i].archived
              /\ caseTicket' = [caseTicket EXCEPT ![i].archived = TRUE]
        /\ "TicketMoves" \in caseOps
        /\ UNCHANGED <<caseRow, caseEvent, caseReq, caseOps>>

CaseNext ==
    \/ \E r \in CaseReq :
         \/ UpdateStatus(r) \/ UpdateCase(r) \/ DeleteCase(r) \/ CreateCaseTicket(r)
         \/ TrackRecommendationClick(r) \/ ResolveDrift(r) \/ CompleteTicket(r)
         \/ WriteCase(r) \/ AppendCaseEvent(r) \/ CaseReqDies(r)
    \/ TicketMoves

CaseSpec == CaseInit /\ [][CaseNext]_caseVars

-----------------------------------------------------------------------------
\* getUnresolvedDrifts: one pass over the log in the order of creation.

NoDrift == [f \in CaseField |-> NoField]
\* Mutant: a drift that is pending already is kept.
driftStep_First(pending, e) ==
    IF e.type = "CONTEXT_DRIFT_DETECTED" /\ pending[e.field] = NoField
      THEN [pending EXCEPT ![e.field] = e.ticketValue]
    ELSE IF e.type = "CONTEXT_RESOLVED" THEN [pending EXCEPT ![e.field] = NoField]
    ELSE pending

driftStep(pending, e) ==
    IF e.type = "CONTEXT_DRIFT_DETECTED" THEN [pending EXCEPT ![e.field] = e.ticketValue]
    ELSE IF e.type = "CONTEXT_RESOLVED" THEN [pending EXCEPT ![e.field] = NoField]
    ELSE pending
getUnresolvedDrifts == FoldLeft(driftStep, NoDrift, caseEvent)

\* RECOMMENDATIONS_BY_FLOW, its judicial rows: what may follow, and how strongly.
RECOMMENDATIONS_BY_FLOW(flow) ==
    CASE flow = "case_search"       -> <<<<"case_information", 1>>, <<"case_files", 2>>>>
      [] flow = "case_information"  -> <<<<"case_files", 1>>, <<"power_of_attorney", 3>>>>
      [] flow = "case_files"        -> <<<<"power_of_attorney", 2>>, <<"case_filing", 3>>>>
      [] flow = "power_of_attorney" -> <<<<"case_filing", 1>>>>
      [] OTHER -> <<>>

\* An archived ticket neither suggests nor blocks.
liveTickets == {i \in DOMAIN caseTicket : ~caseTicket[i].archived}
blockingFlows == {caseTicket[i].flow : i \in liveTickets}
triggerRules ==
    FlattenSeq([i \in DOMAIN caseTicket |->
        IF i \in liveTickets /\ caseTicket[i].status = "COMPLETED"
          THEN RECOMMENDATIONS_BY_FLOW(caseTicket[i].flow) ELSE <<>>])

better(rule, existing) == rule[2] < existing[2]

\* recommendationsForCase: a map from the next flow to the best rule met so far.
considered(best, rule) ==
    LET existing == {b \in best : b[1] = rule[1]} IN
    IF rule[1] \in blockingFlows THEN best
    ELSE IF existing = {} THEN best \cup {rule}
    ELSE IF \A b \in existing : better(rule, b) THEN (best \ existing) \cup {rule}
    ELSE best
recommendationsForCase == FoldLeft(considered, {}, triggerRules)

-----------------------------------------------------------------------------
\* Properties.

\* Type correctness of the case, its tickets, its log and the requests.
CaseTypeOK ==
    /\ caseRow \in CaseRow
    /\ caseTicket \in Seq(CaseTicketRow)
    /\ caseEvent \in Seq(CaseEventRow)
    /\ caseReq \in [CaseReq -> CaseReqRow]

\* An open case has no closing date and a closed one has one, however two changes of
\* status read and write across each other (updateStatus writes closedAt from the
\* requested status, and from the row it read only for ARCHIVED).
ClosedDateMatches ==
    /\ caseRow.status = "OPEN" => ~caseRow.closedAt
    /\ caseRow.status = "CLOSED" => caseRow.closedAt

\* The single pass of getUnresolvedDrifts lists a field exactly when its latest drift
\* has no later resolution, with the value reported last, although resolutions are
\* appended late, twice, or for drifts that were superseded.
UnresolvedIsLatest ==
    \A f \in CaseField :
        LET at == {i \in DOMAIN caseEvent : caseEvent[i].field = f}
        IN  getUnresolvedDrifts[f] =
              IF at # {} /\ caseEvent[Max(at)].type = "CONTEXT_DRIFT_DETECTED"
                THEN caseEvent[Max(at)].ticketValue ELSE NoField

\* The suggestions shown do not depend on the order the tickets were ordered in: each
\* is the strongest rule that leads to its flow (recommendationsForCase replaces a
\* candidate only by one of higher priority).
RecommendationsOrderFree ==
    LET rules == {x \in ToSet(triggerRules) : x[1] \notin blockingFlows}
    IN  recommendationsForCase = {x \in rules : \A y \in rules : y[1] = x[1] => x[2] <= y[2]}

\* The write-back of a completed ticket is "Fill-only": a column that holds a value is
\* left alone ("If both differ ... no overwrite").  The code does not keep it
\* (README, Disagreements).
FillOnly ==
    [][\A r \in CaseReq, f \in CaseField :
         (caseReq[r].fill /\ WriteCase(r)) => caseRow.col[f] \in {NullValue, caseRow'.col[f]}]_caseVars

\* A case tells what happened to it: its closing date, the drifts still open and the
\* suggestions follow from its history alone, not from which request came last.
CaseTellsItsStory ==
    CaseTypeOK /\ ClosedDateMatches /\ UnresolvedIsLatest /\ RecommendationsOrderFree
=============================================================================
