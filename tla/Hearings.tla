------------------------------ MODULE Hearings ------------------------------
(***************************************************************************)
(* Hearing dates: recordNextHearing of TicketsService, which a clerk calls *)
(* for an assigned ticket, and NextHearingReminderJob, which every morning *)
(* rings the bell of each clerk who owes one.  The job reads its list once *)
(* and notifies ticket by ticket; tickets move on meanwhile, a notification*)
(* can fail, and the process can die in the middle of the list.            *)
(***************************************************************************)
EXTENDS Integers, Sequences, FiniteSets, SequencesExt

CONSTANTS
    HearingTicket, HearingDate,
    Undeliverable,          \* tickets whose notification always fails
    HearingCrashLimit       \* how often the process dies

ASSUME HearingAssumption ==
    /\ IsFiniteSet(HearingTicket) /\ Undeliverable \subseteq HearingTicket
    /\ HearingDate \subseteq Nat \ {0} /\ HearingCrashLimit \in Nat

VARIABLES
    docket,         \* the tickets: status, hearing dates, assignment, pending case
    clerkCall,      \* recordNextHearing under way: ticket, date and outgoing date
    reminder,       \* the job: what is left of its list
    bell,           \* tickets whose clerk has an unread reminder
    hearingCrashes

hearingVars == <<docket, clerkCall, reminder, bell, hearingCrashes>>

DocketStatus == {"UNPAID", "ASSIGNED", "IN_PROGRESS", "WAITING_APPROVAL", "COMPLETED"}
RemindedStatus == {"ASSIGNED", "IN_PROGRESS", "WAITING_APPROVAL"}
DateOrNone == {0} \cup HearingDate
DocketRow == [status : DocketStatus, archived : BOOLEAN, pending : BOOLEAN, active : BOOLEAN,
              scheduledDate : DateOrNone, previousHearingDate : DateOrNone]
NoCall == [ticket |-> "none", date |-> 0, movedAwayFrom |-> 0]

HearingInit ==
    /\ docket \in [HearingTicket ->
         {d \in DocketRow : /\ d.status \in {"ASSIGNED", "UNPAID"} /\ ~d.archived
                            /\ d.active = (d.status = "ASSIGNED")
                            /\ d.scheduledDate = 0 /\ d.previousHearingDate = 0}]
    /\ clerkCall = NoCall
    /\ reminder = <<>>
    /\ bell = {}
    /\ hearingCrashes = 0

\* Mutant: the date that is there is left behind even if it is submitted again.
ReadHearing_Always ==
    \E t \in HearingTicket, date \in HearingDate :
        /\ clerkCall = NoCall
        /\ docket[t].active
        /\ clerkCall' = [ticket |-> t, date |-> date, movedAwayFrom |-> docket[t].scheduledDate]
        /\ UNCHANGED <<docket, reminder, bell, hearingCrashes>>

\* ensureClerkActionAllowed, then the read of the date that may be left behind.
ReadHearing ==
    \E t \in HearingTicket, date \in HearingDate :
        LET old == docket[t].scheduledDate IN
        /\ clerkCall = NoCall
        /\ docket[t].active
        /\ clerkCall' = [ticket |-> t, date |-> date,
                         movedAwayFrom |-> IF old # date THEN old ELSE 0]
        /\ UNCHANGED <<docket, reminder, bell, hearingCrashes>>

RecordNextHearing ==
    LET c == clerkCall IN
    /\ c # NoCall
    /\ docket' = [docket EXCEPT
         ![c.ticket].scheduledDate = c.date,
         ![c.ticket].previousHearingDate = IF c.movedAwayFrom # 0 THEN c.movedAwayFrom ELSE @]
    /\ clerkCall' = NoCall
    /\ UNCHANGED <<reminder, bell, hearingCrashes>>

owesDate(t) ==
    /\ ~docket[t].archived
    /\ docket[t].scheduledDate = 0
    /\ docket[t].status \in RemindedStatus
    /\ docket[t].active

\* remindMissingNextHearing: the list ...
ListMissing ==
    /\ reminder = <<>>
    /\ \E t \in HearingTicket : owesDate(t)
    /\ reminder' = SetToSeq({t \in HearingTicket : owesDate(t)})
    /\ UNCHANGED <<docket, clerkCall, bell, hearingCrashes>>

\* ... and its tickets one by one: a case that is not pending is skipped, a failure is
\* logged and the run goes on.
RemindNext ==
    LET t == Head(reminder) IN
    /\ reminder # <<>>
    /\ reminder' = Tail(reminder)
    /\ bell' = IF docket[t].pending /\ t \notin Undeliverable THEN bell \cup {t} ELSE bell
    /\ UNCHANGED <<docket, clerkCall, hearingCrashes>>

ReadBell(t) ==
    /\ t \in bell
    /\ bell' = bell \ {t}
    /\ UNCHANGED <<docket, clerkCall, reminder, hearingCrashes>>

\* The ticket moves through its workflow (TicketWorkflow).
docketSteps(d) ==
    {[d EXCEPT !.archived = TRUE]} \cup
    (CASE d.status = "UNPAID"           -> {[d EXCEPT !.status = "ASSIGNED", !.active = TRUE]}
       [] d.status = "ASSIGNED"         -> {[d EXCEPT !.status = "IN_PROGRESS"]}
       [] d.status = "IN_PROGRESS"      -> {[d EXCEPT !.status = "WAITING_APPROVAL"]}
       [] d.status = "WAITING_APPROVAL" -> {[d EXCEPT !.status = "COMPLETED", !.active = FALSE]}
       [] OTHER -> {})
DocketMoves(t) ==
    /\ \E d \in docketSteps(docket[t]) : d # docket[t] /\ docket' = [docket EXCEPT ![t] = d]
    /\ UNCHANGED <<clerkCall, reminder, bell, hearingCrashes>>

HearingProcessDies ==
    /\ hearingCrashes < HearingCrashLimit
    /\ reminder # <<>> \/ clerkCall # NoCall
    /\ hearingCrashes' = hearingCrashes + 1
    /\ reminder' = <<>> /\ clerkCall' = NoCall
    /\ UNCHANGED <<docket, bell>>

HearingNext ==
    \/ ReadHearing \/ RecordNextHearing \/ ListMissing \/ RemindNext \/ HearingProcessDies
    \/ \E t \in HearingTicket : ReadBell(t) \/ DocketMoves(t)

HearingSpec == HearingInit /\ [][HearingNext]_hearingVars

\* Cron starts the job every morning and the process carries it on.
HearingFairness == WF_hearingVars(ListMissing) /\ WF_hearingVars(RemindNext)

-----------------------------------------------------------------------------
\* Properties.

\* Type correctness of the docket, the calls and the job.
HearingTypeOK ==
    /\ docket \in [HearingTicket -> DocketRow]
    /\ clerkCall \in {NoCall} \cup [ticket : HearingTicket, date : HearingDate,
                                    movedAwayFrom : DateOrNone]
    /\ reminder \in Seq(HearingTicket)
    /\ bell \subseteq HearingTicket
    /\ hearingCrashes \in 0..HearingCrashLimit

\* A reschedule keeps the date it leaves ("the previous date got erased"), and a date
\* submitted again never replaces the previous one by itself.
PreviousHearingKept ==
    [][\A t \in HearingTicket :
         LET old == docket[t].scheduledDate
             new == docket'[t].scheduledDate
         IN  /\ (old # 0 /\ new # old) => docket'[t].previousHearingDate = old
             /\ new # 0 => new # docket'[t].previousHearingDate]_hearingVars

\* A clerk who owes the date of a pending case is reminded of it again and again until
\* the date is recorded or the ticket is no longer theirs, although other reminders of
\* the list fail, tickets move while the list is worked off and the process dies.
RemindedEventually ==
    \A t \in HearingTicket \ Undeliverable :
        (owesDate(t) /\ docket[t].pending) ~> (t \in bell \/ ~owesDate(t))

\* No hearing is forgotten: the date a reschedule leaves is kept, whatever the clerks, the
\* reminders and the crashes do meanwhile (tickets.service.ts:3967-4004).
HearingsAreKept == []HearingTypeOK /\ PreviousHearingKept
=============================================================================
