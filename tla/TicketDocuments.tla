-------------------------- MODULE TicketDocuments --------------------------
(***************************************************************************)
(* The documents of one ticket and the consumer's "New document" bell      *)
(* (uploadDocument, patchDocument, the release of the bell by the review,  *)
(* the gates of the list, of the download and of the ticket).  An upload   *)
(* reads the status of the ticket first and decides about the bell with    *)
(* that value at its end; the review commits first and counts visible      *)
(* documents later; whoever else completes a ticket rings for none of      *)
(* them.  Who may upload is left out: a member of the staff always may.    *)
(***************************************************************************)
EXTENDS Integers, FiniteSets

CONSTANTS
    Doc,                \* documents that may be uploaded
    ReviewLimit         \* reviews that have committed and not yet counted, at a time

ASSUME DocAssumption == ReviewLimit \in Nat

VARIABLES
    docTicket,          \* status and archivedAt; history: reopened, and by, what completed it last
    doc,                \* TicketDocument rows; history: excused, see ReadableIsAnnounced
    docUpload,          \* where the upload of each document is
    release,            \* reviews that are about to count and ring
    docBell             \* the documents that a bell in the consumer's list announces

docVars == <<docTicket, doc, docUpload, release, docBell>>

\* IN_PROGRESS stands for the statuses before it too.
DocStatus == {"IN_PROGRESS", "WAITING_APPROVAL", "COMPLETED", "DELIVERED"}
Done(status) == status \in {"COMPLETED", "DELIVERED"}
NoDoc == [stored |-> FALSE, visible |-> FALSE, excused |-> FALSE]

DocInit ==
    /\ docTicket = [status |-> "IN_PROGRESS", archived |-> FALSE, reopened |-> FALSE,
                    by |-> "nobody"]
    /\ doc = [d \in Doc |-> NoDoc]
    /\ docUpload = [d \in Doc |-> [pc |-> "none", visible |-> FALSE, status |-> "IN_PROGRESS"]]
    /\ release = 0
    /\ docBell = {}

-----------------------------------------------------------------------------
\* uploadDocument: the ticket is read; a deliverable is always visible, a work document as
\* the uploader says.
StartUpload(d) ==
    \E category \in {"WORK_DOCUMENT", "DELIVERABLE_PDF"}, visible \in BOOLEAN :
        /\ docUpload[d].pc = "none"
        /\ docUpload' = [docUpload EXCEPT ![d] = [pc |-> "create", status |-> docTicket.status,
                            visible |-> category = "DELIVERABLE_PDF" \/ visible]]
        /\ UNCHANGED <<docTicket, doc, release, docBell>>

\* The row; the ticket may have been completed since it was read.
CreateDoc(d) ==
    /\ docUpload[d].pc = "create"
    /\ doc' = [doc EXCEPT ![d] = [stored |-> TRUE, visible |-> docUpload[d].visible,
                 excused |-> Done(docTicket.status) /\ ~Done(docUpload[d].status)]]
    /\ docUpload' = [docUpload EXCEPT ![d].pc = "bell"]
    /\ UNCHANGED <<docTicket, release, docBell>>

\* Mutant: a visible document rings whatever the ticket's status was.
UploadBell_Early(d) ==
    /\ docUpload[d].pc = "bell"
    /\ docBell' = IF docUpload[d].visible THEN docBell \cup {d} ELSE docBell
    /\ docUpload' = [docUpload EXCEPT ![d].pc = "done"]
    /\ UNCHANGED <<docTicket, doc, release>>

\* The bell, as of the status that was read.
UploadBell(d) ==
    /\ docUpload[d].pc = "bell"
    /\ docBell' = IF docUpload[d].visible /\ Done(docUpload[d].status) THEN docBell \cup {d} ELSE docBell
    /\ docUpload' = [docUpload EXCEPT ![d].pc = "done"]
    /\ UNCHANGED <<docTicket, doc, release>>

\* Showing or hiding a document rings for nobody.
PatchDocument(d) ==
    /\ doc[d].stored
    /\ \E v \in BOOLEAN :
         doc' = [doc EXCEPT ![d] = [stored |-> TRUE, visible |-> v,
                   excused |-> doc[d].excused \/ (v /\ ~doc[d].visible)]]
    /\ UNCHANGED <<docTicket, docUpload, release, docBell>>

-----------------------------------------------------------------------------
\* The ticket.

Moved(s, by) ==
    [docTicket EXCEPT !.status = s,
                      !.reopened = @ \/ (Done(docTicket.status) /\ ~Done(s)),
                      !.by = IF Done(s) /\ ~Done(docTicket.status) THEN by ELSE @]

\* reviewAndComplete commits, then looks for documents that were held back.
CompleteReview ==
    /\ docTicket.status = "WAITING_APPROVAL" /\ release < ReviewLimit
    /\ \E s \in {"COMPLETED", "DELIVERED"} : docTicket' = Moved(s, "review")
    /\ release' = release + 1
    /\ UNCHANGED <<doc, docUpload, docBell>>

releaseHeldDocumentNotification ==
    LET counted == {d \in Doc : doc[d].stored /\ doc[d].visible} IN
    /\ release > 0
    /\ docBell' = docBell \cup counted
    /\ doc' = [d \in Doc |-> [doc[d] EXCEPT !.excused = @ /\ d \notin counted]]
    /\ release' = release - 1
    /\ UNCHANGED <<docTicket, docUpload>>

\* overrideStatus goes from any status to any other, and so wherever updateStatus, the
\* bulk completion, a submission or a send-back go; none of them looks at documents.
DocTicketMoves ==
    /\ \E s \in DocStatus : docTicket' = Moved(s, "other")
    /\ UNCHANGED <<doc, docUpload, release, docBell>>

\* bulkAction 'delete' archives and deletes the notifications of the ticket, which may fail;
\* 'restore' brings none of them back.
ArchiveDocTicket ==
    /\ docTicket' = [docTicket EXCEPT !.archived = TRUE]
    /\ \E swept \in {{}, docBell} :
         /\ docBell' = docBell \ swept
         /\ doc' = [d \in Doc |-> [doc[d] EXCEPT !.excused = @ \/ d \in swept]]
    /\ UNCHANGED <<docUpload, release>>

RestoreDocTicket ==
    /\ docTicket' = [docTicket EXCEPT !.archived = FALSE]
    /\ UNCHANGED <<doc, docUpload, release, docBell>>

DocNext ==
    \/ \E d \in Doc : StartUpload(d) \/ CreateDoc(d) \/ UploadBell(d) \/ PatchDocument(d)
    \/ CompleteReview \/ releaseHeldDocumentNotification \/ DocTicketMoves
    \/ ArchiveDocTicket \/ RestoreDocTicket

DocSpec == DocInit /\ [][DocNext]_docVars

\* A request that has committed is carried on.
DocFairness == WF_docVars(releaseHeldDocumentNotification)

-----------------------------------------------------------------------------
\* Three places decide what the consumer may see of a document.

\* DocumentsService.list, which does not look at archivedAt.
listed(d) == doc[d].stored /\ doc[d].visible /\ Done(docTicket.status)
\* resolveDocumentDownload refuses in turn.
downloadable(d) == ~(~doc[d].stored \/ ~doc[d].visible \/ ~Done(docTicket.status))
\* findOne with redactTicketForConsumer: no archived ticket, no document before the end.
onTicket(d) ==
    ~docTicket.archived /\ d \in IF Done(docTicket.status) THEN {e \in Doc : doc[e].stored /\ doc[e].visible}
                                                            ELSE {}

-----------------------------------------------------------------------------
\* Properties.

\* Type correctness of the ticket, its documents and the uploads.
DocTypeOK ==
    /\ docTicket \in [status : DocStatus, archived : BOOLEAN, reopened : BOOLEAN,
                      by : {"nobody", "review", "other"}]
    /\ doc \in [Doc -> [stored : BOOLEAN, visible : BOOLEAN, excused : BOOLEAN]]
    /\ docUpload \in [Doc -> [pc : {"none", "create", "bell", "done"}, visible : BOOLEAN,
                              status : DocStatus]]
    /\ release \in 0..ReviewLimit /\ docBell \subseteq Doc

\* A bell leads to a document: what it announces is stored, its ticket has been completed,
\* and unless the document was hidden or the ticket moved back since, the consumer finds it in
\* the list, on the ticket, and may download it; only an archived ticket is not found.
\* Status and visibility change between the steps of uploads and reviews.
BellLeadsToDocument ==
    \A d \in docBell :
        /\ doc[d].stored /\ docTicket.by # "nobody"
        /\ doc[d].visible /\ ~docTicket.reopened =>
             listed(d) /\ downloadable(d) /\ (docTicket.archived \/ onTicket(d))

\* What may be read was announced: once a ticket is completed by a review that has counted,
\* no visible document of it is without a bell, whenever it was uploaded and however often
\* the ticket was overridden, reviewed and archived before.  Excused is a document that
\* since the last count (a) was stored by an upload that had read the ticket before it was
\* completed, (b) was hidden and is shown, or (c) lost its bell when the ticket was archived.
\* A ticket completed by anything but a review has no such promise (README, Disagreements).
ReadableIsAnnounced ==
    docTicket.by = "review" /\ release = 0 =>
        \A d \in Doc : listed(d) /\ docUpload[d].pc = "done" /\ ~doc[d].excused => d \in docBell

\* The bell is released: a document that is stored and visible while a review is being
\* completed is announced, unless it is hidden again before, or the bell swept away.
HeldBellReleased ==
    \A d \in Doc : (release > 0 /\ doc[d].stored /\ doc[d].visible)
                    ~> (d \in docBell \/ ~doc[d].visible)

\* Documents are held back until they may be read, and announced then: a bell leads to a
\* document the consumer can open, and after a review no readable document lacks one
\* (tickets.service.ts:2008-2081, 2574-2586, 3586).
DocumentsAreHeld == DocTypeOK /\ BellLeadsToDocument /\ ReadableIsAnnounced
=============================================================================
