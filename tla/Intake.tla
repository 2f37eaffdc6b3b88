------------------------------- MODULE Intake -------------------------------
(***************************************************************************)
(* Intake: how a form in the browser becomes a ticket.  The wizard         *)
(* (intake-wizard.tsx) autosaves, submits, retries and discards; the API   *)
(* (TicketsService, PromosService) keeps at most one draft per consumer    *)
(* and flow, creates the ticket once per idempotency key, and redeems the  *)
(* promo code in the same transaction.                                     *)
(*                                                                         *)
(* The wizard and the server are separate: a connection may drop while the *)
(* server goes on, a request may die on the server, and requests of one    *)
(* tab overlap.  A server request that awaits between statements is        *)
(* several steps; a Prisma transaction is one.                             *)
(***************************************************************************)
EXTENDS Integers, Sequences, FiniteSets, FiniteSetsExt, Functions

CONSTANTS
    Tab,            \* browser tabs
    Consumer,       \* consumers
    Scenes,         \* who has the wizard open in which tab, what forms ask for, what users do
    Slot,           \* requests that can be in flight at the same time
    FormLimit,      \* forms started in a behaviour, in any scene
    KeyLimit,       \* idempotency keys minted in a behaviour
    totalUsageLimit, perUserLimit,   \* PromoCode columns
    AllowUnpriced   \* ALLOW_UNPRICED_INTAKE

\* What a form asks for besides the service: a search by CNIC instead of a copy of
\* an FIR, a promo code, an attachment.
Options == [cnic : BOOLEAN, promo : BOOLEAN, file : BOOLEAN]
Blank == [cnic |-> FALSE, promo |-> FALSE, file |-> FALSE]

ASSUME IntakeAssumption ==
    /\ IsFiniteSet(Tab) /\ IsFiniteSet(Slot) /\ IsFiniteSet(Consumer)
    /\ \A s \in Scenes :
          /\ DOMAIN s.owner \subseteq Tab
          /\ \A w \in DOMAIN s.owner : s.owner[w] \in Consumer
          /\ Cardinality(DOMAIN s.owner) <= s.forms
          /\ s.options \subseteq Options
          /\ s.acts \subseteq {"save", "fresh", "reload", "autosave", "promo"}
          /\ s.forms \in 1..FormLimit /\ s.keys \in 1..KeyLimit
    /\ {FormLimit, KeyLimit, totalUsageLimit, perUserLimit} \subseteq Nat
    /\ AllowUnpriced \in BOOLEAN

VARIABLES
    scene,          \* the scene played: never changes
    wizard,         \* React state and refs of the wizard in each tab
    request,        \* requests in flight
    forms,          \* number of forms started so far
    keys,           \* number of keys minted so far
    drafts,         \* TicketIntakeDraft rows, by consumer: the wizard's flow
    tickets,        \* Ticket rows, in the order of their creation
    redeemed,       \* PromoRedemption rows: the tickets they are for
    promo           \* the PromoCode row: absent, before, in or past its window

intakeVars == <<scene, wizard, request, forms, keys, drafts, tickets, redeemed, promo>>

\* The flow of the wizard, and the flow a CNIC search is submitted under.
WizardFlow == "non_judicial_copy_of_fir"
SearchFlow == "non_judicial_criminal_record_search"

\* Ids enough for every row there is, every row a request remembers, and a new one.
DraftId == 1..(Cardinality(Slot) + Cardinality(Consumer) + 1)
NoDraft == [id |-> 0, form |-> 0]
DraftRow == {NoDraft} \cup [id : DraftId, form : 1..FormLimit]

TicketRow == [consumer : Consumer, flow : {WizardFlow, SearchFlow}, form : 1..FormLimit,
              instance : 1..FormLimit, key : 1..KeyLimit, promoDiscount : BOOLEAN,
              recent : BOOLEAN, documents : 0..2]

\* instance counts resetForm and page loads, form is what the fields hold; guard
\* is submittingRef and key submitRequestIdRef.
WizardRow == [instance : 1..FormLimit, form : 1..FormLimit, asks : Options,
              draftId : {0} \cup DraftId, resumed : BOOLEAN,
              timer : BOOLEAN, guard : BOOLEAN, loading : BOOLEAN, key : 0..KeyLimit]

Idle == [op |-> "none"]
Operation == {"submit", "auto", "manual", "discard", "upload", "resume"}
RequestRow == [op : Operation, pc : {"sent", "priced", "created", "upsert", "found", "answer"},
               res : {"none", "ok", "suppressed", "error"}, tab : Tab, waits : BOOLEAN,
               instance : 1..FormLimit, form : 1..FormLimit, asks : Options,
               key : 0..KeyLimit, unpriced : BOOLEAN, row : DraftRow,
               ticket : 0..KeyLimit]

BlankForm(n) == [instance |-> n, form |-> n, asks |-> Blank,
                 draftId |-> 0, resumed |-> FALSE, timer |-> FALSE, guard |-> FALSE,
                 loading |-> FALSE, key |-> 0]

Open == DOMAIN scene.owner

\* Every tab starts on a form of its own.
IntakeInit ==
    /\ scene \in Scenes
    /\ forms = Cardinality(Open)
    /\ wizard \in {[w \in Open |-> BlankForm(number[w])] :
                     number \in Bijection(Open, 1..Cardinality(Open))}
    /\ request = [r \in Slot |-> Idle]
    /\ keys = 0
    /\ drafts = [c \in Consumer |-> NoDraft]
    /\ tickets = <<>>
    /\ redeemed = {}
    /\ promo = "absent"

-----------------------------------------------------------------------------
\* The browser.  A request carries what the closure of its handler captured.

Busy(r) == request[r] # Idle
InFlight(w, ops) == {r \in Slot : Busy(r) /\ request[r].tab = w /\ request[r].waits
                                  /\ request[r].op \in ops}

\* A bound on what users start, so that every handler under way can still reset its
\* form.
Room == forms + Cardinality({r \in Slot : Busy(r) /\ request[r].waits
                               /\ request[r].op \in {"submit", "manual", "discard", "upload"}})
          < scene.forms

Send(r, w, op, key) ==
    /\ ~Busy(r)
    /\ request' = [request EXCEPT ![r] =
         [op |-> op, pc |-> "sent", res |-> "none", tab |-> w, waits |-> TRUE,
          instance |-> wizard[w].instance,
          form |-> wizard[w].form, key |-> key,
          asks |-> IF op = "submit" THEN wizard[w].asks ELSE Blank, unpriced |-> FALSE,
          row |-> NoDraft, ticket |-> 0]]

server == <<drafts, tickets, redeemed, promo>>

\* The other conditions, on the fields of the first step, hold in the scenes that
\* let forms be autosaved.
canAutosaveDraft(w) == ~wizard[w].guard /\ "autosave" \in scene.acts

\* The user changes the form: a field, the FIR mode, the promo code, the
\* attachments.  The autosave effect re-arms its timer on every change.
Edit(w) ==
    /\ \E o \in scene.options :
         wizard' = [wizard EXCEPT ![w].asks = o, ![w].timer = canAutosaveDraft(w)]
    /\ UNCHANGED <<scene, request, forms, keys, server>>

\* The 5 second timer: saveDraft('auto').
AutosaveTimer(w) ==
    /\ wizard[w].timer
    /\ wizard' = [wizard EXCEPT ![w].timer = FALSE]
    /\ IF wizard[w].guard THEN UNCHANGED request
                          ELSE \E r \in Slot : Send(r, w, "auto", 0)
    /\ UNCHANGED <<scene, forms, keys, server>>

\* The Save Draft button.
SaveDraft(w) ==
    /\ ~wizard[w].loading
    /\ Room
    /\ wizard' = [wizard EXCEPT ![w].loading = TRUE]
    /\ \E r \in Slot : Send(r, w, "manual", 0)
    /\ UNCHANGED <<scene, forms, keys, server>>

\* Mutant: every attempt mints a key.
SubmitTicket_FreshKey(w) ==
    /\ ~wizard[w].loading
    /\ Room
    /\ keys < scene.keys
    /\ keys' = keys + 1
    /\ wizard' = [wizard EXCEPT ![w].guard = TRUE, ![w].timer = FALSE,
                                ![w].key = keys + 1, ![w].loading = TRUE]
    /\ \E r \in Slot : Send(r, w, "submit", keys + 1)
    /\ UNCHANGED <<scene, forms, server>>

\* The Submit button: the guard goes up and the timer is cleared before the
\* POST, and the key is minted once per form.
SubmitTicket(w) ==
    LET key == IF wizard[w].key = 0 THEN keys + 1 ELSE wizard[w].key
    IN  /\ ~wizard[w].loading
        /\ Room
        /\ key <= scene.keys
        /\ keys' = IF wizard[w].key = 0 THEN keys + 1 ELSE keys
        /\ wizard' = [wizard EXCEPT ![w].guard = TRUE, ![w].timer = FALSE,
                                    ![w].key = key, ![w].loading = TRUE]
        /\ \E r \in Slot : Send(r, w, "submit", key)
        /\ UNCHANGED <<scene, forms, server>>

\* Start Fresh.  The button below the form is disabled while loading; the one on
\* the banner of a resumed draft is not.
StartFresh(w) ==
    /\ wizard[w].loading => wizard[w].resumed
    /\ InFlight(w, {"discard"}) = {}
    /\ Room
    /\ wizard' = [wizard EXCEPT ![w].guard = TRUE, ![w].timer = FALSE]
    /\ \E r \in Slot : Send(r, w, "discard", 0)
    /\ UNCHANGED <<scene, forms, keys, server>>

\* The page is closed or reloaded: nothing of the tab's memory is left, and
\* nobody listens to its requests any more.  The new page asks for the draft.
Reload(w) ==
    /\ Room
    /\ forms' = forms + 1
    /\ wizard' = [wizard EXCEPT ![w] = BlankForm(forms + 1)]
    /\ \E r \in Slot :
         /\ ~Busy(r)
         /\ request' = [q \in Slot |->
              IF q = r
              THEN [op |-> "resume", pc |-> "sent", res |-> "none", tab |-> w,
                    waits |-> TRUE, instance |-> forms + 1, form |-> forms + 1, asks |-> Blank, key |-> 0, unpriced |-> FALSE, row |-> NoDraft,
                    ticket |-> 0]
              ELSE IF Busy(q) /\ request[q].tab = w
                   THEN [request[q] EXCEPT !.waits = FALSE] ELSE request[q]]
    /\ UNCHANGED <<scene, keys, server>>

-----------------------------------------------------------------------------
\* The server.

Consumes(r) == scene.owner[request[r].tab]
flowOf(r) == IF request[r].asks.cnic /\ request[r].op = "submit" THEN SearchFlow ELSE WizardFlow
At(r, op, pc) == Busy(r) /\ request[r].op \in op /\ request[r].pc = pc
Step(r, pc) == request' = [request EXCEPT ![r].pc = pc]
Answer(r, res) == request' = [request EXCEPT ![r].pc = "answer", ![r].res = res]
client == <<scene, wizard, forms, keys>>

recentTicket(c, flow) ==
    \E i \in DOMAIN tickets : tickets[i].consumer = c /\ tickets[i].flow = flow
                              /\ tickets[i].recent

\* saveIntakeDraft: the unlocked look for a ticket of the last 30 seconds.
SaveIntakeDraft(r) ==
    /\ At(r, {"auto", "manual"}, "sent")
    /\ IF recentTicket(Consumes(r), flowOf(r)) THEN Answer(r, "suppressed")
                                               ELSE Step(r, "upsert")
    /\ UNCHANGED <<client, server>>

\* An id that no row has and no request remembers.
FreshDraftId ==
    Min(DraftId \ ({drafts[c].id : c \in Consumer}
         \cup {request[r].row.id : r \in {q \in Slot : Busy(q)}}))

\* The upsert on (consumerId, flow): an existing row keeps its id.
UpsertDraft(r) ==
    LET c == Consumes(r)
        row == [id |-> IF drafts[c] = NoDraft THEN FreshDraftId ELSE drafts[c].id,
                form |-> request[r].form]
    IN  /\ At(r, {"auto", "manual"}, "upsert")
        /\ drafts' = [drafts EXCEPT ![c] = row]
        /\ request' = [request EXCEPT ![r].pc = "answer", ![r].res = "ok", ![r].row = row]
        /\ UNCHANGED <<client, tickets, redeemed, promo>>

\* getActiveDraft.
GetActiveDraft(r) ==
    /\ At(r, {"resume"}, "sent")
    /\ request' = [request EXCEPT ![r].pc = "answer", ![r].res = "ok",
                                  ![r].row = drafts[Consumes(r)]]
    /\ UNCHANGED <<client, server>>

\* deleteActiveDraft: the row is found, then deleted by its id.
DeleteActiveDraft(r) ==
    /\ At(r, {"discard"}, "sent")
    /\ IF drafts[Consumes(r)] = NoDraft
       THEN Answer(r, "ok")
       ELSE request' = [request EXCEPT ![r].pc = "found", ![r].row = drafts[Consumes(r)]]
    /\ UNCHANGED <<client, server>>

DeleteDraftRow(r) ==
    LET c == Consumes(r) IN
    /\ At(r, {"discard"}, "found")
    /\ IF drafts[c].id = request[r].row.id
       THEN drafts' = [drafts EXCEPT ![c] = NoDraft] /\ Answer(r, "ok")
       ELSE UNCHANGED drafts /\ Answer(r, "error")
    /\ UNCHANGED <<client, tickets, redeemed, promo>>

\* deleteIntakeDraftById, from the Drafts page of the same consumer.
DeleteIntakeDraftById(c) ==
    /\ drafts[c] # NoDraft
    /\ drafts' = [drafts EXCEPT ![c] = NoDraft]
    /\ UNCHANGED <<client, request, tickets, redeemed, promo>>

usage(c) == Cardinality({i \in redeemed : tickets[i].consumer = c})
withinLimits(c) == Cardinality(redeemed) < totalUsageLimit /\ usage(c) < perUserLimit

\* PromosService.validate, without a lock.
validate(c) ==
    promo = "open" /\ withinLimits(c)

\* createIntakeTicket before its transaction: the payload, the pricing rules of
\* the moment, the consumer's currency and the promo code.
CreateIntakeTicket(r) ==
    \E payloadOk, usd \in BOOLEAN, pricing \in {"matched", "unmatched", "norules"} :
        LET rejected == \/ ~payloadOk
                        \/ pricing = "unmatched"
                        \/ pricing = "norules" /\ ~AllowUnpriced
                        \/ usd /\ request[r].asks.promo
                        \/ /\ pricing = "matched"
                           /\ request[r].asks.promo
                           /\ ~validate(Consumes(r))
        IN  /\ At(r, {"submit"}, "sent")
            /\ IF rejected
               THEN Answer(r, "error")
               ELSE request' = [request EXCEPT ![r].pc = "priced",
                                               ![r].unpriced = request[r].asks.promo /\ pricing = "norules"]
            /\ UNCHANGED <<client, server>>

\* Mutant: the limits counted before the transaction are trusted.
assertWithinLimits_Trusting(c) == TRUE

\* The recount under FOR UPDATE on the promo's row.
assertWithinLimits(c) == withinLimits(c)

\* The unique index on intakeRequestId, which the transaction's INSERT meets.
replayOf(key) == {i \in DOMAIN tickets : tickets[i].key = key}

\* The transaction: INSERT of the ticket (unique intakeRequestId), of its first
\* history row, the promo limits under lock and the redemption.  A collision of
\* the key answers with the consumer's own ticket; a limit that was reached in
\* the meantime rolls everything back.
CreateTicketTx(r) ==
    LET c == Consumes(r)
        q == request[r]
        same == replayOf(q.key)
        redeems == q.asks.promo /\ ~q.unpriced
        n == Len(tickets) + 1
    IN  /\ At(r, {"submit"}, "priced")
        /\ \/ /\ same # {}
              /\ request' = [request EXCEPT ![r].pc = "answer",
                   ![r].res = IF \E i \in same : tickets[i].consumer = c
                              THEN "ok" ELSE "error",
                   ![r].ticket = Max(same)]
              /\ UNCHANGED <<tickets, redeemed>>
           \/ /\ same = {}
              /\ redeems => assertWithinLimits(c)
              /\ tickets' = Append(tickets,
                   [consumer |-> c, flow |-> flowOf(r), form |-> q.form, instance |-> q.instance,
                    key |-> q.key, promoDiscount |-> redeems, recent |-> TRUE,
                    documents |-> 0])
              /\ redeemed' = IF redeems THEN redeemed \cup {n} ELSE redeemed
              /\ request' = [request EXCEPT ![r].pc = "created", ![r].ticket = n]
           \/ /\ same = {}
              /\ redeems /\ ~assertWithinLimits(c)
              /\ Answer(r, "error")
              /\ UNCHANGED <<tickets, redeemed>>
        /\ UNCHANGED <<client, drafts, promo>>

\* After the commit: the draft of (consumerId, dto.flow) is deleted, the consumer
\* notified and, when asked, the wallet settled (WalletLedger).
DeleteSubmittedDraft(r) ==
    LET c == Consumes(r) IN
    /\ At(r, {"submit"}, "created")
    /\ drafts' = IF flowOf(r) = WizardFlow THEN [drafts EXCEPT ![c] = NoDraft] ELSE drafts
    /\ Answer(r, "ok")
    /\ UNCHANGED <<client, tickets, redeemed, promo>>

\* uploadDocument for the attachment of the form.
UploadDocument(r) ==
    /\ At(r, {"upload"}, "sent")
    /\ tickets' = [tickets EXCEPT ![request[r].ticket].documents = @ + 1]
    /\ Answer(r, "ok")
    /\ UNCHANGED <<client, drafts, redeemed, promo>>

\* The request dies on the server between two statements: what it has committed
\* stays, and the browser sees an error.
ServerFails(r) ==
    /\ Busy(r) /\ request[r].pc # "answer"
    /\ Answer(r, "error")
    /\ UNCHANGED <<client, server>>

\* Half a minute passes since the last ticket was created.
ThirtySecondsPass ==
    /\ \E i \in DOMAIN tickets : tickets[i].recent
    /\ tickets' = [i \in DOMAIN tickets |-> [tickets[i] EXCEPT !.recent = FALSE]]
    /\ UNCHANGED <<client, request, drafts, redeemed, promo>>

\* Promo codes: create, deactivate, and the time between startsAt and endsAt.  A
\* deactivated code and one past its window are refused alike.
CreatePromo ==
    /\ promo = "absent"
    /\ promo' \in {"early", "open"}
    /\ UNCHANGED <<client, request, drafts, tickets, redeemed>>

DeactivatePromo ==
    /\ promo # "absent"
    /\ promo' = "ended"
    /\ UNCHANGED <<client, request, drafts, tickets, redeemed>>

PromoWindowMoves ==
    /\ promo \in {"early", "open"}
    /\ promo' = IF promo = "early" THEN "open" ELSE "ended"
    /\ UNCHANGED <<client, request, drafts, tickets, redeemed>>

-----------------------------------------------------------------------------
\* The answers.  Each ends the handler that awaited it, whatever the tab has
\* become in the meantime.

Heard(r, op) == Busy(r) /\ request[r].op \in op /\ request[r].waits
\* The browser gets the answer, or the connection fails and the server goes on.
Fails(r) == \/ /\ request[r].pc = "answer" /\ request[r].res = "error"
               /\ request' = [request EXCEPT ![r] = Idle]
            \/ /\ request[r].pc # "answer"
               /\ request' = [request EXCEPT ![r].waits = FALSE]
Succeeds(r) == /\ request[r].pc = "answer" /\ request[r].res # "error"
               /\ request' = [request EXCEPT ![r] = Idle]

\* resetForm: a new form, the guard down, no key.  loading is set by the caller.
resetForm(n, loading) ==
    [BlankForm(n) EXCEPT !.loading = loading]

\* saveDraft after its await.
SaveAnswered(r) ==
    LET q == request[r]
        w == q.tab
        stale == q.op = "auto" /\ wizard[w].guard
        saved == ~stale /\ q.res # "suppressed"
        fresh == wizard[w].draftId # q.row.id
    IN  /\ Heard(r, {"auto", "manual"})
        /\ Succeeds(r)
        /\ \/ /\ q.op = "manual" /\ saved
              /\ forms' = forms + 1
              /\ wizard' = [wizard EXCEPT ![w] = resetForm(forms + 1, FALSE)]
           \/ /\ ~(q.op = "manual" /\ saved)
              /\ UNCHANGED forms
              /\ wizard' = [wizard EXCEPT
                   ![w].draftId = IF saved THEN q.row.id ELSE @,
                   ![w].timer = IF saved /\ fresh THEN canAutosaveDraft(w) ELSE @,
                   ![w].loading = IF q.op = "manual" THEN FALSE ELSE @]
        /\ UNCHANGED <<scene, keys, server>>

SaveFailed(r) ==
    LET w == request[r].tab IN
    /\ Heard(r, {"auto", "manual"})
    /\ Fails(r)
    /\ wizard' = [wizard EXCEPT ![w].loading =
                    IF request[r].op = "manual" THEN FALSE ELSE @]
    /\ UNCHANGED <<scene, forms, keys, server>>

\* startFresh after its DELETE, which may fail.
DiscardAnswered(r) ==
    LET w == request[r].tab IN
    /\ Heard(r, {"discard"})
    /\ Succeeds(r) \/ Fails(r)
    /\ forms' = forms + 1
    /\ wizard' = [wizard EXCEPT ![w] = resetForm(forms + 1, wizard[w].loading)]
    /\ UNCHANGED <<scene, keys, server>>

\* submitTicket after its POST: the attachment is uploaded, then the form reset.
SubmitAnswered(r) ==
    LET q == request[r]
        w == q.tab
    IN  /\ Heard(r, {"submit"})
        /\ \/ /\ q.pc = "answer" /\ q.res = "ok" /\ q.asks.file
              /\ request' = [request EXCEPT ![r].op = "upload", ![r].pc = "sent",
                                            ![r].res = "none"]
              /\ UNCHANGED <<wizard, forms>>
           \/ /\ Succeeds(r) /\ ~q.asks.file
              /\ forms' = forms + 1
              /\ wizard' = [wizard EXCEPT ![w] = resetForm(forms + 1, FALSE)]
        /\ UNCHANGED <<scene, keys, server>>

\* The upload's answer or failure: both end in resetForm.
UploadAnswered(r) ==
    LET w == request[r].tab IN
    /\ Heard(r, {"upload"})
    /\ Succeeds(r) \/ Fails(r)
    /\ forms' = forms + 1
    /\ wizard' = [wizard EXCEPT ![w] = resetForm(forms + 1, FALSE)]
    /\ UNCHANGED <<scene, keys, server>>

\* A failed submission: the key is kept for the retry.
SubmitFailed(r) ==
    LET w == request[r].tab IN
    /\ Heard(r, {"submit"})
    /\ Fails(r)
    /\ wizard' = [wizard EXCEPT ![w].guard = FALSE, ![w].loading = FALSE]
    /\ UNCHANGED <<scene, forms, keys, server>>

\* The resume effect of a fresh page: the draft replaces what was typed.
ResumeAnswered(r) ==
    LET q == request[r]
        w == q.tab
    IN  /\ Heard(r, {"resume"})
        /\ \/ Fails(r) /\ UNCHANGED wizard
           \/ /\ Succeeds(r)
              /\ wizard' = IF q.row = NoDraft THEN wizard
                           ELSE [wizard EXCEPT ![w].form = q.row.form,
                                   ![w].draftId = q.row.id, ![w].resumed = TRUE]
        /\ UNCHANGED <<scene, forms, keys, server>>

\* A request nobody waits for any more ends.
Dropped(r) ==
    /\ Busy(r) /\ ~request[r].waits /\ request[r].pc = "answer"
    /\ request' = [request EXCEPT ![r] = Idle]
    /\ UNCHANGED <<client, server>>

-----------------------------------------------------------------------------
UserActs ==
    \E w \in Open : \/ Edit(w)
                    \/ SubmitTicket(w)
                    \/ "save" \in scene.acts /\ SaveDraft(w)
                    \/ "fresh" \in scene.acts /\ StartFresh(w)
                    \/ "reload" \in scene.acts /\ Reload(w)

Timers == \E w \in Open : AutosaveTimer(w)

ServerActs(r) ==
    \/ SaveIntakeDraft(r) \/ UpsertDraft(r) \/ GetActiveDraft(r)
    \/ DeleteActiveDraft(r) \/ DeleteDraftRow(r)
    \/ CreateIntakeTicket(r) \/ CreateTicketTx(r) \/ DeleteSubmittedDraft(r)
    \/ UploadDocument(r)

Answers(r) ==
    \/ SaveAnswered(r) \/ SaveFailed(r) \/ DiscardAnswered(r) \/ SubmitAnswered(r)
    \/ UploadAnswered(r) \/ SubmitFailed(r) \/ ResumeAnswered(r) \/ Dropped(r)

Promos == CreatePromo \/ DeactivatePromo \/ PromoWindowMoves

IntakeNext ==
    \/ UserActs
    \/ Timers
    \/ \E r \in Slot : ServerActs(r) \/ ServerFails(r) \/ Answers(r)
    \/ \E c \in Consumer : DeleteIntakeDraftById(c)
    \/ "autosave" \in scene.acts /\ ThirtySecondsPass
    \/ "promo" \in scene.acts /\ Promos

IntakeSpec == IntakeInit /\ [][IntakeNext]_intakeVars

-----------------------------------------------------------------------------
\* Properties.

\* Type correctness of the intake: every row, request and wizard keeps its shape.
IntakeTypeOK ==
    /\ scene \in Scenes
    /\ wizard \in [Open -> WizardRow]
    /\ \A r \in Slot : request[r] = Idle \/ request[r] \in RequestRow
    /\ forms \in 0..FormLimit /\ keys \in 0..KeyLimit
    /\ drafts \in [Consumer -> DraftRow]
    /\ \A i \in DOMAIN tickets : tickets[i] \in TicketRow
    /\ redeemed \subseteq DOMAIN tickets
    /\ promo \in {"absent", "early", "open", "ended"}

\* However many consumers redeem the code at the same time, its total and its
\* per-user limit hold (assertWithinLimits under the promo's row lock).
PromoWithinLimits ==
    /\ Cardinality(redeemed) <= totalUsageLimit
    /\ \A c \in Consumer : usage(c) <= perUserLimit

\* A ticket carries a promo discount exactly when its redemption is counted: no
\* crash or rollback leaves one without the other (createIntakeTicket's transaction).
DiscountIsCounted ==
    redeemed = {i \in DOMAIN tickets : tickets[i].promoDiscount}

\* A form on the screen becomes one ticket, however often its submission is retried
\* after a lost answer, also while the first attempt still runs on the server.
OneTicketPerForm ==
    \A i, j \in DOMAIN tickets : tickets[i].instance = tickets[j].instance => i = j

\* No attachment is uploaded twice: after the ticket exists nothing makes the
\* wizard run its upload loop again.
NoDuplicateUpload == \A i \in DOMAIN tickets : tickets[i].documents <= 1

\* Once nothing is in flight, no draft holds a form that has become a ticket: "delete
\* it so it doesn't reappear in the consumer's drafts list as a phantom duplicate".  The code does not keep it
\* (README, Disagreements).
NoPhantomDraft ==
    (\A r \in Slot : ~Busy(r))
      => \A c \in Consumer, i \in DOMAIN tickets :
            drafts[c] # NoDraft /\ tickets[i].consumer = c => drafts[c].form # tickets[i].form

\* A form is submitted once: whatever answer is lost and whatever is retried, crossed by a
\* save or cut off by a crash, it becomes one ticket with each attachment once.
SubmittedOnce == IntakeTypeOK /\ OneTicketPerForm /\ NoDuplicateUpload

\* A promo code is spent within its limits, and every discount is a counted redemption.
PromosAreCounted == PromoWithinLimits /\ DiscountIsCounted
=============================================================================
