# Wusuq: specifications of the ticket platform

Wusuq is a paralegal operations platform: consumers order court documents and
services as *tickets*, pay for them from a prepaid wallet, through a hosted
checkout or at the finance desk, and representatives ("clerks") do the work that
admins assign, review and deliver. `apps/api` is a NestJS service over
PostgreSQL (Prisma), `apps/web` a Next.js portal, `packages/shared` the rules
both use.

Several API processes serve requests at the same time against one database, and
browsers hold copies of its rows that answers update late, out of order or never.
Correctness is therefore a matter of which rows are locked, what was read before a
lock or an await, what a conditional write re-checks, and whether rules that are
written twice (page and server, list and detail, quote and charge) agree. That is
what the modules model.

## 1. Inventory

| Component | State | Operations | Interacts with | What makes it correct |
|---|---|---|---|---|
| Wallet (`wallet/`) | `User.walletBalance`, `WalletTransaction` | topup, verify, reject, adjust, settle, pay from wallet | tickets, finalization, reprice | the balance is what the rows add up to; no top-up is decided or credited twice; no ticket is paid beyond its price |
| Finance desk (`finance/`) | `Ticket.totalAmount`, `amountPaid` | reconcilePayment, updateCharge | wallet, tickets | payments are within the due; a total is not cut below what was paid |
| Ticket workflow (`tickets/`) | `Ticket.status`, charges, `Assignment`, `TicketStatusHistory` | updateStatus, overrideStatus, assign, accept, reject, receipt, costs, draft charges, review, send back, dispatch, finalize, reprice, archive | wallet, invoices, notifications, cases | a change of status is allowed from the status in force; the history has no gap; gates hold at delivery; final charges stay final |
| Payment gateway (`payments/`) | `Payment` | initiate, handleWebhook | external gateway, tickets | one credit per completed session, whatever is delivered how often |
| Intake and drafts (`tickets/`, `intake-wizard.tsx`) | `Ticket`, `IntakeDraft`, the wizard's state | autosave, resume, discard, submit, upload | pricing, promos, cases, geography | one ticket per form; what the page lets through the server accepts; the court is of the city |
| Promos | `PromoCode`, redemptions | validate, assertWithinLimits | intake | limits under concurrent intakes |
| Invoices | `Invoice`, `InvoiceItem` | generate, auto-issue | review | a ticket is on one invoice; a proposal is billed only in the two cases of section 5 |
| Pricing | `PricingRule` | resolve, availability, CRUD | intake, reprice, assign | what is offered has a price; the parts make the total |
| Cases and hearings | `Case`, `CaseEvent`, hearing dates | status, drift, write-back, next hearing, reminder job | tickets | open drifts are the latest; who owes a date is reminded |
| Personal files | `PersonalFile`, usage row, stored bytes | upload, delete, restore, nightly collection | storage | the usage row counts the rows; the quota is exceeded at most by what is in flight |
| Authentication and users | codes, refresh tokens, `User` | OTP, refresh, logout, signup, profile, update | web client, tickets | guesses are bounded; every call ends; the currency locks |
| Elections | `Election`, `Vote`, seats | candidates, castVote, finalize | cabinet | counts are the votes, seats the winners |
| Notifications | `Notification`, the badge of a tab | dispatcher, stream, read, clear | everything | whoever has to act is told once |
| Documents | `TicketDocument` | upload, visibility, download | review, notifications | a notice leads to a document that opens; what a review completes is announced |
| Geography | places, court seats, a cached tree, jobs | CRUD, copy courts, seed, reset | intake | a seed is complete and not repeated; the cache is current |
| Tours | progress rows, a browser queue | load, play, save, flush, switch off | web shell | a tour plays once per version |
| Dashboards and reports | a cache of a minute | summaries, KPIs, counters, drill-downs | tickets | two screens of one fact agree |
| Web application | tokens, role, stashed session, dialogs | guards, redirects, menus, boards, pay page | API | redirections end; what is offered is served |
| Catalogues, settings, currency, audit log, platform | single rows, output | CRUD, reads | | section 6 |

The behaviours that are hard here: the two-phase price of a ticket (base at intake,
remainder after the work) while money is arriving by three paths; unlocked reads
followed by conditional writes; lock order between `User` and `Ticket` rows;
`initiate` and its webhooks, which are not one transaction; statuses that go there
and back, so that a check of the status alone does not show that nothing happened;
jobs and loops that fail in the middle; and pages that act on answers of earlier
questions. `PROJECT.json` lists the forty hazards that matter most, at their lines.

## 2. Modules

| Module | Models | Checked in |
|---|---|---|
| `WalletLedger` | wallet, finance desk and the money side of tickets, with row locks | `settle`, `charges`, `answers` |
| `MoneyAccounts` | abstract specification: what an observer of the accounts sees | `settle` |
| `TicketWorkflow` | statuses, assignments, charges and review of one ticket | `workflow` |
| `PaymentGateway` | hosted-checkout payments of one ticket | `messages`, `double` |
| `Notifications`, `BellTab` | the dispatcher; the bell of one tab | `messages` |
| `Tours` | guided tours with their progress, queue and switch | `messages` |
| `OfficeSummary` | the cached dashboard of the office | `messages` |
| `Intake` | wizard, drafts, submission, uploads, promo codes | `office` |
| `Accounts` | the currency of an account against what depends on it | `office` |
| `Invoicing` | generated and automatic invoices | `office` |
| `PersonalFiles` | file cabinet, quota, garbage collection | `office` |
| `Elections` | votes, counts, finalization, seats | `office` |
| `PayPage` | a consumer pays: card, page, claim, verification, settlement | `records` |
| `Geography` | places, court seats, jobs and the cached tree | `office` |
| `CaseRecords` | a case, its log, drifts and suggestions | `records` |
| `Pricing` | the price list and its resolver | `records` |
| `RequiredFields` | the required fields of page and server | `records` |
| `Reporting` | lists, counters, dashboards and business figures over the same tickets | `records` |
| `Routes`, `Portal` | permissions of roles and handlers; guards, redirects, menus, impersonation | `records` |
| `Sessions` | codes, refresh tokens, the shared refresh of a tab | `desk` |
| `Hearings` | hearing dates and the reminder job | `desk` |
| `TicketDocuments` | documents and the held notice | `desk` |
| `IntakePicker` | the wizard's lists and debounced previews | `desk` |
| `TicketBoard` | the ticket board with its dialogs, and stale rows | `desk` |
| `MC...` | small instances for TLC | |
| `WalletLedgerProofs` | theorems about `WalletLedger`: balances, books, locks, prices, the sums of the rows; the refinement of `MoneyAccounts` | |
| `TicketWorkflowProofs` | theorems about `TicketWorkflow` | |
| `IntakeProofs` | theorems about `Intake` | |
| `OfficeProofs` | theorems about `Accounts`, `Elections`, `PersonalFiles`, `Invoicing` and `Geography` | |
| `MessagesProofs` | theorems about `Notifications`, `BellTab`, `OfficeSummary`, `Tours` and `PaymentGateway` | |
| `RecordsProofs` | theorems about `CaseRecords`, `PayPage`, `Pricing`, `RequiredFields` and `Reporting` | |
| `DeskProofs` | theorems about `Sessions`, `Hearings`, `TicketDocuments`, `IntakePicker` and `TicketBoard` | |
| `SumTheorems` | lemmas about sums over finite sets | |

The components of `MCOffice`, `MCRecords`, `MCDesk` and `MCMessages` share no variable.
Each of these modules has a variable `focus` that chooses, at the start, the one
component that moves; a run therefore explores the sum of the components' state
spaces, not the product; interleaving steps that share nothing would add no case. Where
components do interact, the interaction is inside one module: settlement and
finalization in `WalletLedger`, promo and intake in `Intake`, completion and invoice in
`Invoicing`, page and server in `PayPage`, `TicketBoard` and `Tours`.

### WalletLedger

Every HTTP request is a process of the set `Request`, with a record of its local
variables (`req[r]`: operation, program counter, the user, ticket, amounts and
prices it has read). `balance`, `ticket`, `topup` are table columns. Debit and
adjustment rows are append-only, so `ledger` (per user) and `book` (per ticket)
keep their sums: the properties compare the columns with those sums. `userLock`,
`ticketLock` and `topupLock` are the holders of `SELECT ... FOR UPDATE`.

An action is what happens between two points at which another request can be seen:
a lock acquisition together with the reads under it, an unlocked read, or a commit.
PostgreSQL runs at READ COMMITTED, so a transaction's writes appear at its commit;
the actions that end in `Commit` apply all of them and release the locks.
`clearPendingTickets` is a loop, `SettleTicket` one iteration: the next candidate is
locked, re-read and its debit is remembered in `ded` until `SettleCommit`.
`reconcilePayment` locks the ticket and then inserts a row whose foreign key takes a
KEY SHARE lock on the user: that is the program counter `insert`. `Abort` rolls a
request back at any statement (a timeout or a lost connection), `BreakDeadlock` is
the detector of PostgreSQL; both are external.

Money is a natural number of the smallest unit. Prices are pairs `[service, total]`;
how charges, discount, promo and tax add up is left out, every pair of the constant
`Charges` may be the result. A pair with `total < service` is a discounted ticket.

### MoneyAccounts

Four variables (credit, funds, inflow, cash) and three kinds of indivisible
movement: a user gets or loses credit and tickets of that user are paid with it
(`Settle`), a surplus goes back (`Refund`), a payment is handed in (`Receive`).
`WalletLedger` implements it under the mapping in `Accounts`.

### PaymentGateway

`initiate` is four steps: read, cancel the live rows, open the session, insert the
row. `Checkout` is the consumer at the gateway (external). A webhook is not a
message that is consumed: as soon as a session has an outcome, `WebhookSuccess` may
be taken any number of times, by several requests at once, at any later time or
never, which is delivery with loss, duplication and reordering. `FlipAndCredit` is
the transaction after its unlocked read. `WalletPays` and `BulkAction` are what the
rest of the system does to the same ticket.

### TicketWorkflow

One ticket; its rows are shared by the requests. Each endpoint is an arrival (the
unlocked read and what it validates), the reads of `Assignment` where it makes them
(`EnsureClerkActionAllowed`, `FindActive`) and one write, since the transaction's
first statement is an update of the ticket's row, which it then holds. `Flip` is
the conditional `updateMany` with its history row. `finalizeRemainder` and
`reviewAndComplete` read under the lock, so they are one step, followed by the
settlement (`Settle`) that `afterRemainderFinalized` runs as a transaction of its
own. Money is only how much is covered: less than the base, the base, the total.
`bill` records which price and charges `totalAmount` was last computed from.
`assignBulk` and bulk completion are loops over `assign` and `updateStatus`.

### Intake, RequiredFields, IntakePicker

`Intake` separates the wizard of each tab from the requests it has sent: a connection
may drop while the server goes on, a request may die on the server, an answer may be
lost. A request that awaits between statements is several steps, a Prisma transaction
one (`CreateTicketTx` with the promo's row lock and the redemption). `forms` and `keys`
number what the consumer filled in and the idempotency keys, so that "the same form" can
be said of two tickets. `RequiredFields` fills in one form with changes of mind and
submits it: the page's rules (`intake-flows.ts`) against the server's tables.
`IntakePicker` has the two lists of answers the wizard waits for; a request carries its
sequence number (`isLatest`) or is cancelled by the clean-up of its effect (`cancelled`).

### Accounts, Invoicing, PersonalFiles, Elections

All four are requests that read without a lock and write later. `Accounts` has one
consumer; `calm` is history: no edit was under way when a ticket or a balance came to be.
`Invoicing` reads the tickets and commits in one READ COMMITTED transaction, with the
unique key as the last guard; beside it moves whatever writes the columns it bills: costs and
drafts of the representative, finalization and review, status changes and overrides, and the
edits of the finance desk and of a reprice, which read first and write later (`EditRead`,
`EditWrite`). `approved` and `loose` are history: the phase-2 amount an administrator wrote
last, and whether something else has changed it since. `PersonalFiles` keeps rows, bytes (`stored`) and the usage
row apart, with a crash at any step (`FileJobDies`). `Elections` has votes checked in
three reads, finalization in a read and a transaction.

### PayPage

One ticket, from the card that offers payment to the settlement. Amounts are
hundredths and rates rupees per hundred dollars, so that `round2` on both sides is
integer rounding and the round trip of a dollar amount through rupees can be checked,
at 280.50 and at a rate where a cent is little more than a paisa. The page works on
`page.row`, the ticket as it was loaded; verification and finalization happen meanwhile.

### Geography

Rows are records with an id; the two jobs walk a constant data set one query at a time,
wait for each other, and may fail or die in between. Administrators and the cached tree
interleave with them. The court file is reduced to four seats that exercise the
province labels, the city aliases and two cities of one name.

### CaseRecords, Pricing, Reporting

Rules of which two versions must agree. `CaseRecords` has requests that read the row,
write it by id and append an event. `Pricing` resolves a request to the *set* of answers
the database may give (no ORDER BY), so a price that depends on the order of rows shows
as two answers. `Reporting` reduces tickets to the columns the screens read and defines
every screen as a function of the rows.

### Routes, Portal, Sessions

`Routes` transcribes the permissions of the roles and of every handler the pages call,
`Portal` the menus, the guards and one tab that walks through them with tokens that
expire at any moment; `hops` counts redirections and `why` remembers what brought the tab
here: the user, a page it was thrown out of, or an impersonation that ended. `Sessions` numbers tokens in the order
of issue; tabs share storage and not the promise of a refresh. Its second half has the
one-time codes with overlapping guesses.

### Hearings, TicketDocuments, TicketBoard

`Hearings` has the clerk's call and the daily job with its list. `TicketDocuments` has an
upload that reads the status first and decides on the notice last, against a review that
commits first and counts documents later; every other way a ticket moves (`DocTicketMoves`:
updateStatus, the bulk completion and overrideStatus go between any two statuses, and ring for
nothing), archiving, which sweeps the notices away or fails to, and restoring. The list, the
download and the ticket itself each decide what the consumer sees. Of history, `by` is what
completed the ticket last, `reopened` that it was moved back, and `excused` why a document
need not have been announced.

`TicketBoard` keeps a row with the assignments (`active`, `accepted`), the final charges and the
status; a click runs the request of a row as it was some time ago, or the up to three requests of
the costs dialog (`runs`), against the ticket as it is. Each staff row has the select that
overrides the status (`overrides`), and the history variable `overridden`. Two representatives
and two kinds of staff use the board, since a delivery by override depends on the role and a
ticket stays listed for whoever was ever assigned to it.

### Notifications, BellTab, Tours, OfficeSummary

A dispatch (`Notifications`) is a list of audiences, each read when its turn comes and
written to one account at a time; a failed write ends it. `BellTab` has the rows of a user,
the stream (`wire`), the requests under way (`asks`) and the number the tab keeps itself;
`crossed` is history: a message and an answer passed each other. `Tours` has the API's rows,
the browser's queue and the provider of the page; `ended` and `known` are history.
`OfficeSummary` makes the reads of `computeSummary` one by one while tickets change, and
compares only answers that no change crossed (`StillTrue`).

## 3. Runs

| Run | Checks | Expectation |
|---|---|---|
| `settle` | two consumers, three tickets, two top-ups, four requests of the wallet, finance desk, archiving and rollback: `TypeOK`, `BalanceBacked`, `BooksBacked`, `DecisionIsFinal`, refinement of `MoneyAccounts` (`MovesMoneyAtomically`) | pass |
| `charges` | three requests that change prices and pay, in both phases, discounted prices included: `MoneyConserved`, `LockDiscipline`, `NoOverpayment`, `FinalizedOnce` | pass |
| `answers` | three requests that lock rows in both orders, under fairness: `RequestsEnd` | pass |
| `workflow` | three requests of any endpoint on three kinds of ticket in any stage: `TypeOK`, `HistoryChain`, `OneActiveAssignment`, `FinalBillKept`, `MovesAreAllowed` | pass |
| `messages` | `CreditedOnce`, `FlipIsForItsSession`, `OutcomeIsFinal` (gateway); `BellsAreHeard`; `BadgeIsTrue`; `ToursPlayOnce`; `FiguresAgree` | pass |
| `office` | `SubmittedOnce`, `PromosAreCounted` (intake); `CurrencyIsKept`; `InvoicesAreSound`; `CabinetIsCounted`; `BallotIsSound`; `GeographyIsSeeded` | pass |
| `records` | `CaseTellsItsStory`; `PricesAgree`; `PageMatchesServer`; `NumbersAgree`; `PortalServes`; `PaysWhatIsDue` | pass |
| `desk` | `HearingsAreKept`; `DocumentsAreHeld`; `FormIsCurrent`; `BoardIsReliable`; `EverybodyIsAnswered` (`SessionsHold` and the liveness of the other four, under fairness) | pass |
| `delivered_unpaid` | `DeliveryIsPaidFor` | violation |
| `double` | `NoDoubleCharge` | violation |
| `accepted` | `AcceptsTheActiveOne` | violation |
| `draft_charges` | `FinalBillReconciles` | violation |

A component of the last four passing runs, but for the gateway, is checked for one property
that is the conjunction of named parts, each stated and commented beside it: for example
`InvoicesAreSound` is the type of the rows, `OnOneInvoice`, `ProposalNeverBilled` and
`NetIsSumOfNets`. `TypeOK` of the ledger and of the workflow are checked by themselves in
`settle` and `workflow`; the other type invariants are parts of those conjunctions, and
the gateway's is not checked by a run but proved.

**Bounds.** Requests are the bound that matters: each is served once, so a run with
*n* requests covers every interleaving of every sequence of up to *n* calls. The
hazards found need two (stale read), three (there and back again) or four calls (a
top-up, its decision and two payments). A settlement loop needs two tickets of one
consumer, and a wallet that pays for a stranger's ticket needs a second consumer.
Amounts 1 and 2 against totals 1 and 2 give partial, exact and excessive payments
and a surplus; the gateway has a total of 3 so that a session, a wallet payment and
a second session can each be for a different amount, and a service cost of 5 for the
discounted ticket that stays UNPAID. On the pay page a base of 2 and totals of 3 and 1 give a
taxed and a discounted split ticket, with a wallet of 5 that covers either and a finalization
to 3. The dashboard's tickets are worth nothing or 2, which tells a ticket that is counted from one
that is missed.

Where a component has more operations than two or three requests can combine, the MC
module lists *scenes*: the operations that are enabled together, the number of each, and
the faults (`IntakeScenes`, `EditScenes`, `Atlases`, `BellsRung`, `ToursPlayed`, `Changes`,
`Scenes`, `InvoiceScenes`). Two overlapping requests suffice for a check against a write; two runs of the
collection for a double decrement; three courts in two cities for an answer of the wrong
city; one promo use for the last one; two attempts of a code for an overshoot; two
versions of a release for a tour that must play again and one that must not. A form is
filled in with two changes of mind in the three flows whose fields depend on each other and
one in the others (`ChangeLimit`); the reminder job starts with tickets that all owe a date, one
of them undeliverable; the atlas is edited by two additions and one deletion, and seeded once or
twice with a failing query or a dying job. The limits
(`TokenLimit`, `PickLimit`, `EditLimit`, `AskLimit`, `ActionLimit`, `SummaryLimit`,
`CaseEventLimit`, `ViewEventLimit`, `RuleEditLimit`, `ClaimLimit`, `CodeLimit`, ...) are
guards of the actions that count and are named in the modules. An invoice is drawn over two
tickets that are sent back and archived, and over one that is edited by two calls, or overridden,
drafted and archived. One document suffices, since nothing compares two; two reviews may be
between their commit and their count (`ReviewLimit`). The board has one ticket and three scenes:
the course of a ticket with its review and the prefill of it; overrides in the middle of that
course; the costs dialog with its three requests, of a representative who holds the ticket or
does not.

**What is excluded by history.** Some properties hold only of histories in which a known race
did not happen, and say so: the badge while no message and answer `crossed`, currencies that
came about in `calm`, figures of an answer that was `StillTrue`. For those races section 5 has
what happens instead. `BellsAreHeard` does not ask that an account switched off in the middle be
told, and `CaseEventLimit` is too small for a drift that is resolved twice (`CaseStoryTold` is
proved for any).

Requests, sessions, payments and representatives are interchangeable and the runs that
check safety use that symmetry; `answers` and `desk`, which check liveness, use none. Runs
end when all requests are served or a limit is reached, so deadlock checking is off; that
no request is stuck is what the liveness properties say.

**Fairness.** `FairSpec` of the ledger gives every request in flight weak fairness of its
next step, and `BreakDeadlock` weak fairness. The first holds because Node resumes every
pending continuation and PostgreSQL grants row locks in the order of its queue; the
second is PostgreSQL's deadlock detector, which the code relies on (it has no retry:
the victim's request fails). `DeskSpec` has weak fairness of what a program does next by
itself: the server answers a refresh or a call, and the promise of a refresh settles, also
when it was lost (a fetch rejects in the end); the scheduler starts the daily job and the
job goes on to its next ticket; a committed completion goes on to the held notice; a
request for courts is answered, well or not; the requests of a board's run and of its
prefill are answered or fail. No fairness is assumed of users, arrivals, crashes, failures
or `Abort`. The gateway, the workflow and the components of `office`, `records` and
`messages` have no liveness properties: nothing in the code makes a consumer finish a
checkout, an admin review, or a lost message arrive.

## 4. Proofs

Every theorem is about the specification the runs check, for any values of the constants
that satisfy the module's assumption. The assumptions say what TLC's instances and the
database have in common: amounts and prices are natural numbers, the scenes name existing
tabs and consumers, and the sets that are summed or counted are finite. TLC evaluates each
of them on a run. Rates are at least one rupee for a dollar on the pay page, and a split ticket
of some total has a base, as intake computes the one from the other. The API starts with rows of
tours of the first version only, there being no other. The data set of the geography lists each
place after its parent, and every court of the file (`pakistan-courts.json`, 723 entries) is of a
city that the data set (`pakistan-geo.json`) has in the court's province, by its name or an alias.
The dollar rows that the seed of the price list writes (`usd-pricing.ts`) are one for each flow,
court, region and band, without a set type, and a flow either has bands or has none. The forms
are those of flows that have one.

### The wallet

`WalletLedgerProofs`, from `LedgerAssumption`:

| Theorem | Statement |
|---|---|
| `LedgerInvariant` | `Spec => []IInv` |
| `TypeCorrect` | `Spec => []TypeOK`; no balance and no amountPaid is ever negative |
| `BalancesAreBacked` | `Spec => []BalanceBacked` |
| `BooksAreBacked` | `Spec => []BooksBacked` |
| `LocksProtectReads` | `Spec => []LockDiscipline` |
| `TopupsDecidedOnce` | `Spec => DecisionIsFinal`: a decided row is not rewritten, and only the step that verifies a pending row credits its owner, by its amount |
| `PaymentsStayWithinPrice` | `Spec => NoOverpayment` |
| `RemainderFinalizedOnce` | `Spec => FinalizedOnce` |

`IInv` is `TypeOK`, `TopupsOwned`, `BalanceBacked`, `BooksBacked` and
`LockDiscipline`. The balance equation alone is not inductive: `SettleCommit` writes
an absolute balance computed several steps before, and that this is still right
follows only from `LockDiscipline`, which says of every request between two of its
statements which rows it holds and that what it read of them is still so (the
balance it counts down, the pending top-up, the room under the total of every
ticket in `ded`). `TopupsOwned` is needed for the row that verification names its
user by. The proof has one lemma per operation, over frame lemmas for the steps
that touch no table, take a lock, write one ticket or commit; the action properties
follow from `IInv` and the two lemmas that say which steps leave top-ups and
paid amounts alone.

In the second half of the module:

| Theorem | Statement |
|---|---|
| `ConservationInvariant` | `Spec => [](IInv /\ CInv)` |
| `NoMoneyIsLost` | `Spec => []MoneyConserved` |
| `RequestsMoveMoneyAtomically` | `Spec => MovesMoneyAtomically`: the ledger implements `MoneyAccounts` |

`IInv` compares each column with its own rows. `CInv` relates the two sets of rows: the
debits and surpluses of a wallet are those booked on its own tickets, its top-ups the
verified rows (`RowsAgree`). That needs, of every request under way, that what it has
spent is the sum of what it will debit, that these are tickets of the user it locked
(`Tally`), and that a verification credits the owner of the top-up (`VerifiesOwn`). The
refinement has one lemma for each commit: a settlement, a payment, a finalization, a reprice
and a receipt are each one movement, a call of another kind is one movement or a stutter, and
every other step is a stutter.

`SumTheorems` has what these proofs use about `SumFunctionOnSet`: the sum over a finite
set plus or minus an element, of two functions that agree, of a function changed at one
point, of a difference, of two disjoint sets, of the sums of the groups of a partition, its
bounds. The community modules define it by a recursive function
that takes elements in the order of `CHOOSE`. Induction on the size of the set is done
with `WFMin` (a set of counterexamples would have a least element), which needs no
operator parameter.

### The payment gateway

The last part of `MessagesProofs`, from `GatewayAssumption`:

| Theorem | Statement |
|---|---|
| `GatewayInvariant` | `Spec => []GInv` |
| `GatewayTypeCorrect` | `Spec => []TypeOK` |
| `CreditsMatchSessions` | `Spec => []FlipIsForItsSession` |
| `OutcomesAreFinal` | `Spec => OutcomeIsFinal` |
| `CreditedExactlyOnce` | `Spec => []CreditedOnce` |

`GInv` adds two facts to `TypeOK` and `FlipIsForItsSession`: a request about to insert
a row is the only one that knows its transaction id and no row has it
(`CreateIsFresh`; without it the insert could overwrite a payment that a webhook is
crediting or one already decided), and a webhook's transaction names an existing
payment (`FlipNamesPayment`). `CreditedOnce` then follows step by step: the conditional
update adds one payment to the successful ones in the step that credits it, and no other
step changes that set or the amount of a payment in it.

### The workflow of a ticket

`TicketWorkflowProofs`, from `WorkflowAssumption`:

| Theorem | Statement |
|---|---|
| `WorkflowInvariant` | `Spec => []WInv` |
| `WorkflowTypeCorrect` | `Spec => []TypeOK` |
| `HistoryHasNoGap` | `Spec => []HistoryChain` |
| `OneRepresentativeAsked` | `Spec => []OneActiveAssignment` |
| `EveryMoveIsAllowed` | `Spec => MovesAreAllowed` |
| `FinalBillStays` | `Spec => FinalBillKept` |

`WInv` is `TypeOK`, the chain of the history together with its first row, one active
assignment, and `ReadsHold`. Requests are validated on an unlocked read, so `ReadsHold` says
what is left of that validation when they write: the transition is listed for the status
that was seen, which the conditional update compares again, and the gate of a delivery, once
passed, stays passed, because a dispatch is never undone. The last conjunct is what
`MovesAreAllowed` needs; it does not say that the payment gate holds, and it does not (run
`delivered_unpaid`).

### Intake

`IntakeProofs`, from `IntakeAssumption`:

| Theorem | Statement |
|---|---|
| `FormsSubmittedOnce` | `IntakeSpec => []SubmittedOnce` |
| `PromosCounted` | `IntakeSpec => []PromosAreCounted` |

`SubmittedOnce` says that the tickets of one form are one ticket and that its attachment is
not uploaded twice; the way there leads over the idempotency keys. `NInv` is the shape of
the rows, the two properties of promo codes and `Core`, with these parts. `KeysMatch`: of
everything that carries a key (an open wizard, a request in flight, a ticket) a form has one
key and a key one form, and no two tickets have the same key, the unique index of the
table. `FormsApart`: no two tabs show the same form and every request was sent from the tab
of its form. `FormsSuffice`: every handler that will reset its form has a number left for it.
`OneHandler`: a tab whose buttons are disabled has one handler under way, which is why the
resubmission of a form after a lost answer carries the first key. `TicketsKnown`: an answer names
a ticket with the key of its request. `UploadsOnce`: once the attachment of a ticket was sent,
no submission of its form is waited for and no wizard shows its form but the one that waits
for the upload. The limits of a promo code hold because the transaction counts under the lock of
the code's row; every discount in a ticket is a row of the redemptions.

### Accounts, elections, files, invoices and the geography

| Theorem | Module | Statement | Assumption |
|---|---|---|---|
| `CurrencyKept` | `OfficeProofs` | `AccountSpec => []CurrencyIsKept` | `AccountAssumption` |
| `BallotSound` | `OfficeProofs` | `ElectionSpec => []BallotIsSound` | `ElectionAssumption` |
| `CabinetCounted` | `OfficeProofs` | `FilesSpec => []CabinetIsCounted` | `FilesAssumption` |
| `InvoicesSound` | `OfficeProofs` | `InvoicingSpec => []InvoicesAreSound` | `InvoiceAssumption` |
| `GeographySeeded` | `OfficeProofs` | `GeoSpec => GeographyIsSeeded` | `GeoAssumption` |

* *Accounts.* `AInv` adds to the property that a ticket which was never archived is live, and
  that an edit which has passed the lock and will write a currency met nothing to keep, which
  is still so: what came later came while an edit was under way, so it is not `calm`.
* *Elections.* `EInv` adds that the vote rows are finitely many (the counts are compared with
  their cardinality) and only for listed candidates, that a request about to insert has read a
  listed candidate, and that the seats computed by a finalization are one a position.
* *Files.* `FInv` has, besides the usage row and the rows, what is not counted yet: every
  upload that has passed the check of the quota works on an id of its own, and the bytes that
  are counted plus those still to come are at most the quota and one largest file for each
  *other* job (`PendingFits`). The bound on the overshoot is not inductive without it. Each
  check is made against the counted bytes only, so the check of one upload admits at most
  one file beyond the quota; the sum over the jobs gives the bound.
* *Invoices.* `VInv` adds that the phase-2 amount a ticket would be billed for is nothing, or
  what an administrator wrote last, or `loose` (`RowIsGood`), of the tickets, of the rows read by
  a call of `generate`, and of those printed on an invoice, and that the columns an edit will write
  are amounts. The step to look at is a submission: it changes the amount and is refused
  on final charges by its own update. That a ticket is on one invoice follows from the unique
  index at the commit.
* *Geography.* `GInv` (in `OfficeProofs`) says that a job runs only when all before it are over
  (`Serial`), from which it follows that a job which found no row and is about to create one
  repeats none of another job (`NewRow`): only an administrator can have come in between. Of a
  job whose run no deletion disturbed, the rows it has passed are there, each below its parent
  (`RowsAreThere`), and of the entries of the court file it has passed each has a seat in its own
  province (`SeatsAreThere`). The last needs that a seat is only replaced by another of the
  same court and city, and that the lookup of a city (`resolve`) tries its own province first. A clean tree, cached or being built,
  is the tree of the rows while nothing waits that could write (`TreesAreClean`).

### Bells, figures and tours; cases, pay page, prices, forms and screens

| Theorem | Module | Statement | Assumption |
|---|---|---|---|
| `BellsHeard` | `MessagesProofs` | `BellSpec => []BellsAreHeard` | `BellAssumption` |
| `BadgeTrue` | `MessagesProofs` | `TabSpec => BadgeIsTrue` | `TabAssumption` |
| `FiguresSound` | `MessagesProofs` | `SummarySpec => []FiguresAgree` | `SummaryAssumption` |
| `ToursPlayed` | `MessagesProofs` | `TourSpec => ToursPlayOnce` | `TourAssumption` |
| `CaseStoryTold` | `RecordsProofs` | `CaseSpec => []CaseTellsItsStory` | `CaseAssumption` |
| `PaysDue` | `RecordsProofs` | `PaySpec => PaysWhatIsDue` | `PayAssumption` |
| `PricesSound` | `RecordsProofs` | `PriceSpec => []PricesAgree` | `PriceAssumption` |
| `FormsAgree` | `RecordsProofs` | `PaperSpec => []PageMatchesServer` | `ChangeAssumption` |
| `NumbersSound` | `RecordsProofs` | `ViewSpec => []NumbersAgree` | `ViewAssumption` |

* *Bells.* A bell that was written and one that is about to be are one number (`Bell`), at most
  one for an account. `BInv` follows a dispatch through its audiences: after the first of two
  only the payer, the consumer or the new representative has one, and the second leaves that
  account out or cannot contain it; after the last every steady account that decides on the
  event has one. That the audience of the event contains those accounts (`DecidersAre`) is the
  comparison of the dispatcher's table of audiences with the table of permissions. Of a refusal
  it says that the log was not empty when the dispatch began, and the last line of it is the admin
  who is told.
* *Badge.* `TabInv` says, while nothing has crossed (`Kept`): messages and requests are not under way
  together; as long as the number is asked for only lists are asked for too; and afterwards the
  badge and the messages to come add up to the unread rows and the clicks still to be answered,
  unless everything has been marked or cleared (`Counted`). A click that is
  answered after "Read all" takes nothing off a badge that is zero already. The second half is about
  the order of `findAll`, stated by the place of each row: the greatest unread one has the first
  place (`FirstIsUnread`), so a menu of one line or more shows it.
* *Figures.* `SInv`: a read or a kept figure that no change has crossed is the figure of the
  tickets as they are, and a submitted ticket waits for approval unless it was moved by hand.
  The rest are lemmas about sums and counts of one set of tickets: that the statuses add up
  (`StatusesAddUp`), that the lists of the links contain what is counted, and that the debts of a
  part are at most all debts (`AgedIsAPart`, from `SumMonotone`).
* *Tours.* `ToursPlayOnce` is one invariant and three action properties. `TInv` says that every
  row in the API, the queue, a save or the page was earned by a tour that ended; that an end
  which was answered or queued (`settled`) stays in the API or in the queue, and in what the open
  page knows of them (`Remembers`); that a flush in progress has saved what it has passed, or
  will queue it again (`Flushes`); and that a pending timer of a tour nobody asked for is right
  when it fires (`TimerIsRight`). `Flushes` is what makes the merge of the queue after a flush
  keep the failed save of a tour that ended meanwhile.
* *Cases.* What a case shows is a fold, over its log for the pending drifts and over the rules its
  tickets call for. The folds of the community modules are recursive functions; that they can
  be followed index by index is proved here by a construction of the function
  (`FoldExists`, `FlatExists`), from which come `DriftsAreLatest` and `BestAreStrongest`: the
  result of the fold is what the declarative property says, for every log and every order of
  the tickets. `CaseInv` is the type of the rows and of what each request will write, with the
  closing date of a change of status decided when the row is read.
* *Pay page.* `PayInv` says that the open page shows the ticket as it is or as it was (`Shows`:
  paid only grows, the total changes only by the one finalization), that an untouched claim is
  for what was due of the row its page showed, and the two bounds. `RoundTrip` is the
  arithmetic: a sum in cents, rounded to paisa in rupees and divided by the rate again, is the
  same sum for any rate of a rupee or more. The attempt to prove that such a claim always
  settles the ticket failed on split tickets discounted to nothing, which is now a line of
  section 5 and a condition of `ClaimSettles`.
* *Prices.* `PriceInv` is the type of the rules. The offer of a set type and its price look the rules
  up in one order (`TierIs`), so a rule found for the one is found for the other. A dollar price is
  one price because the first two lookups find at most one row there while the dollar rows are as
  the seed writes them (`FlatList`), whatever is done to prices, switches and rupee rules. The
  attempt to prove both for every list failed on rows moved by the dialog and on the last
  fallback, which are now two lines of section 5 and conditions of `OfferedIsPriced` and
  `UsdPriceDetermined`.
* *Forms.* `PaperInv` says that a form holds choices of its own flow, has a court just when the
  flow is judicial, and was never refused. For each step of the wizard (identity, details, set
  types, delivery) a lemma shows that what the page requires fills what the server requires of
  that flow, through the values that the page derives before it sends (year, set types), and
  `NothingMissing` joins them.
* *Screens.* `ViewInv` is the type of the columns and of the assignment rows; the rest is about sums
  and counts of one set of tickets. Each ticket with a live assignment is of exactly one
  representative, the newest (`NewestLive`), so the rows of the drill-down add up to the figure
  by groups (`SumByGroups`); what is owed is a part of what the representative's own dashboard
  counts (`SumMonotone`); a list has as many rows as tickets (`RowsAreTickets`).

### Sessions, hearings, documents, the intake form and the board

| Theorem | Statement | Assumption |
|---|---|---|
| `SessionsSafe` | `SessionSpec => []SessionTypeOK /\ []GuessesBounded` | `SessionAssumption` |
| `HearingsSafe` | `HearingSpec => HearingsAreKept` | `HearingAssumption` |
| `DocumentsSafe` | `DocSpec => []DocumentsAreHeld` | `DocAssumption` |
| `FormSafe` | `FormSpec => []FormIsCurrent` | `PickerAssumption` |
| `BoardSafe` | `BoardSpec => BoardIsReliable` | `BoardAssumption` |

All in `DeskProofs`. `MCDesk` moves one of the five components in a behaviour; the theorems are
about each component by itself, as `HearingSpec` and its likes state it.

* *Sessions.* `GuessInv`: the wrong codes compared with a code are those counted as attempts and
  one for each request that has compared and not yet counted. A request compares only while
  the count is below the maximum, and is then itself one of those still to count, which gives
  the bound; without the second term it is not inductive.
* *Hearings.* `HearInv` adds that a ticket without a next hearing has no previous one, that the two
  dates differ, and that what a call under way will leave behind is the date of the docket as
  it is now. The last rests on one call of `recordNextHearing` being out at a time (section 5
  names what two may do).
* *Documents.* `DocInv` says of the ticket that what is completed was completed by somebody and
  stays so until it is reopened (`TicketIsTrue`), of a document that a completed status its upload
  has read was that of the ticket (`DocIsTrue`), and that after a review has counted every
  visible document that is not excused has its bell or an upload about to ring
  (`Heard`). The last is not inductive without the upload that carries the status with it.
* *Intake form.* `PickerOK` says that the courts listed are those of the city, or none, or the list of
  another city which is being replaced and from which nothing can be chosen, because no service is
  chosen while courts load; and `AnswersFit` that the latest request is about the city of the form,
  and that the one request which leaves the list when it fails finds the list of that city.
  The effects of a render (`reconcile`, `autoSelect`) keep both, whatever they are given. The
  one exception, in the property and in the theorem, is `mixed`: a draft that arrives while
  another city's list is shown leaves its own city beside that list.
  `PreviewInv` adds that the set types known to be on offer are those of the edit they were asked for.
* *Board.* `RunFits`: a submission that has come to a step has done the ones before it, for its own
  ticket, and no step of anybody takes that back (`RowStep`: a page charge, a date and a receipt
  are never lost). `Ordered`: a ticket that was never overridden is final only when it is completed,
  and has an assignment to accept while it is ASSIGNED. That what is offered is accepted, but for
  the four cases of the property, is then a comparison of the two tables for one row
  (`OfferedRow`).

### Only model-checked

* Every liveness property (`RequestsEnd`, and what `EverybodyIsAnswered` adds to the safety of
  sessions): they rest on fairness and `ENABLED`, which the prover does not handle.
* `PortalServes`: it compares the tables of permissions with each other, and what it shows is in
  their finitely many entries, which TLC enumerates; a proof would repeat the enumeration.
* The four runs that end in a violation.

## 5. Disagreements between the code and what it says of itself

Four are runs that end in a violation, with the line they contradict quoted in
`PROJECT.json`:

* `delivered_unpaid`: the payment gate of `updateStatus` is evaluated on an unlocked
  read; a finalization in between raises the total and the ticket is delivered unpaid.
* `double`: a wallet payment during an open checkout session is charged again.
* `accepted`: a rejection and a new assignment in between leave the status ASSIGNED,
  so `acceptAssignment` accepts the rejected assignment by its id.
* `draft_charges`: `saveClerkCharges` does not look at `remainderFinalizedAt`.

The models also show the following, each a behaviour of the specifications above
that is reached within a few steps; no run is kept for them.

*Money and workflow*

* `clearPendingTickets` does not re-read `archivedAt` under the lock, so a ticket
  archived after the listing is debited (`wallet.service.ts:759`: "never auto-settle
  an archived ticket").
* `updateCharge` checks the new total against an unlocked `amountPaid`
  (`finance.service.ts:399`: "the total may never drop below").
* `repriceTicket` checks DELIVERED before its locks only (`tickets.service.ts:4204`).
* `initiate` cancels and inserts in separate statements, so two tabs leave two live
  payments (`payments.service.ts:55`: "Only ONE live payment per ticket").
* `assign` writes a total computed from its unlocked read over that of a reprice
  committed meanwhile (`tickets.service.ts:1611`).
* `STATUS_TRANSITIONS` lets `updateStatus` move a PAID ticket to ASSIGNED without an
  Assignment row (`tickets.service.ts:1576` says it cannot).
* A discounted ticket stays UNPAID when its quoted total is paid, because the base
  gate compares with `serviceCost` (`wallet.service.ts:858`); the pay page asks a
  discounted SPLIT ticket for the undiscounted base.
* `reconcilePayment` takes Ticket before User, against the lock order stated at
  `wallet.service.ts:528`; the requests can deadlock, and `RequestsEnd` needs
  `BreakDeadlock`.
* A one-time ticket whose service is paid and whose tax is not is offered no Pay button
  (`consumer-ticket-board.tsx:421`); one of total zero is offered one, and if a promo made
  it so, the page asks for its undiscounted base (`pay/page.tsx:49`) while the settlement
  skips it (`wallet.service.ts:798`): what is paid stays in the wallet. After a finalization
  the wallet may pay more than the open page showed. A lost answer to a claim leads to a
  second claim for the same transfer.

*Intake, accounts, invoices, files, cases*: the formulas are in the modules under these
names, and TLC finds them violated:

* `Intake!NoPhantomDraft`: a save that looked for a recent ticket before the submission
  committed brings the draft back afterwards; the draft of a CNIC search, whose flow the
  submission changes, is not deleted. A reload during a submission takes a new
  idempotency key, so the resumed form can become a second ticket.
* `Accounts!NoMixedLedger` (`users.service.ts:265`): the lock is read before the edit is
  written; tickets from `generateNextHearing` and restored ones are outside it.
* `Invoicing!NoErosion`: the tax is computed on the summed base, so a large discount of
  one ticket still lowers the tax on another.
* What an invoice bills is not always what an administrator has approved, the comment says it is
  (`invoices.service.ts:151`: "the clerk's phase-2 PROPOSAL until the admin's
  reviewAndComplete stamps remainderFinalizedAt"): a representative's draft
  (`saveClerkCharges`) changes the columns of a ticket that is final, and an edit of the finance
  desk or a reprice writes back the charges it read before somebody else wrote.
  `Invoicing!ProposalNeverBilled` excepts those rows (`loose`). A ticket that was sent back
  is IN_PROGRESS and passes the guard of `generate` (`invoices.service.ts:138`), billed for its
  base alone.
* `PersonalFiles!LiveFilesHaveBytes`: a failing audit row after the commit makes the catch
  block delete the bytes of a row that exists.
* Of two calls of `recordNextHearing` at once, both leave behind the date that was there before
  either, and the date of the first is lost (`tickets.service.ts:3988`); `Hearings` therefore
  lets one call be out at a time.
* `CaseRecords!FillOnly` (`tickets.service.ts:3841`): the write-back fills from a row read
  earlier and overwrites a value entered meanwhile.

*Prices and figures*

* With the band that was asked for and the current one both switched off, a dollar price is taken
  from whichever of the flow's other bands the database returns first: their years are null, so
  all of them pass the fallback by year (`usd-pricing.ts:98-99`: "the legacy yearFrom/yearTo
  fallback is never reached for them").
* The dialog of the price list may move a dollar row to the court of another: the unique key of the
  dimensions does not refuse it, as the set type of both is null (`schema.prisma:669`), and the
  price depends on the order of the rows. A dollar row given a set type is offered with it and
  priced without it, so no rule is found.
* Rupee rules of equal priority are taken in the database's order; a rule without a set
  type keeps "Can't Get" types on offer; Submit within the 400 ms of the debounce shows
  the older price.
* `clerk_submitted` counts submitted tickets in any status although the link opens those
  waiting for approval (`dashboard.service.ts:837`: "by construction").
* The outstanding balance is floored once, the aged one ticket by ticket
  (`dashboard.service.ts:780`, comment at 789); `myOutstanding` is not floored.
* Top paralegals count rejected and superseded assignments, `getClerkSummary` the tickets
  of former representatives, `reports.run` archived tickets; `listPayouts` sums the newest
  100, My Tickets counts the newest 200.
* `getTaxConfig` reads its two keys apart, across `setTaxConfig`'s transaction.

*Documents*

* The notice of a held document is released by the review only. A ticket that is completed by
  `updateStatus`, in bulk or by `overrideStatus` shows its documents and never announces them
  (`tickets.service.ts:3581`: "Called once the ticket reaches a terminal state").
* An upload that read the ticket before the review and stores its row after the review has
  counted is announced by neither (`tickets.service.ts:2060`); nor is a document that is hidden
  and shown again. These are what `excused` stands for.
* The list and the download do not look at `archivedAt`, the ticket does
  (`documents.service.ts:60`: "same gate as redactTicketForConsumer"). A notice written
  after the sweep of an archiving leads to a ticket that is not found, although its document
  downloads (`tickets.service.ts:1938`: "archiving a ticket must take its notifications
  with it").

*The ticket board*

* After an override back from COMPLETED the board offers to update the costs of a ticket
  whose charges are final, and the server answers 409 (`ticket-board.tsx:1791`: "blocked only
  once remainderFinalizedAt is set"). After an override to ASSIGNED it offers to accept
  an assignment that does not exist or was answered.
* `findAll` withholds the charges from representatives (`tickets.service.ts:438`), so
  `hasSubmittedClerkCosts` only ever sees WAITING_APPROVAL: of a ticket that was sent back the
  button is not labelled as a resubmission (`ticket-board.tsx:1794`: "the label makes a
  resubmission obvious"), and "Submit to Admin" is not offered.
* A representative is listed every ticket ever assigned to them (`tickets.service.ts:395`), so
  one who rejected or was superseded is offered buttons that answer 403.
* The select treats PAID to ASSIGNED as the normal next step, asks nothing, and leaves an ASSIGNED
  ticket without an Assignment (`tickets.service.ts:188` keeps that from `updateStatus`).
* The bulk completion answers "accepted" and the page says "Bulk action applied" although
  every ticket of it failed (`ticket-board.tsx:794`). Review & Complete of a ticket whose charges
  are final ignores what was typed without saying so.

*Pages*

* The dialogs of the board may be filled by the answer for another ticket; a stale row
  and a failed fetch zero the delivery charge; a retried upload sends the first files
  again; `generateNextHearing` has no busy guard; Confirm Delivered is offered although
  money is due, and the option DELIVERED of the select although it is or nothing was dispatched. `useGeo.loadDistricts` has no sequence guard.
* A regenerated ticket opens without its court: `buildRegeneratePayload` does not copy
  `select_court_type` (`intake-wizard.tsx:764`: "The edit/regenerate/future prefill effects
  write draft.payload (incl. select_court_type)").
* `PATCH /users/me` and `/users/me/password`, which the profile pages call, have no
  handler; the sidebar of the staff is not filtered by permission, so lead-admins,
  managers and investors are offered pages and buttons that are refused. A session that
  ends by itself leaves the stash of the impersonator (`shell-nav.tsx:53`). An impersonation
  that ends on a page of the consumers, by signing out or with a stash that has expired, ends
  at the sign-in page of the consumers (`consumer-topbar.tsx:14`). The
  dashboard's range has no guard against late answers.
* A lead-admin is told of submitted payments and may not open the wallet. A refusal
  before the audit row of its assignment reaches nobody, or an earlier assigner. The
  badge drifts when messages and answers cross; live bells have no link until the menu
  is loaded; an override notifies nobody.
* The switch of the tours used while the progress is loading is undone by the answer,
  is not queued when its save fails, and is written while impersonating.

*Geography*

* The seats of special courts are looked up by city name over all provinces, so those of
  Nasirabad (Balochistan) and Mirpur (AJK) may be seated at the city of the same name
  elsewhere; `COURT_CITIES` has plural keys where `SPECIAL_COURTS` is singular, so the
  cities of special courts are empty; a tree built during a seed is served for up to
  five minutes.

## 6. Not modelled

* *Platform*: health, configuration, Prisma, common code. Row locks, rollback and process
  ends are external definitions of the modules that need them.
* *Output*: wording, e-mail, documents and exports, audit rows (except where the
  dispatcher looks for the assigning admin), logs.
* *Constant data*: the catalogues of services and case types, the rows of the geography.
* *Single-row CRUD*: settings, payment settings, promo and pricing administration beyond
  what it changes for others, boards that list and edit one row at a time, payouts (rows
  of the audit log that nothing else reads), trends, mixes and rankings of the dashboard.
* Rounding to paisa outside `PayPage`; a price change during a gateway session (the total
  of `PaymentGateway` is a constant); more than one tab of the portal or of a bell.
* In `WalletLedger` a review is represented by `finalizeRemainder`, which runs the same core.

## 7. Plan

1. *Done.* The money core: `WalletLedger`, `MoneyAccounts`, `PaymentGateway`,
   `TicketWorkflow`, and the inductive invariants of the ledger and the gateway.
2. *Done.* The rest of the platform: the modules of `office`, `records`, `desk` and
   `messages`.
3. *Done.* Proofs for the money, the workflow, intake, accounts, elections, files,
   invoices, the geography, bells, the dashboard, tours, cases, the pay page, prices, forms,
   screens, sessions, hearings, documents, the intake form, the board and the badge (section 4).
