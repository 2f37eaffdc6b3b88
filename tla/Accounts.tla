------------------------------ MODULE Accounts ------------------------------
(***************************************************************************)
(* The account of one consumer and its billing currency: UsersService,     *)
(* signup and completeProfile of AuthService, and the operations of        *)
(* TicketsService that stamp a currency on a ticket (intake, regenerate,   *)
(* generateNextHearing) or take tickets out of the lock (archive, restore).*)
(* "Currency locks once the account is active": an edit re-derives it only *)
(* when it reads no live ticket and no balance, and writes it later.       *)
(***************************************************************************)
EXTENDS Integers, Sequences

CONSTANTS
    AccountReq,             \* requests that overlap
    AccountScenes           \* the sets of operations that are explored together, and
                            \* with how many tickets

ASSUME AccountAssumption == \A s \in AccountScenes : s.tickets \in Nat

VARIABLES account, accountTicket, purse, accountReq, accountScene

accountVars == <<account, accountTicket, purse, accountReq, accountScene>>

Region == {"none", "PK", "other"}
Currency == {"PKR", "USD"}
AccountRow == [phone : Region, country : Region, currency : Currency]
\* origin, kept and calm are history: how the ticket came about, whether it has never
\* been archived, and whether no edit of the account was under way when it was stamped.
AccountTicketRow == [currency : Currency, archived : BOOLEAN, scheduledDate : BOOLEAN,
                     origin : {"intake", "regenerated", "hearing"},
                     kept : BOOLEAN, calm : BOOLEAN]
PurseRow == [balance : BOOLEAN, currency : Currency, calm : BOOLEAN]

AccountReqRow == [op : {"none", "edit", "intake", "regenerated"}, phone : Region,
                  country : Region, currency : Currency \cup {"keep"}]
IdleAccountReq == [op |-> "none", phone |-> "none", country |-> "none", currency |-> "keep"]

\* The dial code decides; the country only when there is no phone.
deriveCurrency(phone, country) ==
    LET region == IF phone # "none" THEN phone ELSE country
    IN  IF region \in {"PK", "none"} THEN "PKR" ELSE "USD"

\* signup takes phone and country; create and createRepresentative only a phone.
AccountInit ==
    /\ \E phone, country \in Region :
          account = [phone |-> phone, country |-> country,
                     currency |-> deriveCurrency(phone, country)]
    /\ accountTicket = <<>>
    /\ purse = [balance |-> FALSE, currency |-> account.currency, calm |-> TRUE]
    /\ accountReq = [r \in AccountReq |-> IdleAccountReq]
    /\ accountScene \in AccountScenes

Editing == \E r \in AccountReq : accountReq[r].op = "edit"
AccountTickets == DOMAIN accountTicket
AccountRead(r, op, next) ==
    /\ op \in accountScene.ops
    /\ accountReq[r] = IdleAccountReq
    /\ accountReq' = [accountReq EXCEPT ![r] = next]
    /\ UNCHANGED <<account, accountTicket, purse, accountScene>>
AccountDone(r) == accountReq' = [accountReq EXCEPT ![r] = IdleAccountReq]

-----------------------------------------------------------------------------
\* Mutant: only the balance is looked at.
locked_BalanceOnly == purse.balance
locked == (\E i \in AccountTickets : ~accountTicket[i].archived) \/ purse.balance

Pick(new, old) == IF new # "none" THEN new ELSE old

\* UsersService.update: an administrator's edit re-derives on every unlocked edit.
UpdateUser(r) ==
    \E phone \in Region :
        AccountRead(r, "edit",
            [IdleAccountReq EXCEPT !.op = "edit", !.phone = phone,
               !.currency = IF locked THEN "keep"
                            ELSE deriveCurrency(Pick(phone, account.phone), account.country)])

\* completeProfile: re-derives only when the edit touches phone or country.
CompleteProfile(r) ==
    \E phone, country \in Region :
        AccountRead(r, "edit",
            [IdleAccountReq EXCEPT !.op = "edit", !.phone = phone, !.country = country,
               !.currency = IF locked \/ (phone = "none" /\ country = "none") THEN "keep"
                            ELSE deriveCurrency(Pick(phone, account.phone),
                                                Pick(country, account.country))])

WriteAccount(r) ==
    LET q == accountReq[r] IN
    /\ q.op = "edit"
    /\ account' = [account EXCEPT !.phone = Pick(q.phone, @), !.country = Pick(q.country, @),
                                  !.currency = IF q.currency = "keep" THEN @ ELSE q.currency]
    /\ AccountDone(r)
    /\ UNCHANGED <<accountTicket, purse, accountScene>>

NewTicket(currency, origin) ==
    [currency |-> currency, archived |-> FALSE, scheduledDate |-> FALSE, origin |-> origin, kept |-> TRUE, calm |-> ~Editing]

\* createIntakeTicket reads the consumer's currency, prices, and then inserts.
ReadForIntake(r) ==
    AccountRead(r, "intake", [IdleAccountReq EXCEPT !.op = "intake",
                                                    !.currency = account.currency])

InsertTicket(r) ==
    LET q == accountReq[r] IN
    /\ q.op \in {"intake", "regenerated"}
    /\ Len(accountTicket) < accountScene.tickets
    /\ accountTicket' = Append(accountTicket,
         [NewTicket(q.currency, q.op) EXCEPT !.calm = @ /\ account.currency = q.currency])
    /\ AccountDone(r)
    /\ UNCHANGED <<account, purse, accountScene>>

\* regenerate copies the original's currency: "this equals their current currency".
ReadForRegenerate(r) ==
    \E i \in AccountTickets :
        AccountRead(r, "regenerate", [IdleAccountReq EXCEPT !.op = "regenerated",
                                                            !.currency = accountTicket[i].currency])

\* bulkAction ARCHIVE and RESTORE.
ArchiveOrRestore ==
    \E i \in AccountTickets :
        /\ "archive" \in accountScene.ops
        /\ accountTicket' = [accountTicket EXCEPT ![i].archived = ~@, ![i].kept = FALSE]
        /\ UNCHANGED <<account, purse, accountReq, accountScene>>

\* A top-up is credited in the account's currency; a payment spends the balance.
CreditOrSpend ==
    /\ "wallet" \in accountScene.ops
    /\ purse' = [balance |-> ~purse.balance, calm |-> ~Editing,
                  currency |-> IF purse.balance THEN purse.currency ELSE account.currency]
    /\ UNCHANGED <<account, accountTicket, accountReq, accountScene>>

\* recordNextHearing (Hearings has its dates).
HearingRecorded ==
    \E i \in AccountTickets :
        /\ "nextHearing" \in accountScene.ops
        /\ accountTicket' = [accountTicket EXCEPT ![i].scheduledDate = TRUE]
        /\ UNCHANGED <<account, purse, accountReq, accountScene>>

\* generateNextHearing names no currency: the column's default is PKR.
GenerateNextHearing ==
    \E i \in AccountTickets :
        /\ "nextHearing" \in accountScene.ops
        /\ accountTicket[i].scheduledDate
        /\ Len(accountTicket) < accountScene.tickets
        /\ accountTicket' = Append(accountTicket, NewTicket("PKR", "hearing"))
        /\ UNCHANGED <<account, purse, accountReq, accountScene>>

AccountReqDies(r) ==
    /\ accountReq[r] # IdleAccountReq
    /\ AccountDone(r)
    /\ UNCHANGED <<account, accountTicket, purse, accountScene>>

AccountNext ==
    \/ \E r \in AccountReq :
         \/ UpdateUser(r) \/ CompleteProfile(r) \/ WriteAccount(r)
         \/ ReadForIntake(r) \/ ReadForRegenerate(r) \/ InsertTicket(r)
         \/ AccountReqDies(r)
    \/ HearingRecorded \/ ArchiveOrRestore \/ CreditOrSpend \/ GenerateNextHearing

AccountSpec == AccountInit /\ [][AccountNext]_accountVars

-----------------------------------------------------------------------------
\* Properties.

\* Type correctness of the account, its tickets and the requests under way.
AccountTypeOK ==
    /\ account \in AccountRow
    /\ accountTicket \in Seq(AccountTicketRow)
    /\ purse \in PurseRow
    /\ accountReq \in [AccountReq -> AccountReqRow]

\* What the lock of UsersService.update and completeProfile does achieve: a ticket from
\* intake that has never been archived, and a balance, keep the currency of the account
\* through every later edit, unless they came about while an edit was under way.
LockHolds ==
    /\ \A i \in AccountTickets :
          LET t == accountTicket[i] IN
          (t.origin = "intake" /\ t.kept /\ t.calm) => t.currency = account.currency
    /\ (purse.balance /\ purse.calm) => purse.currency = account.currency

\* "an in-flight account can never end up with a mixed PKR/USD ledger".  The code does not keep it
\* (README, Disagreements).
NoMixedLedger ==
    /\ \A i \in AccountTickets :
          ~accountTicket[i].archived => accountTicket[i].currency = account.currency
    /\ purse.balance => purse.currency = account.currency

\* The rows keep their shape and the currency its lock, whatever overlaps.
CurrencyIsKept == AccountTypeOK /\ LockHolds
=============================================================================
