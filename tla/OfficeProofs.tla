---------------------------- MODULE OfficeProofs ----------------------------
(***************************************************************************)
(* Proofs about the account of a consumer, an election, the personal file  *)
(* cabinet, whose usage row the quota is checked against, the invoices,    *)
(* whose totals are sums over tickets, and the geography with its jobs:    *)
(* each for any number of requests that overlap, die or fail.              *)
(***************************************************************************)
EXTENDS Accounts, Elections, PersonalFiles, Invoicing, Geography, SequenceTheorems, SumTheorems

-----------------------------------------------------------------------------
\* Accounts.

\* Nothing that the currency lock protects.
NothingToKeep ==
    /\ \A i \in AccountTickets :
          LET t == accountTicket[i] IN ~(t.origin = "intake" /\ t.kept /\ t.calm)
    /\ ~(purse.balance /\ purse.calm)

\* A ticket that was never archived is live.
KeptIsLive == \A i \in AccountTickets : accountTicket[i].kept => ~accountTicket[i].archived

\* What a request has read: a currency to stamp, or one to write into an account
\* that had nothing to keep, and still has not.
ReadsAreGood ==
    \A r \in AccountReq :
        /\ accountReq[r].op \in {"intake", "regenerated"} => accountReq[r].currency \in Currency
        /\ accountReq[r].op = "edit" /\ accountReq[r].currency # "keep" => NothingToKeep

\* The inductive invariant.
AInv == CurrencyIsKept /\ KeptIsLive /\ ReadsAreGood

\* The rows of the requests.
LEMMA RequestRows ==
    /\ IdleAccountReq \in AccountReqRow
    /\ IdleAccountReq.op = "none"
    /\ \A q \in AccountReqRow : /\ q.op \in {"none", "edit", "intake", "regenerated"}
                                /\ q.phone \in Region /\ q.country \in Region
                                /\ q.currency \in Currency \cup {"keep"}
  BY DEF IdleAccountReq, AccountReqRow, Region, Currency

LEMMA Derived == \A p, c : deriveCurrency(p, c) \in Currency
  BY DEF deriveCurrency, Currency

LEMMA AccountsInit == AccountInit => AInv
  <1> SUFFICES ASSUME AccountInit PROVE AInv
    OBVIOUS
  <1>1. account \in AccountRow
    BY Derived DEF AccountInit, AccountRow
  <1>2. accountTicket = <<>> /\ AccountTickets = {} /\ accountTicket \in Seq(AccountTicketRow)
    BY DEF AccountInit, AccountTickets
  <1>3. /\ purse \in PurseRow /\ ~purse.balance
    BY <1>1 DEF AccountInit, PurseRow, AccountRow
  <1>4. /\ accountReq \in [AccountReq -> AccountReqRow]
        /\ \A r \in AccountReq : accountReq[r].op = "none"
    BY RequestRows DEF AccountInit
  <1> QED
    BY <1>1, <1>2, <1>3, <1>4
       DEF AInv, CurrencyIsKept, AccountTypeOK, LockHolds, KeptIsLive, ReadsAreGood

\* A request reads: it may leave with a currency to write only if nothing is kept.
LEMMA ReadInv ==
    ASSUME AInv, NEW r \in AccountReq, NEW op, NEW q \in AccountReqRow, AccountRead(r, op, q),
           q.op \in {"intake", "regenerated"} => q.currency \in Currency,
           q.op = "edit" /\ q.currency # "keep" => NothingToKeep
    PROVE  AInv'
  <1>1. /\ accountReq' = [accountReq EXCEPT ![r] = q]
        /\ account' = account /\ accountTicket' = accountTicket /\ purse' = purse
    BY DEF AccountRead
  <1>2. /\ AccountTypeOK /\ LockHolds /\ KeptIsLive /\ ReadsAreGood
    BY DEF AInv, CurrencyIsKept
  <1>3. AccountTypeOK'
    BY <1>1, <1>2 DEF AccountTypeOK
  <1>4. LockHolds' /\ KeptIsLive' /\ (NothingToKeep => NothingToKeep')
    BY <1>1, <1>2 DEF LockHolds, KeptIsLive, NothingToKeep, AccountTickets
  <1>5. ReadsAreGood'
    <2>1. \A o \in AccountReq : accountReq'[o] = IF o = r THEN q ELSE accountReq[o]
      BY <1>1, <1>2 DEF AccountTypeOK
    <2> QED BY <1>2, <1>4, <2>1 DEF ReadsAreGood
  <1> QED BY <1>3, <1>4, <1>5 DEF AInv, CurrencyIsKept

\* An account that is not locked has nothing to keep.
LEMMA Unlocked == ASSUME AInv, ~locked PROVE NothingToKeep
  BY DEF AInv, KeptIsLive, locked, NothingToKeep

LEMMA ReadsInv ==
    ASSUME AInv, NEW r \in AccountReq,
           \/ UpdateUser(r) \/ CompleteProfile(r) \/ ReadForIntake(r) \/ ReadForRegenerate(r)
    PROVE  AInv'
  <1>1. ASSUME NEW c \in Currency \cup {"keep"}, c # "keep" => ~locked,
               NEW q \in AccountReqRow, q.op = "edit", q.currency = c, AccountRead(r, "edit", q)
        PROVE  AInv'
    BY <1>1, ReadInv, Unlocked
  <1>2. CASE UpdateUser(r)
    <2>1. PICK phone \in Region :
            AccountRead(r, "edit",
              [IdleAccountReq EXCEPT !.op = "edit", !.phone = phone,
                 !.currency = IF locked THEN "keep"
                              ELSE deriveCurrency(Pick(phone, account.phone), account.country)])
      BY <1>2 DEF UpdateUser
    <2> DEFINE c == IF locked THEN "keep"
                    ELSE deriveCurrency(Pick(phone, account.phone), account.country)
               q == [IdleAccountReq EXCEPT !.op = "edit", !.phone = phone, !.currency = c]
    <2>2. c \in Currency \cup {"keep"} /\ (c # "keep" => ~locked)
      BY Derived
    <2>3. AccountRead(r, "edit", q)
      BY <2>1
    <2> HIDE DEF c
    <2>4. q \in AccountReqRow /\ q.op = "edit" /\ q.currency = c
      BY <2>2 DEF IdleAccountReq, AccountReqRow, Region
    <2> HIDE DEF q
    <2> QED BY <1>1, <2>2, <2>3, <2>4
  <1>3. CASE CompleteProfile(r)
    <2>1. PICK phone \in Region, country \in Region :
            AccountRead(r, "edit",
              [IdleAccountReq EXCEPT !.op = "edit", !.phone = phone, !.country = country,
                 !.currency = IF locked \/ (phone = "none" /\ country = "none") THEN "keep"
                              ELSE deriveCurrency(Pick(phone, account.phone),
                                                  Pick(country, account.country))])
      BY <1>3 DEF CompleteProfile
    <2> DEFINE c == IF locked \/ (phone = "none" /\ country = "none") THEN "keep"
                    ELSE deriveCurrency(Pick(phone, account.phone), Pick(country, account.country))
               q == [IdleAccountReq EXCEPT !.op = "edit", !.phone = phone, !.country = country,
                                           !.currency = c]
    <2>2. c \in Currency \cup {"keep"} /\ (c # "keep" => ~locked)
      BY Derived
    <2>3. AccountRead(r, "edit", q)
      BY <2>1
    <2> HIDE DEF c
    <2>4. q \in AccountReqRow /\ q.op = "edit" /\ q.currency = c
      BY <2>2 DEF IdleAccountReq, AccountReqRow
    <2> HIDE DEF q
    <2> QED BY <1>1, <2>2, <2>3, <2>4
  <1>4. ASSUME NEW op \in {"intake", "regenerated"}, NEW e, NEW currency \in Currency, NEW q,
               q = [IdleAccountReq EXCEPT !.op = op, !.currency = currency],
               AccountRead(r, e, q)
        PROVE  AInv'
    <2>1. q \in AccountReqRow /\ q.op = op /\ q.currency = currency
      BY <1>4 DEF IdleAccountReq, AccountReqRow, Region
    <2> QED BY <1>4, <2>1, ReadInv
  <1>5. CASE ReadForIntake(r)
    <2>1. account.currency \in Currency
      BY DEF AInv, CurrencyIsKept, AccountTypeOK, AccountRow
    <2> QED BY <1>4, <1>5, <2>1 DEF ReadForIntake
  <1>6. CASE ReadForRegenerate(r)
    <2>1. PICK i \in AccountTickets :
            AccountRead(r, "regenerate", [IdleAccountReq EXCEPT !.op = "regenerated",
                                             !.currency = accountTicket[i].currency])
      BY <1>6 DEF ReadForRegenerate
    <2>2. accountTicket[i].currency \in Currency
      <3>1. accountTicket[i] \in AccountTicketRow
        BY ElementOfSeq DEF AInv, CurrencyIsKept, AccountTypeOK, AccountTickets
      <3> QED BY <3>1 DEF AccountTicketRow
    <2> QED BY <1>4, <2>1, <2>2
  <1> QED BY <1>2, <1>3, <1>5, <1>6

\* A request that is done, or dies, leaves the others as they were.
LEMMA DoneReads ==
    ASSUME AInv, NEW r \in AccountReq, AccountDone(r)
    PROVE  /\ accountReq' \in [AccountReq -> AccountReqRow]
           /\ accountReq'[r].op = "none"
           /\ \A o \in AccountReq \ {r} : accountReq'[o] = accountReq[o]
  <1>1. accountReq \in [AccountReq -> AccountReqRow]
    BY DEF AInv, CurrencyIsKept, AccountTypeOK
  <1>2. accountReq' = [accountReq EXCEPT ![r] = IdleAccountReq]
    BY DEF AccountDone
  <1> HIDE DEF AInv
  <1> QED BY <1>1, <1>2, RequestRows

\* The edit is written.  If it brings a currency, nothing had to keep the old one.
LEMMA WriteAccountInv ==
    ASSUME AInv, NEW r \in AccountReq, WriteAccount(r)
    PROVE  AInv'
  <1> DEFINE q == accountReq[r]
  <1>1. /\ account' = [account EXCEPT !.phone = Pick(q.phone, account.phone),
                                      !.country = Pick(q.country, account.country),
                                      !.currency = IF q.currency = "keep" THEN account.currency
                                                   ELSE q.currency]
        /\ q.op = "edit" /\ AccountDone(r) /\ accountTicket' = accountTicket /\ purse' = purse
    BY DEF WriteAccount
  <1>2. /\ AccountTypeOK /\ LockHolds /\ KeptIsLive /\ ReadsAreGood
        /\ account \in AccountRow /\ q \in AccountReqRow
    BY DEF AInv, CurrencyIsKept, AccountTypeOK
  <1> HIDE DEF q
  <1>3. /\ account' \in AccountRow
        /\ account'.currency = IF q.currency = "keep" THEN account.currency ELSE q.currency
    <2>1. /\ Pick(q.phone, account.phone) \in Region
          /\ Pick(q.country, account.country) \in Region
      BY <1>2, RequestRows DEF Pick, AccountRow
    <2>2. (IF q.currency = "keep" THEN account.currency ELSE q.currency) \in Currency
      BY <1>2, RequestRows DEF AccountRow
    <2> HIDE DEF Pick
    <2> QED BY <1>1, <1>2, <2>1, <2>2 DEF AccountRow
  <1>4. /\ accountReq' \in [AccountReq -> AccountReqRow]
        /\ accountReq'[r].op = "none"
        /\ \A o \in AccountReq \ {r} : accountReq'[o] = accountReq[o]
    BY <1>1, DoneReads
  <1>5. AccountTypeOK' /\ KeptIsLive' /\ NothingToKeep' = NothingToKeep
    BY <1>1, <1>2, <1>3, <1>4 DEF AccountTypeOK, KeptIsLive, NothingToKeep, AccountTickets
  <1>6. ReadsAreGood'
    BY <1>2, <1>4, <1>5 DEF ReadsAreGood
  <1>7. LockHolds'
    <2>1. CASE q.currency = "keep"
      BY <1>1, <1>2, <1>3, <2>1 DEF LockHolds, AccountTickets
    <2>2. CASE q.currency # "keep"
      <3>1. NothingToKeep
        BY <1>1, <1>2, <2>2 DEF ReadsAreGood, q
      <3> QED BY <1>1, <3>1 DEF NothingToKeep, LockHolds, AccountTickets
    <2> QED BY <2>1, <2>2
  <1> QED BY <1>5, <1>6, <1>7 DEF AInv, CurrencyIsKept

LEMMA DiesInv ==
    ASSUME AInv, NEW r \in AccountReq, AccountReqDies(r)
    PROVE  AInv'
  <1>1. /\ AccountDone(r) /\ account' = account /\ accountTicket' = accountTicket
        /\ purse' = purse
    BY DEF AccountReqDies
  <1>2. /\ AccountTypeOK /\ LockHolds /\ KeptIsLive /\ ReadsAreGood
    BY DEF AInv, CurrencyIsKept
  <1>3. /\ accountReq' \in [AccountReq -> AccountReqRow]
        /\ accountReq'[r].op = "none"
        /\ \A o \in AccountReq \ {r} : accountReq'[o] = accountReq[o]
    BY <1>1, DoneReads
  <1>4. AccountTypeOK' /\ KeptIsLive' /\ LockHolds' /\ NothingToKeep' = NothingToKeep
    BY <1>1, <1>2, <1>3 DEF AccountTypeOK, KeptIsLive, NothingToKeep, LockHolds, AccountTickets
  <1>5. ReadsAreGood'
    BY <1>2, <1>3, <1>4 DEF ReadsAreGood
  <1> QED BY <1>4, <1>5 DEF AInv, CurrencyIsKept

\* A ticket t is created.  It is calm only if no edit was under way.
LEMMA AppendInv ==
    ASSUME AInv, NEW t \in AccountTicketRow, ~t.archived,
           accountTicket' = Append(accountTicket, t),
           t.calm => ~Editing,
           t.origin = "intake" /\ t.calm => t.currency = account.currency,
           UNCHANGED <<account, purse>>,
           accountReq' \in [AccountReq -> AccountReqRow],
           \A o \in AccountReq : accountReq'[o] = accountReq[o] \/ accountReq'[o].op = "none"
    PROVE  AInv'
  <1>1. /\ AccountTypeOK /\ LockHolds /\ KeptIsLive /\ ReadsAreGood
        /\ accountTicket \in Seq(AccountTicketRow) /\ account' = account /\ purse' = purse
    BY DEF AInv, CurrencyIsKept, AccountTypeOK
  <1>2. /\ accountTicket' \in Seq(AccountTicketRow)
        /\ \A i \in AccountTickets' : \/ i \in AccountTickets /\ accountTicket'[i] = accountTicket[i]
                                      \/ accountTicket'[i] = t
    <2>1. /\ accountTicket' \in Seq(AccountTicketRow)
          /\ Len(accountTicket') = Len(accountTicket) + 1
          /\ \A i \in 1..Len(accountTicket) : accountTicket'[i] = accountTicket[i]
          /\ accountTicket'[Len(accountTicket) + 1] = t
      BY <1>1, AppendProperties
    <2>2. AccountTickets = 1..Len(accountTicket) /\ AccountTickets' = 1..(Len(accountTicket) + 1)
          /\ Len(accountTicket) \in Nat
      BY <1>1, <2>1, LenProperties DEF AccountTickets
    <2> QED BY <2>1, <2>2
  <1>3. AccountTypeOK' /\ KeptIsLive'
    BY <1>1, <1>2 DEF AccountTypeOK, KeptIsLive
  <1>4. LockHolds'
    BY <1>1, <1>2 DEF LockHolds
  <1>5. ReadsAreGood'
    <2> SUFFICES ASSUME NEW o \in AccountReq
                 PROVE  /\ accountReq'[o].op \in {"intake", "regenerated"}
                             => accountReq'[o].currency \in Currency
                        /\ accountReq'[o].op = "edit" /\ accountReq'[o].currency # "keep"
                             => NothingToKeep'
      BY DEF ReadsAreGood
    <2>1. CASE accountReq'[o].op = "none"
      BY <2>1
    <2>2. CASE accountReq'[o] = accountReq[o]
      <3>1. ASSUME accountReq[o].op = "edit", accountReq[o].currency # "keep"
            PROVE  NothingToKeep'
        <4>1. NothingToKeep /\ Editing
          BY <1>1, <3>1 DEF ReadsAreGood, Editing
        <4>2. ~t.calm
          BY <4>1
        <4> QED BY <1>1, <1>2, <4>1, <4>2 DEF NothingToKeep
      <3> QED BY <1>1, <2>2, <3>1 DEF ReadsAreGood
    <2> QED BY <2>1, <2>2
  <1> QED BY <1>3, <1>4, <1>5 DEF AInv, CurrencyIsKept

LEMMA InsertInv ==
    ASSUME AInv, NEW r \in AccountReq, InsertTicket(r)
    PROVE  AInv'
  <1> DEFINE q == accountReq[r]
             t == [NewTicket(q.currency, q.op) EXCEPT
                     !.calm = NewTicket(q.currency, q.op).calm /\ account.currency = q.currency]
  <1>1. /\ q.op \in {"intake", "regenerated"} /\ accountTicket' = Append(accountTicket, t)
        /\ AccountDone(r) /\ account' = account /\ purse' = purse
    BY DEF InsertTicket
  <1>2. q.currency \in Currency
    BY <1>1 DEF AInv, ReadsAreGood
  <1> HIDE DEF q
  <1>3. /\ t \in AccountTicketRow /\ ~t.archived
        /\ t.calm => ~Editing /\ account.currency = t.currency
    BY <1>1, <1>2 DEF NewTicket, AccountTicketRow
  <1> HIDE DEF t
  <1>4. /\ accountReq' \in [AccountReq -> AccountReqRow]
        /\ \A o \in AccountReq : accountReq'[o] = accountReq[o] \/ accountReq'[o].op = "none"
    BY <1>1, DoneReads
  <1> QED BY <1>1, <1>3, <1>4, AppendInv

LEMMA GenerateInv ==
    ASSUME AInv, GenerateNextHearing
    PROVE  AInv'
  <1> DEFINE t == NewTicket("PKR", "hearing")
  <1>1. /\ accountTicket' = Append(accountTicket, t)
        /\ account' = account /\ purse' = purse /\ accountReq' = accountReq
    BY DEF GenerateNextHearing
  <1>2. /\ t \in AccountTicketRow /\ ~t.archived /\ t.origin = "hearing"
        /\ t.calm => ~Editing
    BY DEF NewTicket, AccountTicketRow, Currency
  <1> HIDE DEF t
  <1>3. accountReq \in [AccountReq -> AccountReqRow]
    BY DEF AInv, CurrencyIsKept, AccountTypeOK
  <1> QED BY <1>1, <1>2, <1>3, AppendInv

\* A ticket is archived, restored, or gets its next hearing: it keeps its currency, and
\* nothing becomes protected that was not.
LEMMA TouchInv ==
    ASSUME AInv, ArchiveOrRestore \/ HearingRecorded
    PROVE  AInv'
  <1>1. /\ AccountTypeOK /\ LockHolds /\ KeptIsLive /\ ReadsAreGood
        /\ accountTicket \in Seq(AccountTicketRow)
    BY DEF AInv, CurrencyIsKept, AccountTypeOK
  <1>2. account' = account /\ purse' = purse /\ accountReq' = accountReq
    BY DEF ArchiveOrRestore, HearingRecorded
  <1>3. PICK i \in AccountTickets :
          \/ accountTicket' = [accountTicket EXCEPT ![i].archived = ~@, ![i].kept = FALSE]
          \/ accountTicket' = [accountTicket EXCEPT ![i].scheduledDate = TRUE]
    BY DEF ArchiveOrRestore, HearingRecorded
  <1>4. PICK t : /\ accountTicket' = [accountTicket EXCEPT ![i] = t]
                 /\ t \in AccountTicketRow /\ t.origin = accountTicket[i].origin
                 /\ t.currency = accountTicket[i].currency /\ t.calm = accountTicket[i].calm
                 /\ t.kept => accountTicket[i].kept /\ t.archived = accountTicket[i].archived
    <2>1. accountTicket[i] \in AccountTicketRow
      BY <1>1, ElementOfSeq DEF AccountTickets
    <2>2. CASE accountTicket' = [accountTicket EXCEPT ![i].archived = ~@, ![i].kept = FALSE]
      <3> DEFINE u == [accountTicket[i] EXCEPT !.archived = ~@, !.kept = FALSE]
      <3>1. accountTicket' = [accountTicket EXCEPT ![i] = u]
        BY <2>2
      <3>2. /\ u \in AccountTicketRow /\ u.origin = accountTicket[i].origin /\ ~u.kept
            /\ u.currency = accountTicket[i].currency /\ u.calm = accountTicket[i].calm
        BY <2>1 DEF AccountTicketRow
      <3> HIDE DEF u
      <3> QED BY <3>1, <3>2
    <2>3. CASE accountTicket' = [accountTicket EXCEPT ![i].scheduledDate = TRUE]
      <3> DEFINE u == [accountTicket[i] EXCEPT !.scheduledDate = TRUE]
      <3>1. accountTicket' = [accountTicket EXCEPT ![i] = u]
        BY <2>3
      <3>2. /\ u \in AccountTicketRow /\ u.origin = accountTicket[i].origin
            /\ u.kept = accountTicket[i].kept /\ u.archived = accountTicket[i].archived
            /\ u.currency = accountTicket[i].currency /\ u.calm = accountTicket[i].calm
        BY <2>1 DEF AccountTicketRow
      <3> HIDE DEF u
      <3> QED BY <3>1, <3>2
    <2> QED BY <1>3, <2>2, <2>3
  <1>5. /\ accountTicket' \in Seq(AccountTicketRow) /\ AccountTickets' = AccountTickets
        /\ accountTicket'[i] = t
        /\ \A j \in AccountTickets \ {i} : accountTicket'[j] = accountTicket[j]
    BY <1>1, <1>4, ExceptSeq DEF AccountTickets
  <1>6. AccountTypeOK' /\ KeptIsLive' /\ LockHolds' /\ (NothingToKeep => NothingToKeep')
    <2>1. AccountTypeOK'
      BY <1>1, <1>2, <1>5 DEF AccountTypeOK
    <2>2. \A j \in AccountTickets' :
             /\ accountTicket'[j].origin = accountTicket[j].origin
             /\ accountTicket'[j].currency = accountTicket[j].currency
             /\ accountTicket'[j].calm = accountTicket[j].calm
             /\ accountTicket'[j].kept
                  => accountTicket[j].kept /\ accountTicket'[j].archived = accountTicket[j].archived
      BY <1>4, <1>5
    <2> QED BY <1>1, <1>2, <1>5, <2>1, <2>2 DEF KeptIsLive, LockHolds, NothingToKeep
  <1>7. ReadsAreGood'
    BY <1>1, <1>2, <1>6 DEF ReadsAreGood
  <1> QED BY <1>6, <1>7 DEF AInv, CurrencyIsKept

\* The wallet is credited in the account's currency, or spent.
LEMMA PurseInv ==
    ASSUME AInv, CreditOrSpend
    PROVE  AInv'
  <1>1. /\ AccountTypeOK /\ LockHolds /\ KeptIsLive /\ ReadsAreGood
        /\ account \in AccountRow /\ purse \in PurseRow
    BY DEF AInv, CurrencyIsKept, AccountTypeOK
  <1>2. /\ account' = account /\ accountTicket' = accountTicket /\ accountReq' = accountReq
        /\ purse' = [balance |-> ~purse.balance, calm |-> ~Editing,
                     currency |-> IF purse.balance THEN purse.currency ELSE account.currency]
    BY DEF CreditOrSpend
  <1>3. /\ purse' \in PurseRow /\ purse'.balance = ~purse.balance
        /\ purse'.calm => ~Editing
        /\ purse'.balance => purse'.currency = account.currency
    BY <1>1, <1>2 DEF PurseRow, AccountRow
  <1>4. AccountTypeOK' /\ KeptIsLive' /\ LockHolds'
    BY <1>1, <1>2, <1>3 DEF AccountTypeOK, KeptIsLive, LockHolds, AccountTickets
  <1>5. ReadsAreGood'
    <2>1. Editing /\ NothingToKeep => NothingToKeep'
      BY <1>2, <1>3 DEF NothingToKeep, AccountTickets
    <2>2. \A r \in AccountReq : accountReq[r].op = "edit" => Editing
      BY DEF Editing
    <2> QED BY <1>1, <1>2, <2>1, <2>2 DEF ReadsAreGood
  <1> QED BY <1>4, <1>5 DEF AInv, CurrencyIsKept

LEMMA AccountStutter ==
    ASSUME AInv, UNCHANGED accountVars
    PROVE  AInv'
  <1>1. /\ account' = account /\ accountTicket' = accountTicket /\ purse' = purse
        /\ accountReq' = accountReq
    BY DEF accountVars
  <1>2. NothingToKeep' = NothingToKeep
    BY <1>1 DEF NothingToKeep, AccountTickets
  <1> QED BY <1>1, <1>2 DEF AInv, CurrencyIsKept, AccountTypeOK, LockHolds, KeptIsLive,
                            ReadsAreGood, AccountTickets

\* The currency lock: the rows keep their shape, and a ticket from intake that was never
\* archived, and a balance, that came about while no edit was under way keep the currency
\* of the account, however many edits, intakes, regenerations, payments and archivings
\* overlap (users.service.ts update, auth.service.ts completeProfile).
THEOREM CurrencyKept == AccountSpec => []CurrencyIsKept
  <1>1. AccountInit => AInv
    BY AccountsInit
  <1>2. AInv /\ [AccountNext]_accountVars => AInv'
    <2> SUFFICES ASSUME AInv, [AccountNext]_accountVars PROVE AInv'
      OBVIOUS
    <2>1. ASSUME NEW r \in AccountReq,
                 \/ UpdateUser(r) \/ CompleteProfile(r) \/ WriteAccount(r)
                 \/ ReadForIntake(r) \/ ReadForRegenerate(r) \/ InsertTicket(r)
                 \/ AccountReqDies(r)
          PROVE  AInv'
      BY <2>1, ReadsInv, WriteAccountInv, InsertInv, DiesInv
    <2>2. CASE HearingRecorded \/ ArchiveOrRestore \/ CreditOrSpend \/ GenerateNextHearing
      BY <2>2, TouchInv, PurseInv, GenerateInv
    <2>3. CASE UNCHANGED accountVars
      BY <2>3, AccountStutter
    <2> QED BY <2>1, <2>2, <2>3 DEF AccountNext
  <1>3. AInv => CurrencyIsKept
    BY DEF AInv
  <1> QED BY <1>1, <1>2, <1>3, PTL DEF AccountSpec

-----------------------------------------------------------------------------
\* Elections.

\* Only a listed candidate has votes, and the list only grows.
VotesAreForListed == \A v \in vote : candidate[v.candidate].listed

\* What a call of castVote or finalize has read: a vote for a listed candidate, or seats
\* of which no two are for the same position.
PollsAreGood ==
    /\ pollReq = [r \in PollReq |-> pollReq[r]]
    /\ \A r \in PollReq :
         /\ pollReq[r].op = "vote" => /\ pollReq[r].row \in VoteRow
                                      /\ candidate[pollReq[r].row.candidate].listed
         /\ pollReq[r].op = "finalize" =>
              /\ pollReq[r].seats \subseteq SeatRow
              /\ \A s, o \in pollReq[r].seats : s.position = o.position => s = o

\* The inductive invariant.
EInv == BallotIsSound /\ IsFiniteSet(vote) /\ VotesAreForListed /\ PollsAreGood

\* The vote rows of one candidate.
Ballots(c) == {v \in vote : v.candidate = c}

LEMMA BallotCount ==
    ASSUME EInv, NEW c
    PROVE  IsFiniteSet(Ballots(c)) /\ Cardinality(Ballots(c)) \in Nat
  <1>1. IsFiniteSet(vote) /\ Ballots(c) \subseteq vote
    BY DEF EInv, Ballots
  <1>2. IsFiniteSet(Ballots(c))
    BY <1>1, FS_Subset
  <1> QED BY <1>2, FS_CardinalityType

LEMMA ElectionsInit == ElectionInit => EInv
  <1> SUFFICES ASSUME ElectionInit PROVE EInv
    OBVIOUS
  <1>1. PICK p \in [Candidate -> Position] :
          candidate = [c \in Candidate |-> [listed |-> FALSE, position |-> p[c], votes |-> 0,
                                            isWinner |-> FALSE, base |-> 0]]
    BY DEF ElectionInit
  <1>2. /\ election = "ACTIVE" /\ vote = {} /\ seat = {}
        /\ pollReq = [r \in PollReq |-> IdlePoll]
    BY DEF ElectionInit
  <1>3. \A r \in PollReq : pollReq[r] = IdlePoll /\ pollReq[r].op = "idle"
    BY <1>2 DEF IdlePoll
  <1>4. ElectionTypeOK
    <2>1. candidate \in [Candidate -> CandidateRow]
      BY <1>1 DEF CandidateRow
    <2> QED BY <1>2, <1>3, <2>1 DEF ElectionTypeOK
  <1>5. TallyMatchesVotes
    <2> SUFFICES ASSUME NEW c \in Candidate
                 PROVE  candidate[c].votes = candidate[c].base + Cardinality(Ballots(c))
      BY DEF TallyMatchesVotes, Ballots
    <2>1. Ballots(c) = {}
      BY <1>2 DEF Ballots
    <2>2. Cardinality(Ballots(c)) = 0
      BY <2>1, FS_EmptySet
    <2>3. candidate[c].votes = 0 /\ candidate[c].base = 0
      BY <1>1
    <2> QED BY <2>2, <2>3
  <1>6. IsFiniteSet(vote)
    BY <1>2, FS_EmptySet
  <1>7. OneVotePerPosition /\ SeatsAreWinners /\ VotesAreForListed
    BY <1>2 DEF OneVotePerPosition, SeatsAreWinners, VotesAreForListed
  <1>8. PollsAreGood
    BY <1>2, <1>3 DEF PollsAreGood
  <1> QED BY <1>4, <1>5, <1>6, <1>7, <1>8 DEF EInv, BallotIsSound

\* A request takes q, which is good, and nothing else changes.
LEMMA PollInv ==
    ASSUME EInv, NEW r \in PollReq, NEW q, pollReq' = [pollReq EXCEPT ![r] = q],
           q.op \in {"idle", "vote", "finalize"},
           q.op = "vote" => q.row \in VoteRow /\ candidate[q.row.candidate].listed,
           q.op = "finalize" => /\ q.seats \subseteq SeatRow
                                /\ \A s, o \in q.seats : s.position = o.position => s = o,
           UNCHANGED <<election, candidate, vote, seat>>
    PROVE  EInv'
  <1>1. /\ ElectionTypeOK /\ TallyMatchesVotes /\ OneVotePerPosition /\ SeatsAreWinners
        /\ IsFiniteSet(vote) /\ VotesAreForListed /\ PollsAreGood
        /\ election' = election /\ candidate' = candidate /\ vote' = vote /\ seat' = seat
    BY DEF EInv, BallotIsSound
  <1>2. /\ pollReq' = [o \in PollReq |-> pollReq'[o]]
        /\ \A o \in PollReq : pollReq'[o] = IF o = r THEN q ELSE pollReq[o]
    BY <1>1 DEF PollsAreGood
  <1>3. ElectionTypeOK' /\ PollsAreGood'
    BY <1>1, <1>2 DEF ElectionTypeOK, PollsAreGood
  <1>4. /\ TallyMatchesVotes' /\ OneVotePerPosition' /\ SeatsAreWinners'
        /\ VotesAreForListed' /\ IsFiniteSet(vote')
    BY <1>1 DEF TallyMatchesVotes, OneVotePerPosition, SeatsAreWinners, VotesAreForListed
  <1> QED BY <1>3, <1>4 DEF EInv, BallotIsSound

LEMMA CastVoteInv ==
    ASSUME EInv, NEW r \in PollReq, CastVote(r)
    PROVE  EInv'
  <1>1. PICK c \in Listed, w \in Voter :
          /\ pollReq' = [pollReq EXCEPT ![r] = [op |-> "vote", row |->
                          [voter |-> w, position |-> candidate[c].position, candidate |-> c]]]
          /\ UNCHANGED <<election, candidate, vote, seat>>
    BY DEF CastVote
  <1> DEFINE v == [voter |-> w, position |-> candidate[c].position, candidate |-> c]
             q == [op |-> "vote", row |-> v]
  <1>2. c \in Candidate /\ candidate[c].listed /\ candidate[c].position \in Position
    BY DEF Listed, EInv, BallotIsSound, ElectionTypeOK, CandidateRow
  <1>3. v \in VoteRow /\ v.candidate = c
    BY <1>2 DEF VoteRow
  <1> HIDE DEF v
  <1>4. q.op = "vote" /\ q.row = v
    OBVIOUS
  <1>5. pollReq' = [pollReq EXCEPT ![r] = q]
    BY <1>1 DEF v
  <1> HIDE DEF q
  <1> QED BY <1>1, <1>2, <1>3, <1>4, <1>5, PollInv

LEMMA FinalizeInv ==
    ASSUME EInv, NEW r \in PollReq, Finalize(r)
    PROVE  EInv'
  <1>1. PICK W \in winnersByPosition :
          pollReq' = [pollReq EXCEPT ![r] = [op |-> "finalize", seats |->
            {[candidate |-> c, position |-> candidate[c].position,
              votes |-> candidate[c].votes] : c \in W}]]
    BY DEF Finalize
  <1> DEFINE row(c) == [candidate |-> c, position |-> candidate[c].position,
                        votes |-> candidate[c].votes]
             S == {row(c) : c \in W}
             q == [op |-> "finalize", seats |-> S]
  <1>2. /\ W \subseteq Candidate
        /\ \A c, d \in W : candidate[c].position = candidate[d].position => c = d
    BY DEF winnersByPosition, Listed
  <1>3. \A c \in Candidate : candidate[c].position \in Position /\ candidate[c].votes \in Int
    BY DEF EInv, BallotIsSound, ElectionTypeOK, CandidateRow
  <1>4. S \subseteq SeatRow
    BY <1>2, <1>3 DEF SeatRow
  <1>5. \A s, o \in S : s.position = o.position => s = o
    <2> SUFFICES ASSUME NEW c \in W, NEW d \in W, row(c).position = row(d).position
                 PROVE  row(c) = row(d)
      OBVIOUS
    <2>1. c = d
      BY <1>2
    <2> QED BY <2>1
  <1>6. pollReq' = [pollReq EXCEPT ![r] = q] /\ q.op = "finalize"
    BY <1>1
  <1>7. q.seats = S
    OBVIOUS
  <1>8. UNCHANGED <<election, candidate, vote, seat>>
    BY DEF Finalize
  <1> HIDE DEF S, q
  <1> QED BY <1>4, <1>5, <1>6, <1>7, <1>8, PollInv

LEMMA PollDiesInv ==
    ASSUME EInv, NEW r \in PollReq, PollReqDies(r)
    PROVE  EInv'
  <1>1. IdlePoll.op = "idle"
    BY DEF IdlePoll
  <1> QED BY <1>1, PollInv DEF PollReqDies

\* An administrator lists a candidate, who has no vote row yet, or overwrites the count.
LEMMA CandidateInv ==
    ASSUME EInv, NEW c \in Candidate, AddCandidate(c) \/ UpdateCandidate(c)
    PROVE  EInv'
  <1>1. /\ ElectionTypeOK /\ TallyMatchesVotes /\ OneVotePerPosition /\ SeatsAreWinners
        /\ IsFiniteSet(vote) /\ VotesAreForListed /\ PollsAreGood
        /\ candidate \in [Candidate -> CandidateRow] /\ vote \subseteq VoteRow
    BY DEF EInv, BallotIsSound, ElectionTypeOK
  <1>2. election' = election /\ vote' = vote /\ seat' = seat /\ pollReq' = pollReq
    BY DEF AddCandidate, UpdateCandidate
  <1>3. PICK row : /\ candidate' = [candidate EXCEPT ![c] = row]
                   /\ row \in CandidateRow /\ row.listed /\ row.isWinner = candidate[c].isWinner
                   /\ row.votes = row.base + Cardinality(Ballots(c))
    <2>0. candidate[c] \in CandidateRow
      BY <1>1
    <2>1. CASE AddCandidate(c)
      <3>1. PICK n \in Votes : candidate' = [candidate EXCEPT ![c].listed = TRUE, ![c].votes = n,
                                                             ![c].base = n]
        BY <2>1 DEF AddCandidate
      <3>2. Cardinality(Ballots(c)) = 0
        <4>1. ~candidate[c].listed
          BY <2>1 DEF AddCandidate
        <4>2. Ballots(c) = {}
          BY <1>1, <4>1 DEF VotesAreForListed, Ballots
        <4> QED BY <4>2, FS_EmptySet
      <3>3. n \in Int
        BY ElectionAssumption
      <3> DEFINE row == [candidate[c] EXCEPT !.listed = TRUE, !.votes = n, !.base = n]
      <3>4. candidate' = [candidate EXCEPT ![c] = row]
        BY <3>1
      <3>5. /\ row \in CandidateRow /\ row.listed /\ row.isWinner = candidate[c].isWinner
            /\ row.votes = n /\ row.base = n
        BY <2>0, <3>3 DEF CandidateRow
      <3> HIDE DEF row
      <3>6. row.votes = row.base + Cardinality(Ballots(c))
        BY <3>2, <3>3, <3>5
      <3> QED BY <3>4, <3>5, <3>6
    <2>2. CASE UpdateCandidate(c)
      <3>1. PICK n \in Votes, p \in Position :
              candidate' = [candidate EXCEPT ![c].votes = n, ![c].position = p,
                              ![c].base = n - Cardinality(Ballots(c))]
        BY <2>2 DEF UpdateCandidate, Ballots
      <3> DEFINE k == Cardinality(Ballots(c))
                 row == [candidate[c] EXCEPT !.votes = n, !.position = p, !.base = n - k]
      <3>2. n \in Int /\ k \in Int /\ candidate[c].listed
        <4>1. candidate[c].listed
          BY <2>2 DEF UpdateCandidate
        <4>2. Cardinality(Ballots(c)) \in Nat
          BY BallotCount
        <4> QED BY <4>1, <4>2, ElectionAssumption
      <3>3. candidate' = [candidate EXCEPT ![c] = row]
        BY <3>1
      <3> HIDE DEF k
      <3>4. /\ row \in CandidateRow /\ row.listed /\ row.isWinner = candidate[c].isWinner
            /\ row.votes = n /\ row.base = n - k
        <4>1. n - k \in Int
          BY <3>2
        <4>2. PICK b \in Int, old \in CandidateRow : b = n - k /\ old = candidate[c]
          BY <2>0, <4>1
        <4>3. row = [old EXCEPT !.votes = n, !.position = p, !.base = b]
          BY <4>2
        <4> HIDE DEF row
        <4>4. /\ row \in CandidateRow /\ row.listed = old.listed /\ row.votes = n
              /\ row.isWinner = old.isWinner /\ row.base = b
          BY <3>2, <4>3 DEF CandidateRow
        <4> QED BY <3>2, <4>2, <4>4
      <3> HIDE DEF row
      <3>5. row.votes = row.base + k
        BY <3>2, <3>4
      <3> QED BY <3>3, <3>4, <3>5 DEF k
    <2> QED BY <2>1, <2>2
  <1>4. /\ candidate' \in [Candidate -> CandidateRow]
        /\ \A d \in Candidate : candidate'[d] = IF d = c THEN row ELSE candidate[d]
    BY <1>1, <1>3
  <1>5. ElectionTypeOK' /\ OneVotePerPosition'
    BY <1>1, <1>2, <1>4 DEF ElectionTypeOK, OneVotePerPosition
  <1>6. TallyMatchesVotes'
    <2>1. \A d \in Candidate : candidate[d].votes = candidate[d].base + Cardinality(Ballots(d))
      BY <1>1 DEF TallyMatchesVotes, Ballots
    <2>2. \A d \in Candidate : candidate'[d].votes = candidate'[d].base + Cardinality(Ballots(d))
      BY <1>3, <1>4, <2>1
    <2>3. \A d : Ballots(d)' = Ballots(d)
      BY <1>2 DEF Ballots
    <2> QED BY <1>2, <2>2 DEF TallyMatchesVotes, Ballots
  <1>7. SeatsAreWinners'
    <2>1. \A d \in Candidate : candidate'[d].isWinner = candidate[d].isWinner
      BY <1>3, <1>4
    <2>2. {d \in Candidate : candidate[d].isWinner} = {d \in Candidate : candidate'[d].isWinner}
      BY <2>1
    <2> QED BY <1>1, <1>2, <2>2 DEF SeatsAreWinners
  <1>8. \A d \in Candidate : candidate[d].listed => candidate'[d].listed
    BY <1>3, <1>4
  <1>9. VotesAreForListed'
    BY <1>1, <1>2, <1>8 DEF VotesAreForListed, VoteRow
  <1>10. PollsAreGood'
    BY <1>1, <1>2, <1>8 DEF PollsAreGood, VoteRow
  <1> QED BY <1>1, <1>2, <1>5, <1>6, <1>7, <1>9, <1>10 DEF EInv, BallotIsSound

\* A vote is written with its count, or the unique key undoes both.
LEMMA WriteVoteInv ==
    ASSUME EInv, NEW r \in PollReq, WriteVote(r)
    PROVE  EInv'
  <1> DEFINE v == pollReq[r].row
             taken == \E o \in vote : o.voter = v.voter /\ o.position = v.position
  <1>1. /\ ElectionTypeOK /\ TallyMatchesVotes /\ OneVotePerPosition /\ SeatsAreWinners
        /\ IsFiniteSet(vote) /\ VotesAreForListed /\ PollsAreGood
        /\ candidate \in [Candidate -> CandidateRow] /\ vote \subseteq VoteRow
    BY DEF EInv, BallotIsSound, ElectionTypeOK
  <1>2. /\ pollReq' = [pollReq EXCEPT ![r] = IdlePoll] /\ election' = election /\ seat' = seat
        /\ candidate' = IF taken THEN candidate
                        ELSE [candidate EXCEPT ![v.candidate].votes = @ + 1]
        /\ vote' = IF taken THEN vote ELSE vote \cup {v}
        /\ pollReq[r].op = "vote"
    BY DEF WriteVote
  <1>3. v \in VoteRow /\ candidate[v.candidate].listed /\ v.candidate \in Candidate
    BY <1>1, <1>2 DEF PollsAreGood, VoteRow
  <1>4. CASE taken
    <2>1. IdlePoll.op = "idle"
      BY DEF IdlePoll
    <2> QED BY <1>2, <1>4, <2>1, PollInv
  <1>5. CASE ~taken
    <2> DEFINE c == v.candidate
               row == [candidate[c] EXCEPT !.votes = candidate[c].votes + 1]
    <2>1. /\ candidate' = [candidate EXCEPT ![c] = row] /\ vote' = vote \cup {v}
      BY <1>2, <1>5
    <2>2. \A o \in vote : ~(o.voter = v.voter /\ o.position = v.position)
      BY <1>5
    <2> HIDE DEF v, taken
    <2>3. /\ row \in CandidateRow /\ row.listed /\ row.isWinner = candidate[c].isWinner
          /\ row.base = candidate[c].base /\ row.votes = candidate[c].votes + 1
          /\ candidate[c].votes \in Int /\ candidate[c].base \in Int
      BY <1>1, <1>3 DEF CandidateRow
    <2> HIDE DEF row
    <2>4. /\ candidate' \in [Candidate -> CandidateRow]
          /\ \A d \in Candidate : candidate'[d] = IF d = c THEN row ELSE candidate[d]
      BY <1>1, <1>3, <2>1, <2>3
    <2>5. /\ pollReq' = [o \in PollReq |-> pollReq'[o]]
          /\ \A o \in PollReq : pollReq'[o] = IF o = r THEN IdlePoll ELSE pollReq[o]
      BY <1>1, <1>2 DEF PollsAreGood
    <2>6. IdlePoll.op = "idle"
      BY DEF IdlePoll
    <2>7. ElectionTypeOK'
      BY <1>1, <1>2, <1>3, <2>1, <2>4, <2>5, <2>6 DEF ElectionTypeOK
    <2>8. OneVotePerPosition'
      BY <1>1, <2>1, <2>2 DEF OneVotePerPosition
    <2>9. \A d \in Candidate : candidate[d].listed => candidate'[d].listed
      BY <2>3, <2>4
    <2>10. VotesAreForListed'
      BY <1>1, <1>3, <2>1, <2>9 DEF VotesAreForListed, VoteRow
    <2>11. PollsAreGood'
      BY <1>1, <2>5, <2>6, <2>9 DEF PollsAreGood, VoteRow
    <2>12. SeatsAreWinners'
      <3>1. \A d \in Candidate : candidate'[d].isWinner = candidate[d].isWinner
        BY <2>3, <2>4
      <3>2. {d \in Candidate : candidate[d].isWinner} = {d \in Candidate : candidate'[d].isWinner}
        BY <3>1
      <3> QED BY <1>1, <1>2, <3>2 DEF SeatsAreWinners
    <2>13. TallyMatchesVotes'
      <3> SUFFICES ASSUME NEW d \in Candidate
                   PROVE  candidate'[d].votes = candidate'[d].base + Cardinality(Ballots(d)')
        BY DEF TallyMatchesVotes, Ballots
      <3>1. candidate[d].votes = candidate[d].base + Cardinality(Ballots(d))
        BY <1>1 DEF TallyMatchesVotes, Ballots
      <3>2. IsFiniteSet(Ballots(d)) /\ Cardinality(Ballots(d)) \in Nat
        BY BallotCount
      <3>3. CASE d = c
        <4>1. Ballots(d)' = Ballots(d) \cup {v} /\ v \notin Ballots(d)
          BY <2>1, <2>2, <3>3 DEF Ballots
        <4>2. Cardinality(Ballots(d)') = Cardinality(Ballots(d)) + 1
          BY <3>2, <4>1, FS_AddElement
        <4> QED BY <2>3, <2>4, <3>1, <3>2, <3>3, <4>2
      <3>4. CASE d # c
        <4>1. Ballots(d)' = Ballots(d)
          BY <2>1, <3>4 DEF Ballots
        <4> QED BY <2>4, <3>1, <3>4, <4>1
      <3> QED BY <3>3, <3>4
    <2>14. IsFiniteSet(vote')
      BY <1>1, <2>1, FS_AddElement
    <2> QED BY <2>7, <2>8, <2>10, <2>11, <2>12, <2>13, <2>14 DEF EInv, BallotIsSound
  <1> QED BY <1>4, <1>5

\* The result: winners and seats come from the same reading of the candidates.
LEMMA WriteResultInv ==
    ASSUME EInv, NEW r \in PollReq, WriteResult(r)
    PROVE  EInv'
  <1> DEFINE won == pollReq[r].seats
             winners == {s.candidate : s \in won}
  <1>1. /\ ElectionTypeOK /\ TallyMatchesVotes /\ OneVotePerPosition
        /\ IsFiniteSet(vote) /\ VotesAreForListed /\ PollsAreGood
        /\ candidate \in [Candidate -> CandidateRow] /\ vote \subseteq VoteRow
    BY DEF EInv, BallotIsSound, ElectionTypeOK
  <1>2. /\ pollReq' = [pollReq EXCEPT ![r] = IdlePoll] /\ election' = "FINALIZED"
        /\ seat' = won /\ vote' = vote /\ pollReq[r].op = "finalize"
        /\ candidate' = [c \in Candidate |-> [candidate[c] EXCEPT !.isWinner = c \in winners]]
    BY DEF WriteResult
  <1>3. /\ won \subseteq SeatRow
        /\ \A s, o \in won : s.position = o.position => s = o
    BY <1>1, <1>2 DEF PollsAreGood
  <1>4. winners \subseteq Candidate
    BY <1>3 DEF SeatRow
  <1> HIDE DEF winners
  <1>5. /\ candidate' \in [Candidate -> CandidateRow]
        /\ \A c \in Candidate : /\ candidate'[c].listed = candidate[c].listed
                                /\ candidate'[c].votes = candidate[c].votes
                                /\ candidate'[c].base = candidate[c].base
                                /\ candidate'[c].isWinner = (c \in winners)
    <2>1. ASSUME NEW c \in Candidate
          PROVE  /\ candidate'[c] = [candidate[c] EXCEPT !.isWinner = c \in winners]
                 /\ candidate[c] \in CandidateRow
      BY <1>1, <1>2
    <2>2. ASSUME NEW row \in CandidateRow, NEW b \in BOOLEAN, NEW new,
                 new = [row EXCEPT !.isWinner = b]
          PROVE  /\ new \in CandidateRow /\ new.listed = row.listed /\ new.votes = row.votes
                 /\ new.base = row.base /\ new.isWinner = b
      BY <2>2 DEF CandidateRow
    <2>3. ASSUME NEW c \in Candidate
          PROVE  /\ candidate'[c] \in CandidateRow
                 /\ candidate'[c].listed = candidate[c].listed
                 /\ candidate'[c].votes = candidate[c].votes
                 /\ candidate'[c].base = candidate[c].base
                 /\ candidate'[c].isWinner = (c \in winners)
      <3> DEFINE b == c \in winners
      <3>1. b \in BOOLEAN /\ candidate'[c] = [candidate[c] EXCEPT !.isWinner = b]
            /\ candidate[c] \in CandidateRow
        BY <2>1
      <3> HIDE DEF b
      <3>2. /\ candidate'[c] \in CandidateRow
            /\ candidate'[c].listed = candidate[c].listed
            /\ candidate'[c].votes = candidate[c].votes
            /\ candidate'[c].base = candidate[c].base
            /\ candidate'[c].isWinner = b
        BY <2>2, <3>1
      <3> QED BY <3>2 DEF b
    <2> QED BY <1>2, <2>3
  <1>6. /\ pollReq' = [o \in PollReq |-> pollReq'[o]]
        /\ \A o \in PollReq : pollReq'[o] = IF o = r THEN IdlePoll ELSE pollReq[o]
    BY <1>1, <1>2 DEF PollsAreGood
  <1>7. IdlePoll.op = "idle"
    BY DEF IdlePoll
  <1>8. ElectionTypeOK'
    BY <1>1, <1>2, <1>3, <1>5, <1>6, <1>7 DEF ElectionTypeOK
  <1>9. OneVotePerPosition'
    BY <1>1, <1>2 DEF OneVotePerPosition
  <1>10. TallyMatchesVotes'
    BY <1>1, <1>2, <1>5 DEF TallyMatchesVotes
  <1>11. SeatsAreWinners'
    <2>1. {c \in Candidate : candidate'[c].isWinner} = winners
      BY <1>4, <1>5
    <2>2. {s.candidate : s \in seat'} = winners
      BY <1>2 DEF winners
    <2> QED BY <1>2, <1>3, <2>1, <2>2 DEF SeatsAreWinners
  <1>12. VotesAreForListed'
    BY <1>1, <1>2, <1>5 DEF VotesAreForListed, VoteRow
  <1>13. PollsAreGood'
    BY <1>1, <1>5, <1>6, <1>7 DEF PollsAreGood, VoteRow
  <1> QED BY <1>1, <1>2, <1>8, <1>9, <1>10, <1>11, <1>12, <1>13 DEF EInv, BallotIsSound

LEMMA ElectionStutter ==
    ASSUME EInv, UNCHANGED electionVars
    PROVE  EInv'
  BY DEF electionVars, EInv, BallotIsSound, ElectionTypeOK, TallyMatchesVotes,
         OneVotePerPosition, SeatsAreWinners, VotesAreForListed, PollsAreGood

\* The ballot: whatever votes, edits and finalisations overlap, nobody votes twice for a
\* position, every count is what was entered plus one for each vote row, and the cabinet
\* seats exactly the declared winners, one for each position (elections.service.ts).
THEOREM BallotSound == ElectionSpec => []BallotIsSound
  <1>1. ElectionInit => EInv
    BY ElectionsInit
  <1>2. EInv /\ [ElectionNext]_electionVars => EInv'
    <2> SUFFICES ASSUME EInv, [ElectionNext]_electionVars PROVE EInv'
      OBVIOUS
    <2>1. ASSUME NEW c \in Candidate, AddCandidate(c) \/ UpdateCandidate(c)
          PROVE  EInv'
      BY <2>1, CandidateInv
    <2>2. ASSUME NEW r \in PollReq,
                 \/ CastVote(r) \/ WriteVote(r) \/ Finalize(r) \/ WriteResult(r)
                 \/ PollReqDies(r)
          PROVE  EInv'
      BY <2>2, CastVoteInv, WriteVoteInv, FinalizeInv, WriteResultInv, PollDiesInv
    <2>3. CASE UNCHANGED electionVars
      BY <2>3, ElectionStutter
    <2> QED BY <2>1, <2>2, <2>3 DEF ElectionNext
  <1>3. EInv => BallotIsSound
    BY DEF EInv
  <1> QED BY <1>1, <1>2, <1>3, PTL DEF ElectionSpec


-----------------------------------------------------------------------------
\* The cabinet.

Rows == {f \in FileId : file[f] # NoFile}
Sizes == [f \in FileId |-> file[f].size]

\* An upload that has passed the check of the quota and is not yet counted.
Uploading(q) == q.op \in {"upload", "uploadCase"} /\ q.pc \in {"put", "insert"}
Due(q) == IF Uploading(q) THEN q.size ELSE 0
Uncounted == [j \in FileJob |-> Due(fileJob[j])]

\* A job works on some file; an upload that is not yet counted works on one that has no
\* row and that nobody else works on.
JobIsGood(j) ==
    /\ fileJob[j].op # "none" => fileJob[j].ids # {}
    /\ Uploading(fileJob[j]) =>
         /\ fileJob[j].size \in 0..PER_FILE_MAX_BYTES
         /\ \E f \in FileId : /\ fileJob[j].ids = {f} /\ file[f] = NoFile
                              /\ \A k \in FileJob \ {j} : f \notin fileJob[k].ids

\* What is counted and what will be stays within the overshoot.
PendingFits ==
    storageUsage.bytes + SumFunctionOnSet(Uncounted, FileJob)
      <= QUOTA_BYTES + (Cardinality(FileJob) - 1) * PER_FILE_MAX_BYTES

\* The inductive invariant.
FInv == /\ FilesTypeOK /\ UsageMatchesRows /\ IsFiniteSet(Rows)
        /\ \A j \in FileJob : JobIsGood(j)
        /\ PendingFits

LEMMA FileTypes ==
    /\ NoFile \in FileRow /\ NoFile.size = 0 /\ NoFile.state = "none"
    /\ FreshJob \in FileJobRow /\ FreshJob.op = "none" /\ FreshJob.ids = {} /\ FreshJob.size = 0
    /\ ~Uploading(FreshJob) /\ Due(FreshJob) = 0
    /\ \A x \in FileRow : x.size \in Nat
    /\ \A q \in FileJobRow : q.size \in Nat /\ q.ids \in SUBSET FileId /\ Due(q) \in Nat
  <1>1. FileSize \subseteq Nat
    BY FilesAssumption
  <1>2. \A q \in FileJobRow : q.size \in {0} \cup FileSize /\ q.ids \in SUBSET FileId
    BY DEF FileJobRow
  <1>3. \A x \in FileRow : x.size \in {0} \cup FileSize
    BY DEF FileRow
  <1>4. FreshJob \in FileJobRow /\ FreshJob.op = "none" /\ FreshJob.ids = {} /\ FreshJob.size = 0
    BY DEF FreshJob, FileJobRow
  <1>5. NoFile \in FileRow /\ NoFile.size = 0 /\ NoFile.state = "none"
    BY DEF NoFile, FileRow
  <1>6. ~Uploading(FreshJob) /\ Due(FreshJob) = 0
    BY <1>4 DEF Uploading, Due
  <1>7. \A x \in {0} \cup FileSize : x \in Nat
    BY <1>1
  <1>8. \A q \in FileJobRow : Due(q) \in Nat
    BY <1>2, <1>7 DEF Due
  <1> QED BY <1>2, <1>3, <1>4, <1>5, <1>6, <1>7, <1>8

\* The sums of the invariant are sums of natural numbers over finite sets.
LEMMA FileSums ==
    ASSUME FInv
    PROVE  /\ \A f \in FileId : Sizes[f] \in Nat
           /\ \A j \in FileJob : Uncounted[j] \in Nat
           /\ SumFunctionOnSet(Uncounted, FileJob) \in Nat
           /\ Cardinality(FileJob) \in Nat
           /\ storageUsage.bytes = SumFunctionOnSet(Sizes, Rows)
           /\ storageUsage.count = Cardinality(Rows)
  <1>1. file \in [FileId -> FileRow] /\ fileJob \in [FileJob -> FileJobRow]
    BY DEF FInv, FilesTypeOK
  <1>2. (\A f \in FileId : Sizes[f] \in Nat) /\ (\A j \in FileJob : Uncounted[j] \in Nat)
    BY <1>1, FileTypes DEF Sizes, Uncounted
  <1>3. IsFiniteSet(FileJob)
    BY FilesAssumption
  <1>4. SumFunctionOnSet(Uncounted, FileJob) \in Nat
    BY <1>2, <1>3, SumNat
  <1>5. Cardinality(FileJob) \in Nat
    BY <1>3, FS_CardinalityType
  <1>6. UsageMatchesRows
    BY DEF FInv
  <1> QED BY <1>2, <1>4, <1>5, <1>6 DEF UsageMatchesRows, Rows, Sizes

LEMMA FilesStart == FilesInit => FInv
  <1> SUFFICES ASSUME FilesInit PROVE FInv
    OBVIOUS
  <1>1. /\ file = [f \in FileId |-> NoFile] /\ stored = {}
        /\ storageUsage = [bytes |-> 0, count |-> 0]
        /\ fileJob = [j \in FileJob |-> FreshJob]
    BY DEF FilesInit
  <1>2. FilesTypeOK
    BY <1>1, FileTypes DEF FilesTypeOK
  <1>3. Rows = {}
    BY <1>1 DEF Rows
  <1>4. IsFiniteSet(Rows) /\ Cardinality(Rows) = 0 /\ SumFunctionOnSet(Sizes, Rows) = 0
    BY <1>3, FS_EmptySet, SumEmpty
  <1>5. UsageMatchesRows
    BY <1>1, <1>4 DEF UsageMatchesRows, Rows, Sizes
  <1>6. \A j \in FileJob : JobIsGood(j)
    BY <1>1, FileTypes DEF JobIsGood
  <1>7. PendingFits
    <2>1. \A j \in FileJob : Uncounted[j] = 0
      BY <1>1, FileTypes DEF Uncounted
    <2>2. SumFunctionOnSet(Uncounted, FileJob) = 0
      BY <2>1, FilesAssumption, SumZero
    <2>3. Cardinality(FileJob) \in Nat /\ Cardinality(FileJob) # 0
      BY FilesAssumption, FS_CardinalityType, FS_EmptySet
    <2>4. QUOTA_BYTES \in Nat /\ PER_FILE_MAX_BYTES \in Nat
      BY FilesAssumption
    <2>5. Cardinality(FileJob) - 1 \in Nat
      BY <2>3
    <2>6. ASSUME NEW n \in Nat, NEW m \in Nat PROVE n * m \in Nat
      BY <2>6
    <2>7. (Cardinality(FileJob) - 1) * PER_FILE_MAX_BYTES \in Nat
      BY <2>4, <2>5, <2>6
    <2> QED BY <1>1, <2>2, <2>4, <2>7 DEF PendingFits
  <1> QED BY <1>2, <1>4, <1>5, <1>6, <1>7 DEF FInv

\* A step that leaves every file its size and its existence leaves the count true.
LEMMA CountKept ==
    ASSUME FInv, storageUsage' = storageUsage,
           \A f \in FileId : /\ (file'[f] = NoFile) <=> (file[f] = NoFile)
                             /\ file'[f].size = file[f].size
    PROVE  UsageMatchesRows' /\ IsFiniteSet(Rows')
  <1>1. Rows' = Rows /\ Sizes' = Sizes
    BY DEF Rows, Sizes
  <1>2. UsageMatchesRows /\ IsFiniteSet(Rows)
    BY DEF FInv
  <1> QED BY <1>1, <1>2 DEF UsageMatchesRows, Rows, Sizes

\* One job changes: what is pending changes by what it brings.
LEMMA PendingStep ==
    ASSUME FInv, NEW j \in FileJob, NEW q \in FileJobRow, fileJob' = [fileJob EXCEPT ![j] = q]
    PROVE  /\ SumFunctionOnSet(Uncounted', FileJob)
                = SumFunctionOnSet(Uncounted, FileJob) + Due(q) - Due(fileJob[j])
           /\ fileJob' \in [FileJob -> FileJobRow]
           /\ \A k \in FileJob : fileJob'[k] = IF k = j THEN q ELSE fileJob[k]
           /\ Due(q) \in Nat /\ Due(fileJob[j]) \in Nat
  <1>1. fileJob \in [FileJob -> FileJobRow]
    BY DEF FInv, FilesTypeOK
  <1>2. /\ fileJob' \in [FileJob -> FileJobRow]
        /\ \A k \in FileJob : fileJob'[k] = IF k = j THEN q ELSE fileJob[k]
    BY <1>1
  <1>3. \A k \in FileJob : /\ Uncounted[k] = Due(fileJob[k]) /\ Uncounted'[k] = Due(fileJob'[k])
                           /\ Uncounted[k] \in Int /\ Uncounted'[k] \in Int
    BY <1>1, <1>2, FileTypes DEF Uncounted
  <1>4. \A k \in FileJob \ {j} : Uncounted'[k] = Uncounted[k]
    BY <1>2, <1>3
  <1>5. SumFunctionOnSet(Uncounted', FileJob)
          = SumFunctionOnSet(Uncounted, FileJob) + Uncounted'[j] - Uncounted[j]
    BY <1>3, <1>4, FilesAssumption, SumChange
  <1>6. Uncounted'[j] = Due(q) /\ Uncounted[j] = Due(fileJob[j])
    BY <1>2, <1>3
  <1> QED BY <1>1, <1>2, <1>5, <1>6, FileTypes

\* What is counted and due does not grow: it still fits.
LEMMA StillFits ==
    ASSUME FInv, NEW j \in FileJob, NEW q \in FileJobRow, fileJob' = [fileJob EXCEPT ![j] = q],
           storageUsage'.bytes \in Nat,
           storageUsage'.bytes + Due(q) <= storageUsage.bytes + Due(fileJob[j])
    PROVE  PendingFits'
  <1> DEFINE limit == QUOTA_BYTES + (Cardinality(FileJob) - 1) * PER_FILE_MAX_BYTES
             before == SumFunctionOnSet(Uncounted, FileJob)
             after == SumFunctionOnSet(Uncounted', FileJob)
  <1>1. storageUsage.bytes + before <= limit /\ storageUsage.bytes \in Nat
    BY DEF FInv, PendingFits, FilesTypeOK
  <1>2. after = before + Due(q) - Due(fileJob[j]) /\ Due(q) \in Nat /\ Due(fileJob[j]) \in Nat
    BY PendingStep
  <1>3. before \in Nat
    BY FileSums
  <1>4. limit \in Int
    <2>1. Cardinality(FileJob) \in Nat /\ QUOTA_BYTES \in Nat /\ PER_FILE_MAX_BYTES \in Nat
      BY FileSums, FilesAssumption
    <2> QED BY <2>1
  <1> HIDE DEF limit, before, after
  <1>5. storageUsage'.bytes + after <= limit
    BY <1>1, <1>2, <1>3, <1>4
  <1> QED BY <1>5 DEF PendingFits, limit, after

\* One job takes a step; what the uploads of the others work on is left alone.
LEMMA FileStep ==
    ASSUME FInv, NEW j \in FileJob, NEW q \in FileJobRow, fileJob' = [fileJob EXCEPT ![j] = q],
           file' \in [FileId -> FileRow], stored' \subseteq FileId,
           storageUsage' \in [bytes : Nat, count : Nat],
           UsageMatchesRows', IsFiniteSet(Rows'), PendingFits', JobIsGood(j)',
           \A f \in FileId : file[f] = NoFile /\ f \notin fileJob[j].ids => file'[f] = NoFile,
           \A f \in q.ids : f \in fileJob[j].ids \/ file[f] # NoFile
                              \/ \A k \in FileJob : f \notin fileJob[k].ids
    PROVE  FInv'
  <1>1. /\ fileJob' \in [FileJob -> FileJobRow]
        /\ \A k \in FileJob : fileJob'[k] = IF k = j THEN q ELSE fileJob[k]
    BY PendingStep
  <1>2. ASSUME NEW k \in FileJob \ {j} PROVE JobIsGood(k)'
    <2>1. JobIsGood(k) /\ fileJob'[k] = fileJob[k] /\ fileJob'[j] = q
      BY <1>1 DEF FInv
    <2>2. fileJob[k].op # "none" => fileJob[k].ids # {}
      BY <2>1 DEF JobIsGood
    <2>3. ASSUME Uploading(fileJob[k])
          PROVE  /\ fileJob[k].size \in 0..PER_FILE_MAX_BYTES
                 /\ \E f \in FileId : /\ fileJob'[k].ids = {f} /\ file'[f] = NoFile
                                      /\ \A i \in FileJob \ {k} : f \notin fileJob'[i].ids
      <3>1. fileJob[k].size \in 0..PER_FILE_MAX_BYTES
        BY <2>1, <2>3 DEF JobIsGood
      <3>2. PICK f \in FileId : /\ fileJob[k].ids = {f} /\ file[f] = NoFile
                                /\ \A i \in FileJob \ {k} : f \notin fileJob[i].ids
        BY <2>1, <2>3 DEF JobIsGood
      <3>3. f \notin fileJob[j].ids /\ file'[f] = NoFile
        BY <3>2
      <3>4. f \notin q.ids
        BY <3>2, <3>3
      <3>5. \A i \in FileJob \ {k} : f \notin fileJob'[i].ids
        BY <1>1, <3>2, <3>4
      <3> QED BY <2>1, <3>1, <3>2, <3>3, <3>5
    <2> QED BY <2>1, <2>2, <2>3 DEF JobIsGood
  <1>3. FilesTypeOK'
    BY <1>1 DEF FilesTypeOK
  <1> QED BY <1>2, <1>3 DEF FInv

\* A job takes a step that neither creates nor removes a row, nor starts an upload.
LEMMA TouchStep ==
    ASSUME FInv, NEW j \in FileJob, NEW q \in FileJobRow, fileJob' = [fileJob EXCEPT ![j] = q],
           file' \in [FileId -> FileRow], storageUsage' = storageUsage, stored' \subseteq FileId,
           \A f \in FileId : /\ (file'[f] = NoFile) <=> (file[f] = NoFile)
                             /\ file'[f].size = file[f].size,
           ~Uploading(q), q.op # "none" => q.ids # {},
           \A f \in q.ids : f \in fileJob[j].ids \/ file[f] # NoFile
    PROVE  FInv'
  <1>1. /\ storageUsage' \in [bytes : Nat, count : Nat]
        /\ storageUsage.bytes \in Nat /\ storageUsage'.bytes \in Nat
    BY DEF FInv, FilesTypeOK
  <1>2. UsageMatchesRows' /\ IsFiniteSet(Rows')
    BY CountKept
  <1>3. fileJob'[j] = q /\ Due(q) \in Nat /\ Due(fileJob[j]) \in Nat
    BY PendingStep
  <1>4. Due(q) = 0
    BY DEF Due
  <1>5. PendingFits'
    <2>1. storageUsage'.bytes + Due(q) <= storageUsage.bytes + Due(fileJob[j])
      BY <1>1, <1>3, <1>4
    <2> QED BY <1>1, <2>1, StillFits
  <1>6. JobIsGood(j)'
    BY <1>3 DEF JobIsGood
  <1> QED BY <1>1, <1>2, <1>5, <1>6, FileStep

\* The same for a step that touches no row.
LEMMA QuietStep ==
    ASSUME FInv, NEW j \in FileJob, NEW q \in FileJobRow, fileJob' = [fileJob EXCEPT ![j] = q],
           file' = file, storageUsage' = storageUsage, stored' \subseteq FileId,
           ~Uploading(q), q.op # "none" => q.ids # {},
           \A f \in q.ids : f \in fileJob[j].ids \/ file[f] # NoFile
    PROVE  FInv'
  <1>1. file' \in [FileId -> FileRow]
    BY DEF FInv, FilesTypeOK
  <1> QED BY <1>1, TouchStep

\* The jobs that only read, and the ends of a job.
LEMMA FileReads ==
    ASSUME FInv, NEW j \in FileJob,
           \/ SoftDelete(j) \/ BulkSoftDelete(j) \/ Restore(j) \/ GcList(j) \/ UndoPut(j)
           \/ FileJobDies(j)
    PROVE  FInv'
  <1>1. stored \subseteq FileId /\ fileJob[j] \in FileJobRow
    BY DEF FInv, FilesTypeOK
  <1>2. ASSUME NEW op \in {"delete", "bulk", "restore", "gc"}, NEW pc \in {"write", "bytes"},
               NEW ids \in SUBSET FileId, ids # {}, \A f \in ids : file[f] # NoFile,
               FileStart(j, op, pc, ids, 0)
        PROVE  FInv'
    <2> DEFINE q == [op |-> op, pc |-> pc, ids |-> ids, size |-> 0]
    <2>1. /\ fileJob' = [fileJob EXCEPT ![j] = q] /\ file' = file
          /\ storageUsage' = storageUsage /\ stored' = stored
      BY <1>2 DEF FileStart
    <2>2. q \in FileJobRow /\ q.ids = ids /\ q.op = op
      BY DEF FileJobRow
    <2>3. ~Uploading(q)
      BY <2>2 DEF Uploading
    <2> HIDE DEF q
    <2> QED BY <1>1, <1>2, <2>1, <2>2, <2>3, QuietStep
  <1>3. \A f \in FileId : file[f].state \in {"live", "deleted", "expired"} => file[f] # NoFile
    BY FileTypes
  <1>4. CASE SoftDelete(j)
    <2>1. PICK f \in FileId : file[f].state = "live" /\ FileStart(j, "delete", "write", {f}, 0)
      BY <1>4 DEF SoftDelete
    <2>2. {f} \in SUBSET FileId /\ {f} # {} /\ \A g \in {f} : file[g] # NoFile
      BY <1>3, <2>1
    <2> QED BY <1>2, <2>1, <2>2
  <1>5. CASE Restore(j)
    <2>1. PICK f \in FileId : file[f].state = "deleted" /\ FileStart(j, "restore", "write", {f}, 0)
      BY <1>5 DEF Restore
    <2>2. {f} \in SUBSET FileId /\ {f} # {} /\ \A g \in {f} : file[g] # NoFile
      BY <1>3, <2>1
    <2> QED BY <1>2, <2>1, <2>2
  <1>6. CASE BulkSoftDelete(j)
    <2> DEFINE owned == {f \in FileId : file[f].state = "live"}
    <2>1. owned # {} /\ FileStart(j, "bulk", "write", owned, 0)
      BY <1>6 DEF BulkSoftDelete
    <2>2. owned \in SUBSET FileId /\ \A g \in owned : file[g] # NoFile
      BY <1>3
    <2> HIDE DEF owned
    <2> QED BY <1>2, <2>1, <2>2
  <1>7. CASE GcList(j)
    <2> DEFINE expired == {f \in FileId : file[f].state = "expired"}
    <2>1. expired # {} /\ FileStart(j, "gc", "bytes", expired, 0)
      BY <1>7 DEF GcList
    <2>2. expired \in SUBSET FileId /\ \A g \in expired : file[g] # NoFile
      BY <1>3
    <2> HIDE DEF expired
    <2> QED BY <1>2, <2>1, <2>2
  <1>8. CASE UndoPut(j) \/ FileJobDies(j)
    <2>1. /\ fileJob' = [fileJob EXCEPT ![j] = FreshJob] /\ file' = file
          /\ storageUsage' = storageUsage /\ stored' \subseteq FileId
      BY <1>1, <1>8 DEF UndoPut, FileJobDies, FileEnd
    <2> QED BY <2>1, FileTypes, QuietStep
  <1> QED BY <1>4, <1>5, <1>6, <1>7, <1>8

\* A job moves on to another program counter.
LEMMA GoRow ==
    ASSUME FInv, NEW j \in FileJob, NEW pc \in {"insert", "audit", "undo", "cohort", "row"},
           FileGo(j, pc)
    PROVE  \E q \in FileJobRow : /\ fileJob' = [fileJob EXCEPT ![j] = q] /\ q.pc = pc
                                 /\ q.op = fileJob[j].op /\ q.ids = fileJob[j].ids
                                 /\ q.size = fileJob[j].size
  <1> DEFINE q == [fileJob[j] EXCEPT !.pc = pc]
  <1>1. fileJob[j] \in FileJobRow
    BY DEF FInv, FilesTypeOK
  <1>2. fileJob' = [fileJob EXCEPT ![j] = q]
    BY DEF FileGo
  <1>3. /\ q \in FileJobRow /\ q.pc = pc /\ q.op = fileJob[j].op /\ q.ids = fileJob[j].ids
        /\ q.size = fileJob[j].size
    BY <1>1 DEF FileJobRow
  <1> HIDE DEF q
  <1> QED BY <1>2, <1>3

\* The upload is undone or goes on after its transaction.
LEMMA UploadTail ==
    ASSUME FInv, NEW j \in FileJob, UploadFails(j) \/ UploadAudited(j)
    PROVE  FInv'
  <1>1. /\ file' = file /\ storageUsage' = storageUsage /\ stored' = stored
        /\ stored \subseteq FileId /\ JobIsGood(j)
        /\ fileJob[j].op \in {"upload", "uploadCase"}
    BY DEF UploadFails, UploadAudited, FileAt, FInv, FilesTypeOK
  <1>2. ASSUME NEW pc \in {"undo", "cohort"}, FileGo(j, pc) PROVE FInv'
    <2>1. PICK q \in FileJobRow : /\ fileJob' = [fileJob EXCEPT ![j] = q] /\ q.pc = pc
                                  /\ q.op = fileJob[j].op /\ q.ids = fileJob[j].ids
      BY <1>2, GoRow
    <2>2. ~Uploading(q) /\ q.ids # {}
      BY <1>1, <2>1 DEF Uploading, JobIsGood
    <2> QED BY <1>1, <2>1, <2>2, QuietStep
  <1>3. CASE FileEnd(j)
    BY <1>1, <1>3, FileTypes, QuietStep DEF FileEnd
  <1> QED BY <1>2, <1>3 DEF UploadFails, UploadAudited

\* An upload passes the check of the quota: it sees what is counted, and each of the
\* others brings at most one largest file.
LEMMA UploadInv ==
    ASSUME FInv, NEW j \in FileJob, Upload(j)
    PROVE  FInv'
  <1>1. PICK size \in FileSize, op \in {"upload", "uploadCase"}, f \in Unused :
          /\ size <= PER_FILE_MAX_BYTES /\ storageUsage.bytes + size <= QUOTA_BYTES
          /\ FileStart(j, op, "put", {f}, size)
    BY DEF Upload
  <1> DEFINE q == [op |-> op, pc |-> "put", ids |-> {f}, size |-> size]
             m == PER_FILE_MAX_BYTES
             n == Cardinality(FileJob)
  <1>2. /\ f \in FileId /\ file[f] = NoFile /\ \A k \in FileJob : f \notin fileJob[k].ids
    BY DEF Unused
  <1>3. /\ fileJob[j] = FreshJob /\ fileJob' = [fileJob EXCEPT ![j] = q] /\ file' = file
        /\ storageUsage' = storageUsage /\ stored' = stored
    BY <1>1 DEF FileStart
  <1>4. q \in FileJobRow /\ q.op = op /\ q.pc = "put" /\ q.ids = {f} /\ q.size = size
    BY <1>2 DEF FileJobRow
  <1> HIDE DEF q
  <1>5. Uploading(q) /\ Due(q) = size
    BY <1>4 DEF Uploading, Due
  <1>6. size \in Nat /\ m \in Nat /\ QUOTA_BYTES \in Nat /\ IsFiniteSet(FileJob)
    BY FilesAssumption
  <1>7. /\ file' \in [FileId -> FileRow] /\ storageUsage' \in [bytes : Nat, count : Nat]
        /\ storageUsage.bytes \in Nat /\ stored' \subseteq FileId
    BY <1>3 DEF FInv, FilesTypeOK
  <1>8. UsageMatchesRows' /\ IsFiniteSet(Rows')
    BY <1>3, CountKept
  <1>9. /\ \A k \in FileJob : fileJob'[k] = IF k = j THEN q ELSE fileJob[k]
        /\ SumFunctionOnSet(Uncounted', FileJob)
             = SumFunctionOnSet(Uncounted, FileJob) + Due(q) - Due(fileJob[j])
    BY <1>3, <1>4, PendingStep
  <1>10. JobIsGood(j)'
    <2>1. fileJob'[j] = q /\ \A k \in FileJob \ {j} : f \notin fileJob'[k].ids
      BY <1>2, <1>9
    <2>2. size \in 0..m
      BY <1>1, <1>6
    <2> QED BY <1>2, <1>3, <1>4, <2>1, <2>2 DEF JobIsGood
  <1>11. SumFunctionOnSet(Uncounted, FileJob) \in 0..((n - 1) * m)
    <2> DEFINE others == FileJob \ {j}
    <2>1. \A k \in FileJob : Uncounted[k] \in Nat
      BY FileSums
    <2>2. Uncounted[j] = 0
      BY <1>3, FileTypes DEF Uncounted
    <2>3. \A k \in others : Uncounted[k] \in 0..m
      <3> SUFFICES ASSUME NEW k \in others PROVE Uncounted[k] \in 0..m
        OBVIOUS
      <3>1. Uncounted[k] = Due(fileJob[k]) /\ JobIsGood(k)
        BY DEF Uncounted, FInv
      <3> QED BY <1>6, <3>1 DEF JobIsGood, Due
    <2>4. IsFiniteSet(others) /\ Cardinality(others) = n - 1
      BY <1>6, FS_RemoveElement
    <2>5. SumFunctionOnSet(Uncounted, FileJob) = Uncounted[j] + SumFunctionOnSet(Uncounted, others)
      <3>1. \A k \in FileJob : Uncounted[k] \in Int
        BY <2>1
      <3> QED BY <1>6, <3>1, SumRemove
    <2> HIDE DEF others
    <2>6. SumFunctionOnSet(Uncounted, others) \in 0..((n - 1) * m)
      BY <1>6, <2>3, <2>4, SumBound
    <2>7. n \in Nat
      BY FileSums
    <2> QED BY <1>6, <2>2, <2>5, <2>6, <2>7
  <1>12. PendingFits'
    <2> DEFINE before == SumFunctionOnSet(Uncounted, FileJob)
               after == SumFunctionOnSet(Uncounted', FileJob)
               over == (n - 1) * m
    <2>1. Due(fileJob[j]) = 0
      BY <1>3, FileTypes
    <2>2. after = before + size /\ before \in Nat
      BY <1>5, <1>6, <1>9, <2>1, FileSums
    <2>3. before <= over
      BY <1>11
    <2>4. over \in Int
      <3>1. n \in Nat
        BY FileSums
      <3> QED BY <1>6, <3>1
    <2> HIDE DEF before, after, over
    <2>5. storageUsage.bytes + after <= QUOTA_BYTES + over
      BY <1>1, <1>6, <1>7, <2>2, <2>3, <2>4
    <2> QED BY <1>3, <2>5 DEF PendingFits, after, over
  <1>13. /\ \A g \in FileId : file[g] = NoFile /\ g \notin fileJob[j].ids => file'[g] = NoFile
         /\ \A g \in q.ids : g \in fileJob[j].ids \/ file[g] # NoFile
                              \/ \A k \in FileJob : g \notin fileJob[k].ids
    BY <1>2, <1>3, <1>4
  <1>14. q \in FileJobRow /\ fileJob' = [fileJob EXCEPT ![j] = q]
    BY <1>3, <1>4
  <1> QED BY <1>7, <1>8, <1>10, <1>12, <1>13, <1>14, FileStep

LEMMA PutInv ==
    ASSUME FInv, NEW j \in FileJob, PutBytes(j)
    PROVE  FInv'
  <1>1. /\ fileJob[j].op \in {"upload", "uploadCase"} /\ fileJob[j].pc = "put"
        /\ stored' = stored \cup fileJob[j].ids /\ FileGo(j, "insert")
        /\ file' = file /\ storageUsage' = storageUsage
    BY DEF PutBytes, FileAt
  <1>2. PICK q \in FileJobRow : /\ fileJob' = [fileJob EXCEPT ![j] = q] /\ q.pc = "insert"
                                /\ q.op = fileJob[j].op /\ q.ids = fileJob[j].ids
                                /\ q.size = fileJob[j].size
    BY <1>1, GoRow
  <1>3. Uploading(fileJob[j]) /\ Uploading(q) /\ Due(q) = Due(fileJob[j])
    BY <1>1, <1>2 DEF Uploading, Due
  <1>4. /\ file' \in [FileId -> FileRow] /\ storageUsage' \in [bytes : Nat, count : Nat]
        /\ storageUsage.bytes \in Nat /\ storageUsage'.bytes \in Nat
        /\ stored \subseteq FileId /\ fileJob[j] \in FileJobRow /\ JobIsGood(j)
    BY <1>1 DEF FInv, FilesTypeOK
  <1>5. stored' \subseteq FileId
    BY <1>1, <1>4, FileTypes
  <1>6. UsageMatchesRows' /\ IsFiniteSet(Rows')
    BY <1>1, CountKept
  <1>7. /\ \A k \in FileJob : fileJob'[k] = IF k = j THEN q ELSE fileJob[k]
        /\ Due(q) \in Nat
    BY <1>2, PendingStep
  <1>8. PendingFits'
    <2>1. storageUsage'.bytes + Due(q) <= storageUsage.bytes + Due(fileJob[j])
      BY <1>1, <1>3, <1>4, <1>7
    <2> QED BY <1>2, <1>4, <2>1, StillFits
  <1>9. JobIsGood(j)'
    <2>1. PICK f \in FileId : /\ fileJob[j].ids = {f} /\ file[f] = NoFile
                              /\ \A k \in FileJob \ {j} : f \notin fileJob[k].ids
      BY <1>3, <1>4 DEF JobIsGood
    <2>2. fileJob'[j] = q /\ \A k \in FileJob \ {j} : fileJob'[k] = fileJob[k]
      BY <1>7
    <2>3. fileJob[j].size \in 0..PER_FILE_MAX_BYTES
      BY <1>3, <1>4 DEF JobIsGood
    <2> QED BY <1>1, <1>2, <2>1, <2>2, <2>3 DEF JobIsGood
  <1> QED BY <1>1, <1>2, <1>4, <1>5, <1>6, <1>8, <1>9, FileStep

\* The file that a job takes is one of its own.
LEMMA TheFile ==
    ASSUME FInv, NEW j \in FileJob, fileJob[j].op # "none"
    PROVE  The(j) \in fileJob[j].ids /\ The(j) \in FileId
  <1>1. fileJob[j].ids # {}
    BY DEF FInv, JobIsGood
  <1>2. The(j) \in fileJob[j].ids
    BY <1>1, Zenon DEF The
  <1>3. fileJob[j] \in FileJobRow
    BY DEF FInv, FilesTypeOK
  <1> QED BY <1>2, <1>3, FileTypes

\* The row and the counters together: what was due is counted.
LEMMA InsertFileInv ==
    ASSUME FInv, NEW j \in FileJob, InsertFile(j)
    PROVE  FInv'
  <1> DEFINE f == The(j)
             old == fileJob[j]
             new == [state |-> "live", size |-> old.size, cohort |-> FALSE]
  <1>1. /\ old.op \in {"upload", "uploadCase"} /\ old.pc = "insert"
        /\ file' = [file EXCEPT ![f] = new] /\ FileGo(j, "audit") /\ stored' = stored
        /\ storageUsage' = [bytes |-> storageUsage.bytes + old.size,
                             count |-> storageUsage.count + 1]
    BY DEF InsertFile, FileAt
  <1>2. /\ file \in [FileId -> FileRow] /\ storageUsage.bytes \in Nat /\ storageUsage.count \in Nat
        /\ stored \subseteq FileId /\ old \in FileJobRow /\ JobIsGood(j) /\ IsFiniteSet(Rows)
    BY DEF FInv, FilesTypeOK
  <1>3. Uploading(old) /\ Due(old) = old.size /\ old.size \in Nat
    BY <1>1, <1>2, FileTypes DEF Uploading, Due
  <1>4. f \in FileId /\ old.ids = {f} /\ file[f] = NoFile
    <2>1. The(j) \in old.ids
      BY <1>1, TheFile
    <2> QED BY <1>2, <1>3, <2>1 DEF JobIsGood
  <1>5. PICK q \in FileJobRow : /\ fileJob' = [fileJob EXCEPT ![j] = q] /\ q.pc = "audit"
                                /\ q.op = old.op /\ q.ids = old.ids
    BY <1>1, GoRow
  <1>6. ~Uploading(q) /\ Due(q) = 0
    BY <1>5 DEF Uploading, Due
  <1>7. new \in FileRow /\ new.size = old.size /\ new # NoFile
    <2>1. old.size \in {0} \cup FileSize
      BY <1>2 DEF FileJobRow
    <2>2. new.state = "live" /\ NoFile.state = "none"
      BY FileTypes
    <2> QED BY <2>1, <2>2 DEF FileRow
  <1> HIDE DEF f, old, new
  <1>8. /\ file' \in [FileId -> FileRow] /\ file'[f] = new
        /\ \A g \in FileId \ {f} : file'[g] = file[g]
    BY <1>1, <1>2, <1>4, <1>7
  <1>9. /\ storageUsage' \in [bytes : Nat, count : Nat]
        /\ storageUsage'.bytes = storageUsage.bytes + old.size
        /\ storageUsage'.count = storageUsage.count + 1
    BY <1>1, <1>2, <1>3
  <1>10. UsageMatchesRows' /\ IsFiniteSet(Rows')
    <2>1. Rows' = Rows \cup {f} /\ f \notin Rows /\ Rows \subseteq FileId
      BY <1>4, <1>7, <1>8 DEF Rows
    <2>2. /\ \A g \in FileId : Sizes[g] \in Nat
          /\ storageUsage.bytes = SumFunctionOnSet(Sizes, Rows)
          /\ storageUsage.count = Cardinality(Rows)
      BY FileSums
    <2>3. /\ Sizes'[f] = old.size /\ \A g \in Rows : Sizes'[g] = Sizes[g]
      BY <1>4, <1>7, <1>8, <2>1 DEF Sizes
    <2>4. \A g \in Rows \cup {f} : Sizes'[g] \in Int
      BY <1>3, <2>1, <2>2, <2>3
    <2>5. SumFunctionOnSet(Sizes', Rows \cup {f}) = Sizes'[f] + SumFunctionOnSet(Sizes', Rows)
      BY <1>2, <2>1, <2>4, SumAdd
    <2>6. SumFunctionOnSet(Sizes', Rows) = SumFunctionOnSet(Sizes, Rows)
      <3>1. \A g \in Rows : Sizes[g] \in Int
        BY <2>1, <2>2
      <3> QED BY <1>2, <2>3, <3>1, SumSame
    <2>7. IsFiniteSet(Rows') /\ Cardinality(Rows') = Cardinality(Rows) + 1
      BY <1>2, <2>1, FS_AddElement
    <2>8. storageUsage'.bytes = SumFunctionOnSet(Sizes', Rows')
      BY <1>2, <1>3, <1>9, <2>1, <2>2, <2>3, <2>5, <2>6
    <2> QED BY <1>9, <2>2, <2>7, <2>8 DEF UsageMatchesRows, Rows, Sizes
  <1>11. /\ fileJob'[j] = q
    BY <1>5, PendingStep
  <1>12. PendingFits'
    <2>1. storageUsage'.bytes + Due(q) <= storageUsage.bytes + Due(fileJob[j])
      BY <1>2, <1>3, <1>6, <1>9 DEF old
    <2>2. storageUsage'.bytes \in Nat
      BY <1>9
    <2> QED BY <1>5, <2>1, <2>2, StillFits
  <1>13. JobIsGood(j)'
    BY <1>4, <1>5, <1>6, <1>11 DEF JobIsGood
  <1>14. /\ \A g \in FileId : file[g] = NoFile /\ g \notin fileJob[j].ids => file'[g] = NoFile
         /\ \A g \in q.ids : g \in fileJob[j].ids
    BY <1>4, <1>5, <1>8 DEF old
  <1> QED BY <1>1, <1>2, <1>5, <1>8, <1>9, <1>10, <1>12, <1>13, <1>14, FileStep

\* uploadCaseFile stamps its row, softDelete and restore move theirs, if they are there.
LEMMA TouchesInv ==
    ASSUME FInv, NEW j \in FileJob, StampCohort(j) \/ WriteDeletedAt(j)
    PROVE  FInv'
  <1>1. /\ storageUsage' = storageUsage /\ stored' = stored /\ stored \subseteq FileId
        /\ fileJob' = [fileJob EXCEPT ![j] = FreshJob] /\ file \in [FileId -> FileRow]
    BY DEF StampCohort, WriteDeletedAt, FileEnd, FInv, FilesTypeOK
  <1>2. ASSUME NEW row \in FileRow, row # NoFile, NEW new, NEW to \in {"live", "deleted"},
               new = [row EXCEPT !.state = to]
        PROVE  new \in FileRow /\ new # NoFile /\ new.size = row.size
    <2>1. new \in FileRow /\ new.state = to /\ new.size = row.size
      BY <1>2 DEF FileRow
    <2> QED BY <2>1, FileTypes
  <1>3. ASSUME NEW row \in FileRow, row # NoFile, NEW new, new = [row EXCEPT !.cohort = TRUE]
        PROVE  new \in FileRow /\ new # NoFile /\ new.size = row.size
    <2>1. new \in FileRow /\ new.cohort /\ new.size = row.size
      BY <1>3 DEF FileRow
    <2>2. ~NoFile.cohort
      BY DEF NoFile
    <2> QED BY <2>1, <2>2
  <1>4. /\ file' \in [FileId -> FileRow]
        /\ \A f \in FileId : /\ (file'[f] = NoFile) <=> (file[f] = NoFile)
                             /\ file'[f].size = file[f].size
    <2>1. CASE StampCohort(j)
      <3>1. fileJob[j].op # "none"
        BY <2>1 DEF StampCohort, FileAt
      <3>2. The(j) \in FileId
        BY <3>1, TheFile
      <3>3. CASE file[The(j)] = NoFile
        BY <1>1, <2>1, <3>3 DEF StampCohort
      <3>4. CASE file[The(j)] # NoFile
        <4> DEFINE f == The(j)
                   new == [file[f] EXCEPT !.cohort = TRUE]
        <4>1. file' = [file EXCEPT ![f] = new]
          BY <2>1, <3>4 DEF StampCohort
        <4>2. file[f] \in FileRow /\ f \in FileId
          BY <1>1, <3>2
        <4>3. new \in FileRow /\ new # NoFile /\ new.size = file[f].size
          BY <1>3, <3>4, <4>2
        <4> HIDE DEF f, new
        <4>4. \A g \in FileId : file'[g] = IF g = f THEN new ELSE file[g]
          BY <1>1, <4>1, <4>2
        <4>5. file' \in [FileId -> FileRow]
          BY <1>1, <4>1, <4>2, <4>3
        <4> QED BY <3>4, <4>3, <4>4, <4>5 DEF f
      <3> QED BY <3>3, <3>4
    <2>2. CASE WriteDeletedAt(j)
      <3> DEFINE to == IF fileJob[j].op = "restore" THEN "live" ELSE "deleted"
                 hit == {f \in fileJob[j].ids :
                           /\ file[f] # NoFile
                           /\ fileJob[j].op = "bulk" => file[f].state = "live"}
      <3>1. file' = [f \in FileId |-> IF f \in hit THEN [file[f] EXCEPT !.state = to] ELSE file[f]]
        BY <2>2 DEF WriteDeletedAt
      <3>2. to \in {"live", "deleted"} /\ \A f \in hit : file[f] # NoFile
        OBVIOUS
      <3> HIDE DEF to, hit
      <3>3. ASSUME NEW f \in FileId
            PROVE  /\ file'[f] \in FileRow /\ ((file'[f] = NoFile) <=> (file[f] = NoFile))
                   /\ file'[f].size = file[f].size
        <4>1. file[f] \in FileRow
          BY <1>1
        <4>2. CASE f \in hit
          <5>1. file'[f] = [file[f] EXCEPT !.state = to]
            BY <3>1, <4>2
          <5>2. file'[f] \in FileRow /\ file'[f] # NoFile /\ file'[f].size = file[f].size
            BY <1>2, <3>2, <4>1, <4>2, <5>1
          <5> QED BY <3>2, <4>2, <5>2
        <4>3. CASE f \notin hit
          BY <3>1, <4>1, <4>3
        <4> QED BY <4>2, <4>3
      <3> QED BY <3>1, <3>3
    <2> QED BY <2>1, <2>2
  <1>5. PICK q \in FileJobRow : /\ fileJob' = [fileJob EXCEPT ![j] = q]
                                /\ ~Uploading(q) /\ q.op = "none" /\ q.ids = {}
    BY <1>1, FileTypes
  <1>6. stored' \subseteq FileId /\ storageUsage' = storageUsage
    BY <1>1
  <1>7. /\ q.op # "none" => q.ids # {}
        /\ \A f \in q.ids : f \in fileJob[j].ids \/ file[f] # NoFile
    BY <1>5
  <1>8. fileJob' = [fileJob EXCEPT ![j] = q] /\ ~Uploading(q)
    BY <1>5
  <1>9. file' \in [FileId -> FileRow]
    BY <1>4
  <1>10. \A f \in FileId : /\ (file'[f] = NoFile) <=> (file[f] = NoFile)
                           /\ file'[f].size = file[f].size
    BY <1>4
  <1> QED BY <1>6, <1>7, <1>8, <1>9, <1>10, TouchStep, Zenon

LEMMA WindowInv ==
    ASSUME FInv, NEW f \in FileId, RestoreWindowEnds(f)
    PROVE  FInv'
  <1>1. /\ file[f].state = "deleted" /\ file' = [file EXCEPT ![f].state = "expired"]
        /\ storageUsage' = storageUsage /\ stored' = stored /\ fileJob' = fileJob
    BY DEF RestoreWindowEnds
  <1>2. PICK j \in FileJob : TRUE
    BY FilesAssumption
  <1>3. /\ file \in [FileId -> FileRow] /\ stored \subseteq FileId
        /\ fileJob \in [FileJob -> FileJobRow] /\ storageUsage \in [bytes : Nat, count : Nat]
    BY DEF FInv, FilesTypeOK
  <1> DEFINE new == [file[f] EXCEPT !.state = "expired"]
  <1>4. file' = [file EXCEPT ![f] = new]
    BY <1>1
  <1>5. new \in FileRow /\ new.state = "expired" /\ new.size = file[f].size
    BY <1>3 DEF FileRow
  <1> HIDE DEF new
  <1>6. \A g \in FileId : file'[g] = IF g = f THEN new ELSE file[g]
    BY <1>3, <1>4
  <1>7. file[f] # NoFile /\ new # NoFile
    BY <1>1, <1>5, FileTypes
  <1>8. /\ file' \in [FileId -> FileRow]
        /\ \A g \in FileId : /\ (file'[g] = NoFile) <=> (file[g] = NoFile)
                             /\ file'[g].size = file[g].size
    BY <1>3, <1>4, <1>5, <1>6, <1>7
  <1>9. fileJob' = [fileJob EXCEPT ![j] = fileJob[j]] /\ fileJob[j] \in FileJobRow
    BY <1>1, <1>3
  <1>10. UsageMatchesRows' /\ IsFiniteSet(Rows')
    BY <1>1, <1>8, CountKept
  <1>11. PendingFits'
    BY <1>1 DEF FInv, PendingFits, Uncounted
  <1>12. JobIsGood(j)'
    <2>1. JobIsGood(j)
      BY DEF FInv
    <2> QED BY <1>1, <1>8, <2>1 DEF JobIsGood
  <1>13. PICK q \in FileJobRow : /\ fileJob' = [fileJob EXCEPT ![j] = q] /\ q = fileJob[j]
    BY <1>9
  <1>14. /\ stored' \subseteq FileId /\ storageUsage' \in [bytes : Nat, count : Nat]
         /\ \A g \in FileId : file[g] = NoFile /\ g \notin fileJob[j].ids => file'[g] = NoFile
         /\ \A g \in q.ids : g \in fileJob[j].ids
    BY <1>1, <1>3, <1>8, <1>13
  <1> QED BY <1>8, <1>10, <1>11, <1>12, <1>13, <1>14, FileStep

\* The collection moves on to its next file, or ends.
LEMMA GcRow ==
    ASSUME FInv, NEW j \in FileJob, fileJob[j].op = "gc", fileJob' = GcNext(j)
    PROVE  \E q \in FileJobRow : /\ fileJob' = [fileJob EXCEPT ![j] = q] /\ ~Uploading(q)
                                 /\ q.op # "none" => q.ids # {}
                                 /\ q.ids \subseteq fileJob[j].ids
  <1> DEFINE rest == fileJob[j].ids \ {The(j)}
             next == [fileJob[j] EXCEPT !.ids = rest, !.pc = "bytes"]
  <1>1. fileJob[j] \in FileJobRow
    BY DEF FInv, FilesTypeOK
  <1>2. fileJob' = [fileJob EXCEPT ![j] = IF rest = {} THEN FreshJob ELSE next]
    BY DEF GcNext
  <1>3. rest \in SUBSET FileId /\ rest \subseteq fileJob[j].ids
    BY <1>1, FileTypes
  <1> HIDE DEF rest
  <1>4. next \in FileJobRow /\ next.op = "gc" /\ next.ids = rest
    BY <1>1, <1>3 DEF FileJobRow
  <1> HIDE DEF next
  <1>5. ~Uploading(next)
    BY <1>4 DEF Uploading
  <1>6. CASE rest = {}
    BY <1>2, <1>6, FileTypes
  <1>7. CASE rest # {}
    BY <1>2, <1>3, <1>4, <1>5, <1>7
  <1> QED BY <1>6, <1>7

LEMMA GcBytesInv ==
    ASSUME FInv, NEW j \in FileJob, GcDeleteBytes(j)
    PROVE  FInv'
  <1>1. /\ fileJob[j].op = "gc" /\ file' = file /\ storageUsage' = storageUsage
        /\ stored \subseteq FileId
    BY DEF GcDeleteBytes, FileAt, FInv, FilesTypeOK
  <1>2. CASE stored' = stored \ {The(j)} /\ FileGo(j, "row")
    <2>1. PICK q \in FileJobRow : /\ fileJob' = [fileJob EXCEPT ![j] = q] /\ q.pc = "row"
                                  /\ q.op = fileJob[j].op /\ q.ids = fileJob[j].ids
      BY <1>2, GoRow
    <2>2. ~Uploading(q) /\ q.ids # {}
      <3>1. JobIsGood(j)
        BY DEF FInv
      <3> QED BY <1>1, <2>1, <3>1 DEF Uploading, JobIsGood
    <2> QED BY <1>1, <1>2, <2>1, <2>2, QuietStep
  <1>3. CASE stored' = stored /\ fileJob' = GcNext(j)
    <2>1. PICK q \in FileJobRow : /\ fileJob' = [fileJob EXCEPT ![j] = q] /\ ~Uploading(q)
                                  /\ q.op # "none" => q.ids # {}
                                  /\ q.ids \subseteq fileJob[j].ids
      BY <1>1, <1>3, GcRow
    <2> QED BY <1>1, <1>3, <2>1, QuietStep
  <1> QED BY <1>2, <1>3 DEF GcDeleteBytes

\* The collection removes the row and takes it from the counters, once.
LEMMA HardDeleteInv ==
    ASSUME FInv, NEW j \in FileJob, hardDeleteRow(j)
    PROVE  FInv'
  <1> DEFINE f == The(j)
  <1>1. /\ fileJob[j].op = "gc" /\ file' = [file EXCEPT ![f] = NoFile] /\ fileJob' = GcNext(j)
        /\ storageUsage' = IF file[f] = NoFile THEN storageUsage
                           ELSE [bytes |-> storageUsage.bytes - file[f].size,
                                 count |-> storageUsage.count - 1]
        /\ stored' = stored
    BY DEF hardDeleteRow, FileAt
  <1>2. /\ file \in [FileId -> FileRow] /\ storageUsage.bytes \in Nat /\ storageUsage.count \in Nat
        /\ stored \subseteq FileId /\ IsFiniteSet(Rows)
    BY DEF FInv, FilesTypeOK
  <1>3. f \in FileId /\ f \in fileJob[j].ids
    BY <1>1, TheFile
  <1> HIDE DEF f
  <1>4. PICK q \in FileJobRow : /\ fileJob' = [fileJob EXCEPT ![j] = q] /\ ~Uploading(q)
                                /\ q.op # "none" => q.ids # {}
                                /\ q.ids \subseteq fileJob[j].ids
    BY <1>1, GcRow
  <1>5. /\ file' \in [FileId -> FileRow]
        /\ \A g \in FileId : file'[g] = IF g = f THEN NoFile ELSE file[g]
    BY <1>1, <1>2, <1>3, FileTypes
  <1>6. CASE file[f] = NoFile
    <2>1. file' = file /\ storageUsage' = storageUsage /\ stored' \subseteq FileId
      BY <1>1, <1>2, <1>3, <1>6
    <2>2. \A g \in q.ids : g \in fileJob[j].ids
      BY <1>4
    <2> QED BY <1>4, <2>1, <2>2, QuietStep
  <1>7. CASE file[f] # NoFile
    <2> DEFINE rest == Rows \ {f}
    <2>1. Rows' = rest /\ f \in Rows /\ Rows \subseteq FileId
      BY <1>3, <1>5, <1>7 DEF Rows
    <2>2. /\ \A g \in FileId : Sizes[g] \in Nat
          /\ storageUsage.bytes = SumFunctionOnSet(Sizes, Rows)
          /\ storageUsage.count = Cardinality(Rows)
      BY FileSums
    <2>3. IsFiniteSet(rest) /\ Cardinality(rest) = Cardinality(Rows) - 1
      BY <1>2, <2>1, FS_RemoveElement
    <2>4. Sizes[f] = file[f].size /\ \A g \in rest : Sizes'[g] = Sizes[g]
      BY <1>3, <1>5, <2>1 DEF Sizes
    <2>5. SumFunctionOnSet(Sizes, Rows) = Sizes[f] + SumFunctionOnSet(Sizes, rest)
      <3>1. \A g \in Rows : Sizes[g] \in Int
        BY <2>1, <2>2
      <3> QED BY <1>2, <2>1, <3>1, SumRemove
    <2>6. \A g \in rest : Sizes[g] \in Nat
      BY <2>1, <2>2
    <2> HIDE DEF rest
    <2>7. SumFunctionOnSet(Sizes', rest) = SumFunctionOnSet(Sizes, rest)
      <3>1. \A g \in rest : Sizes[g] \in Int
        BY <2>6
      <3> QED BY <2>3, <2>4, <3>1, SumSame
    <2>8. SumFunctionOnSet(Sizes, rest) \in Nat /\ Cardinality(rest) \in Nat
      BY <2>3, <2>6, SumNat, FS_CardinalityType
    <2>9. Sizes[f] \in Nat
      BY <1>3, <2>2
    <2>10. /\ storageUsage.bytes - file[f].size = SumFunctionOnSet(Sizes, rest)
           /\ storageUsage.count - 1 = Cardinality(rest)
      BY <1>2, <2>2, <2>3, <2>4, <2>5, <2>8, <2>9
    <2>11. /\ storageUsage' = [bytes |-> SumFunctionOnSet(Sizes, rest), count |-> Cardinality(rest)]
      BY <1>1, <1>7, <2>10
    <2>12. /\ storageUsage' \in [bytes : Nat, count : Nat] /\ storageUsage'.bytes \in Nat
           /\ storageUsage'.bytes = SumFunctionOnSet(Sizes, rest)
           /\ storageUsage'.count = Cardinality(rest)
      BY <2>8, <2>11
    <2>13. UsageMatchesRows' /\ IsFiniteSet(Rows')
      <3>1. /\ storageUsage'.bytes = SumFunctionOnSet(Sizes', Rows')
            /\ storageUsage'.count = Cardinality(Rows') /\ IsFiniteSet(Rows')
        BY <2>1, <2>3, <2>7, <2>12
      <3> QED BY <3>1 DEF UsageMatchesRows, Rows, Sizes
    <2>14. fileJob'[j] = q /\ Due(q) \in Nat /\ Due(fileJob[j]) \in Nat /\ Due(q) = 0
      BY <1>4, PendingStep DEF Due
    <2>15. PendingFits'
      <3>1. storageUsage'.bytes + Due(q) <= storageUsage.bytes + Due(fileJob[j])
        BY <1>2, <2>2, <2>5, <2>8, <2>9, <2>12, <2>14
      <3> QED BY <1>4, <2>12, <3>1, StillFits
    <2>16. JobIsGood(j)'
      BY <1>4, <2>14 DEF JobIsGood
    <2>17. /\ stored' \subseteq FileId
           /\ \A g \in FileId : file[g] = NoFile /\ g \notin fileJob[j].ids => file'[g] = NoFile
           /\ \A g \in q.ids : g \in fileJob[j].ids
      BY <1>1, <1>2, <1>4, <1>5
    <2> QED BY <1>4, <1>5, <2>12, <2>13, <2>15, <2>16, <2>17, FileStep
  <1> QED BY <1>6, <1>7

LEMMA FilesStutter ==
    ASSUME FInv, UNCHANGED fileVars
    PROVE  FInv'
  <1>1. /\ file' = file /\ stored' = stored /\ storageUsage' = storageUsage /\ fileJob' = fileJob
    BY DEF fileVars
  <1> QED BY <1>1 DEF FInv, FilesTypeOK, UsageMatchesRows, Rows, JobIsGood, PendingFits, Uncounted

\* The cabinet: whatever uploads, deletions, restorations, runs of the nightly collection,
\* failures and deaths of the process interleave, the usage row counts exactly the rows,
\* and the quota is exceeded by at most one largest file for each other request
\* (personal-files.service.ts upload, personal-files.gc.ts).
THEOREM CabinetCounted == FilesSpec => []CabinetIsCounted
  <1>1. FilesInit => FInv
    BY FilesStart
  <1>2. FInv /\ [FilesNext]_fileVars => FInv'
    <2> SUFFICES ASSUME FInv, [FilesNext]_fileVars PROVE FInv'
      OBVIOUS
    <2>1. ASSUME NEW j \in FileJob,
                 \/ Upload(j) \/ PutBytes(j) \/ InsertFile(j) \/ UploadFails(j) \/ UndoPut(j)
                 \/ UploadAudited(j) \/ StampCohort(j)
                 \/ SoftDelete(j) \/ BulkSoftDelete(j) \/ Restore(j) \/ WriteDeletedAt(j)
                 \/ GcList(j) \/ GcDeleteBytes(j) \/ hardDeleteRow(j) \/ FileJobDies(j)
          PROVE  FInv'
      BY <2>1, UploadInv, PutInv, InsertFileInv, UploadTail, TouchesInv, FileReads, GcBytesInv,
         HardDeleteInv
    <2>2. ASSUME NEW f \in FileId, RestoreWindowEnds(f) PROVE FInv'
      BY <2>2, WindowInv
    <2>3. CASE UNCHANGED fileVars
      BY <2>3, FilesStutter
    <2> QED BY <2>1, <2>2, <2>3 DEF FilesNext
  <1>3. FInv => CabinetIsCounted
    <2> SUFFICES ASSUME FInv PROVE QuotaOvershootBounded
      BY DEF FInv, CabinetIsCounted
    <2> DEFINE limit == QUOTA_BYTES + (Cardinality(FileJob) - 1) * PER_FILE_MAX_BYTES
    <2>1. storageUsage.bytes + SumFunctionOnSet(Uncounted, FileJob) <= limit
          /\ storageUsage.bytes \in Nat
      BY DEF FInv, PendingFits, FilesTypeOK
    <2>2. SumFunctionOnSet(Uncounted, FileJob) \in Nat
      BY FileSums
    <2>3. limit \in Int
      <3>1. Cardinality(FileJob) \in Nat /\ QUOTA_BYTES \in Nat /\ PER_FILE_MAX_BYTES \in Nat
        BY FileSums, FilesAssumption
      <3> QED BY <3>1
    <2> HIDE DEF limit
    <2>4. storageUsage.bytes <= limit
      BY <2>1, <2>2, <2>3
    <2> QED BY <2>4 DEF QuotaOvershootBounded, limit
  <1> QED BY <1>1, <1>2, <1>3, PTL DEF FilesSpec

-----------------------------------------------------------------------------
\* The invoices.

\* The phase-2 amount that would be billed is approved, or the row is one of the exceptions.
RowIsGood(row) == phase2(row) \in {0, row.approved} \/ row.loose

ReadOf(rows, ids) == rows \in [ids -> BillRow] /\ \A t \in ids : RowIsGood(rows[t])

EditColumns == [service : Nat, discount : Nat, taxRate : Nat, phase2 : Nat]

\* What a call holds: the rows generate has read, or the columns an edit will write.
CallIsGood(q) ==
    /\ q.pc \in {"idle", "auto", "commit", "charge", "reprice"} /\ q.ids \subseteq Bill
    /\ q.pc = "commit" => q.ids # {} /\ ReadOf(q.rows, q.ids)
    /\ q.pc \in {"charge", "reprice"} => q.rows \in [q.ids -> EditColumns] /\ q.typed \in BOOLEAN

CallsAreGood ==
    /\ invoiceReq = [r \in InvoiceReq |-> invoiceReq[r]]
    /\ \A r \in InvoiceReq : CallIsGood(invoiceReq[r])
    /\ \A inv \in invoice : ReadOf(inv.rows, inv.tickets)

\* The inductive invariant.
VInv == InvoicesAreSound /\ (\A t \in Bill : RowIsGood(bill[t])) /\ CallsAreGood

LEMMA BillTypes ==
    ASSUME NEW row \in BillRow
    PROVE  /\ row.service \in Nat /\ row.discount \in Nat /\ row.taxRate \in Nat
           /\ row.phase2 \in Nat /\ row.remainderFinalizedAt \in BOOLEAN
           /\ lineTotal(row) \in Nat /\ clampedDiscount(row) \in Nat
           /\ NonNeg(lineTotal(row) - row.discount) = lineTotal(row) - clampedDiscount(row)
           /\ NonNeg(lineTotal(row) - row.discount) \in Nat
  <1>1. /\ row.service \in Nat /\ row.discount \in Nat /\ row.taxRate \in Nat
        /\ row.phase2 \in Nat /\ row.remainderFinalizedAt \in BOOLEAN
    BY DEF BillRow
  <1>2. lineTotal(row) \in Nat
    BY <1>1 DEF lineTotal, phase2
  <1> QED BY <1>1, <1>2 DEF clampedDiscount, Least, NonNeg

\* The totals of an invoice: natural numbers, and net of discount the sum of what each
\* ticket is worth by itself.
LEMMA Summary ==
    ASSUME NEW ids, IsFiniteSet(ids), ids # {}, NEW rows \in [ids -> BillRow]
    PROVE  /\ summariseInvoice(rows) \in [subtotal : Nat, discount : Nat, taxAmount : Nat,
                                           grandTotal : Nat]
           /\ summariseInvoice(rows).subtotal - summariseInvoice(rows).discount
                = SumFunctionOnSet([t \in ids |-> NonNeg(lineTotal(rows[t]) - rows[t].discount)], ids)
  <1> DEFINE lines == [t \in ids |-> lineTotal(rows[t])]
             cuts == [t \in ids |-> clampedDiscount(rows[t])]
             bases == [t \in ids |-> rows[t].service]
             nets == [t \in ids |-> NonNeg(lineTotal(rows[t]) - rows[t].discount)]
             subtotal == SumFunctionOnSet(lines, ids)
             discount == SumFunctionOnSet(cuts, ids)
             service == SumFunctionOnSet(bases, ids)
             tax == NonNeg(service - discount) * invoiceRate(rows)
  <1>1. DOMAIN rows = ids
    OBVIOUS
  <1>2. summariseInvoice(rows) = [subtotal |-> subtotal, discount |-> discount, taxAmount |-> tax,
                                  grandTotal |-> NonNeg(subtotal - discount) + tax]
    BY <1>1 DEF summariseInvoice
  <1>3. \A t \in ids : /\ lines[t] \in Nat /\ cuts[t] \in Nat /\ bases[t] \in Nat
                       /\ nets[t] \in Nat /\ nets[t] = lines[t] - cuts[t]
    BY BillTypes
  <1> HIDE DEF lines, cuts, bases
  <1>4. subtotal \in Nat /\ discount \in Nat /\ service \in Nat
    BY <1>3, SumNat
  <1>5. SumFunctionOnSet(nets, ids) = subtotal - discount
    <2>1. \A t \in ids : lines[t] \in Int /\ cuts[t] \in Int /\ nets[t] = lines[t] - cuts[t]
      BY <1>3
    <2> HIDE DEF nets
    <2> QED BY <2>1, SumMinus
  <1>6. invoiceRate(rows) \in Nat
    <2> DEFINE t == CHOOSE t \in DOMAIN rows : TRUE
    <2>1. t \in ids
      BY <1>1, Zenon
    <2>2. rows[t].taxRate \in Nat
      BY <2>1, BillTypes
    <2> HIDE DEF t
    <2>3. invoiceRate(rows) = IF rows[t].currency = "USD" THEN 0 ELSE rows[t].taxRate
      BY DEF invoiceRate, t
    <2> QED BY <2>2, <2>3
  <1> HIDE DEF subtotal, discount, service
  <1>7. NonNeg(service - discount) \in Nat /\ NonNeg(subtotal - discount) \in Nat
    BY <1>4 DEF NonNeg
  <1>8. tax \in Nat
    BY <1>6, <1>7
  <1> HIDE DEF tax
  <1>9. NonNeg(subtotal - discount) + tax \in Nat
    BY <1>7, <1>8
  <1> QED BY <1>2, <1>4, <1>5, <1>8, <1>9 DEF nets

LEMMA InvoicesStart == InvoicingInit => VInv
  <1> SUFFICES ASSUME InvoicingInit PROVE VInv
    OBVIOUS
  <1>1. PICK kind \in [Bill -> BillKinds] : bill = [t \in Bill |-> OpenBill(kind[t])]
    BY DEF InvoicingInit
  <1>2. /\ invoice = {} /\ invoiceReq = [r \in InvoiceReq |-> IdleInvoiceReq] /\ invoiceSeq = 0
        /\ billScene \in BillScenes
    BY DEF InvoicingInit
  <1>3. \A t \in Bill : bill[t] \in BillRow /\ RowIsGood(bill[t])
    <2> SUFFICES ASSUME NEW t \in Bill PROVE bill[t] \in BillRow /\ RowIsGood(bill[t])
      OBVIOUS
    <2>1. kind[t] \in BillKinds /\ bill[t] = OpenBill(kind[t])
      BY <1>1
    <2>2. bill[t] \in BillRow
      BY <2>1, InvoiceAssumption DEF OpenBill, BillRow, BillStatus
    <2>3. bill[t].remainderFinalizedAt = FALSE
      BY <2>1 DEF OpenBill
    <2> QED BY <2>2, <2>3 DEF RowIsGood, phase2
  <1>4. bill \in [Bill -> BillRow]
    BY <1>1, <1>3
  <1>5. \A r \in InvoiceReq : /\ invoiceReq[r] = IdleInvoiceReq
                              /\ invoiceReq[r].pc = "idle" /\ invoiceReq[r].ids = {}
    BY <1>2 DEF IdleInvoiceReq
  <1>6. 0 \in 0..InvoiceLimit
    BY InvoiceAssumption
  <1>7. InvoicesAreSound
    BY <1>2, <1>4, <1>5, <1>6
       DEF InvoicesAreSound, InvoicingTypeOK, OnOneInvoice, ProposalNeverBilled, NetIsSumOfNets
  <1> QED BY <1>2, <1>3, <1>5, <1>7 DEF VInv, CallsAreGood, CallIsGood

\* An invoice bills only what the rows that were read allow.
LEMMA BilledIsRead ==
    ASSUME \A inv \in invoice : ReadOf(inv.rows, inv.tickets)
    PROVE  ProposalNeverBilled
  BY DEF ProposalNeverBilled, ReadOf, RowIsGood

\* A step that issues no invoice: a call reads, ends or dies, or a ticket moves.
LEMMA NoInvoiceStep ==
    ASSUME VInv, bill' \in [Bill -> BillRow], \A t \in Bill : RowIsGood(bill'[t]),
           invoice' = invoice, invoiceSeq' = invoiceSeq, billScene' = billScene,
           invoiceReq' = [r \in InvoiceReq |-> invoiceReq'[r]],
           \A r \in InvoiceReq : invoiceReq'[r] = invoiceReq[r] \/ CallIsGood(invoiceReq'[r])
    PROVE  VInv'
  <1>1. /\ InvoicingTypeOK /\ OnOneInvoice /\ NetIsSumOfNets /\ ProposalNeverBilled
        /\ \A r \in InvoiceReq : CallIsGood(invoiceReq[r])
        /\ \A inv \in invoice : ReadOf(inv.rows, inv.tickets)
    BY DEF VInv, InvoicesAreSound, CallsAreGood
  <1>2. \A r \in InvoiceReq : CallIsGood(invoiceReq'[r])
    BY <1>1
  <1>3. CallsAreGood'
    BY <1>1, <1>2 DEF CallsAreGood
  <1>4. InvoicingTypeOK'
    BY <1>1, <1>2 DEF InvoicingTypeOK, CallIsGood
  <1>5. OnOneInvoice' /\ NetIsSumOfNets' /\ ProposalNeverBilled'
    BY <1>1 DEF OnOneInvoice, NetIsSumOfNets, ProposalNeverBilled
  <1> QED BY <1>3, <1>4, <1>5 DEF VInv, InvoicesAreSound

\* The same when only the calls change.
LEMMA CallStep ==
    ASSUME VInv, NEW r \in InvoiceReq, NEW q, invoiceReq' = [invoiceReq EXCEPT ![r] = q],
           CallIsGood(q), UNCHANGED <<bill, invoice, invoiceSeq, billScene>>
    PROVE  VInv'
  <1>1. /\ bill \in [Bill -> BillRow] /\ \A t \in Bill : RowIsGood(bill[t])
        /\ invoiceReq = [o \in InvoiceReq |-> invoiceReq[o]]
        /\ bill' = bill /\ invoice' = invoice /\ invoiceSeq' = invoiceSeq /\ billScene' = billScene
    BY DEF VInv, InvoicesAreSound, InvoicingTypeOK, CallsAreGood
  <1>2. /\ invoiceReq' = [o \in InvoiceReq |-> invoiceReq'[o]]
        /\ \A o \in InvoiceReq : invoiceReq'[o] = IF o = r THEN q ELSE invoiceReq[o]
    BY <1>1
  <1>3. \A o \in InvoiceReq : invoiceReq'[o] = invoiceReq[o] \/ CallIsGood(invoiceReq'[o])
    BY <1>2
  <1> QED BY <1>1, <1>2, <1>3, NoInvoiceStep

LEMMA IdleCall == CallIsGood(IdleInvoiceReq)
  <1>1. IdleInvoiceReq.pc = "idle" /\ IdleInvoiceReq.ids = {}
    BY DEF IdleInvoiceReq
  <1> QED BY <1>1 DEF CallIsGood

LEMMA ScenesAreSmall == VInv => billScene.bills \subseteq Bill /\ billScene.invoices \in 0..InvoiceLimit
  BY InvoiceAssumption DEF VInv, InvoicesAreSound, InvoicingTypeOK

\* generate reads rows that it may invoice.
LEMMA GenerateReadInv ==
    ASSUME VInv, NEW r \in InvoiceReq, NEW ids \in SUBSET Bill, GenerateRead(r, ids)
    PROVE  VInv'
  <1> DEFINE rows == [t \in ids |-> bill[t]]
             q == [IdleInvoiceReq EXCEPT !.pc = "commit", !.ids = ids, !.rows = rows]
  <1>1. /\ invoiceReq' = [invoiceReq EXCEPT ![r] = q]
        /\ UNCHANGED <<bill, invoice, invoiceSeq, billScene>>
        /\ ids # {}
    BY DEF GenerateRead, mayInvoice
  <1>2. bill \in [Bill -> BillRow] /\ \A t \in Bill : RowIsGood(bill[t])
    BY DEF VInv, InvoicesAreSound, InvoicingTypeOK
  <1>3. ReadOf(rows, ids)
    BY <1>2 DEF ReadOf
  <1> HIDE DEF rows
  <1>4. q.pc = "commit" /\ q.ids = ids /\ q.rows = rows
    BY DEF IdleInvoiceReq
  <1> HIDE DEF q
  <1>5. CallIsGood(q)
    BY <1>1, <1>3, <1>4 DEF CallIsGood
  <1> QED BY <1>1, <1>5, CallStep

LEMMA CallsInv ==
    ASSUME VInv, NEW r \in InvoiceReq, Generate(r) \/ AutoIssueInvoice(r) \/ InvoiceReqDies(r)
    PROVE  VInv'
  <1>1. CASE Generate(r)
    BY <1>1, ScenesAreSmall, GenerateReadInv DEF Generate
  <1>2. CASE /\ invoiceReq' = [invoiceReq EXCEPT ![r] = IdleInvoiceReq]
             /\ UNCHANGED <<bill, invoice, invoiceSeq, billScene>>
    BY <1>2, IdleCall, CallStep
  <1>3. CASE AutoIssueInvoice(r)
    <2>1. invoiceReq[r].ids \in SUBSET Bill
      BY DEF VInv, CallsAreGood, CallIsGood
    <2> QED BY <1>2, <1>3, <2>1, GenerateReadInv DEF AutoIssueInvoice
  <1>4. CASE InvoiceReqDies(r)
    BY <1>2, <1>4 DEF InvoiceReqDies
  <1> QED BY <1>1, <1>3, <1>4

\* An edit reads: it will write natural numbers.
LEMMA EditReadInv ==
    ASSUME VInv, NEW t \in Bill, NEW r \in InvoiceReq, UpdateCharge(t, r) \/ RepriceTicket(t, r)
    PROVE  VInv'
  <1>1. /\ bill[t] \in BillRow /\ bill[t].phase2 \in Nat /\ bill[t].service \in Nat
        /\ bill[t].discount \in Nat /\ bill[t].taxRate \in Nat
    <2>1. bill[t] \in BillRow
      BY DEF VInv, InvoicesAreSound, InvoicingTypeOK
    <2> QED BY <2>1 DEF BillRow
  <1>2. ASSUME NEW price \in Prices(t) \cup {bill[t]}, NEW p \in Typed(t) \cup {0}
        PROVE  Columns(price, p) \in EditColumns
    <2>1. p \in Nat
      BY <1>1, InvoiceAssumption DEF Typed
    <2>2. price.service \in Nat /\ price.discount \in Nat /\ price.taxRate \in Nat
      BY <1>1, InvoiceAssumption DEF Prices
    <2> QED BY <2>1, <2>2 DEF Columns, EditColumns
  <1>3. ASSUME NEW kind \in {"charge", "reprice"}, NEW cols \in EditColumns,
               NEW typed \in BOOLEAN, EditRead(t, r, kind, cols, typed)
        PROVE  VInv'
    <2> DEFINE q == [pc |-> kind, ids |-> {t}, rows |-> [b \in {t} |-> cols], typed |-> typed]
    <2>1. /\ invoiceReq' = [invoiceReq EXCEPT ![r] = q]
          /\ UNCHANGED <<bill, invoice, invoiceSeq, billScene>>
      BY <1>3 DEF EditRead
    <2>2. /\ q.pc \in {"charge", "reprice"} /\ q.ids = {t} /\ q.typed \in BOOLEAN
          /\ q.rows \in [{t} -> EditColumns]
      OBVIOUS
    <2> HIDE DEF q
    <2>3. CallIsGood(q)
      BY <2>2 DEF CallIsGood
    <2> QED BY <2>1, <2>3, CallStep
  <1>4. CASE UpdateCharge(t, r)
    <2>1. PICK price \in Prices(t) \cup {bill[t]}, p \in Typed(t), typed \in BOOLEAN :
            EditRead(t, r, "charge", Columns(price, p), typed)
      BY <1>4 DEF UpdateCharge
    <2> QED BY <1>2, <1>3, <2>1
  <1>5. CASE RepriceTicket(t, r)
    <2>1. PICK price \in Prices(t), p \in Typed(t), typed \in BOOLEAN :
            \/ EditRead(t, r, "reprice", Columns(price, p), typed)
            \/ EditRead(t, r, "reprice", Columns(price, 0), TRUE)
      BY <1>5 DEF RepriceTicket
    <2>2. Columns(price, p) \in EditColumns /\ Columns(price, 0) \in EditColumns
      BY <1>2
    <2> QED BY <1>3, <2>1, <2>2
  <1> QED BY <1>4, <1>5

\* The commit: the unique key keeps a ticket off a second invoice.
LEMMA CommitInv ==
    ASSUME VInv, NEW r \in InvoiceReq, GenerateCommit(r)
    PROVE  VInv'
  <1> DEFINE ids == invoiceReq[r].ids
             rows == invoiceReq[r].rows
             total == summariseInvoice(rows)
             new == [invoiceNo |-> invoiceSeq + 1, tickets |-> ids, rows |-> rows, total |-> total]
  <1>1. /\ InvoicingTypeOK /\ OnOneInvoice /\ NetIsSumOfNets /\ billScene.invoices \in 0..InvoiceLimit
        /\ \A t \in Bill : RowIsGood(bill[t])
        /\ invoiceReq = [o \in InvoiceReq |-> invoiceReq[o]]
        /\ \A o \in InvoiceReq : CallIsGood(invoiceReq[o])
        /\ \A inv \in invoice : ReadOf(inv.rows, inv.tickets)
        /\ bill \in [Bill -> BillRow] /\ invoiceSeq \in 0..InvoiceLimit /\ InvoiceLimit \in Nat
    BY ScenesAreSmall, InvoiceAssumption DEF VInv, InvoicesAreSound, CallsAreGood, InvoicingTypeOK
  <1>2. /\ invoiceReq[r].pc = "commit" /\ invoiceSeq < billScene.invoices /\ invoiceSeq' = invoiceSeq + 1
        /\ invoice' = IF uniqueTicketId(ids) THEN invoice \cup {new} ELSE invoice
        /\ invoiceReq' = [invoiceReq EXCEPT ![r] = IdleInvoiceReq]
        /\ bill' = bill /\ billScene' = billScene
    BY DEF GenerateCommit
  <1>3. ids # {} /\ ReadOf(rows, ids) /\ ids \subseteq Bill
    BY <1>1, <1>2 DEF CallIsGood
  <1>4. /\ total \in [subtotal : Nat, discount : Nat, taxAmount : Nat, grandTotal : Nat]
        /\ total.subtotal - total.discount
             = SumFunctionOnSet([t \in ids |-> NonNeg(lineTotal(rows[t]) - rows[t].discount)], ids)
    <2>1. IsFiniteSet(ids)
      BY <1>3, InvoiceAssumption, FS_Subset
    <2>2. rows \in [ids -> BillRow]
      BY <1>3 DEF ReadOf
    <2> HIDE DEF ids, rows
    <2> QED BY <1>3, <2>1, <2>2, Summary
  <1> HIDE DEF ids, rows, total
  <1>5. /\ new.invoiceNo = invoiceSeq + 1 /\ new.tickets = ids /\ new.rows = rows
        /\ new.total = total
    OBVIOUS
  <1> HIDE DEF new
  <1>6. \A inv \in invoice' : inv \in invoice \/ (inv = new /\ uniqueTicketId(ids))
    BY <1>2
  <1>7. /\ invoiceReq' = [o \in InvoiceReq |-> invoiceReq'[o]]
        /\ \A o \in InvoiceReq : invoiceReq'[o] = IF o = r THEN IdleInvoiceReq ELSE invoiceReq[o]
    BY <1>1, <1>2
  <1>8. \A o \in InvoiceReq : CallIsGood(invoiceReq'[o])
    BY <1>1, <1>7, IdleCall
  <1>9. \A inv \in invoice' : ReadOf(inv.rows, inv.tickets)
    BY <1>1, <1>3, <1>5, <1>6
  <1>10. invoiceSeq' \in 0..InvoiceLimit /\ invoiceSeq + 1 \in 1..invoiceSeq'
         /\ 1..invoiceSeq \subseteq 1..invoiceSeq' /\ invoiceSeq + 1 \notin 1..invoiceSeq
    BY <1>1, <1>2
  <1>11. InvoicingTypeOK'
    <2>1. \A inv \in invoice' :
            /\ inv.invoiceNo \in 1..invoiceSeq' /\ inv.tickets \subseteq Bill
            /\ inv.total \in [subtotal : Nat, discount : Nat, taxAmount : Nat, grandTotal : Nat]
      BY <1>1, <1>3, <1>4, <1>5, <1>6, <1>10 DEF InvoicingTypeOK
    <2> QED BY <1>1, <1>2, <1>8, <1>10, <2>1 DEF InvoicingTypeOK, CallIsGood
  <1>12. OnOneInvoice'
    <2>1. ASSUME uniqueTicketId(ids), NEW inv \in invoice
          PROVE  inv.tickets \cap ids = {} /\ inv.invoiceNo # invoiceSeq + 1
      <3>1. inv.tickets \cap ids = {}
        BY <2>1 DEF uniqueTicketId, invoiced
      <3>2. inv.invoiceNo \in 1..invoiceSeq
        BY <1>1 DEF InvoicingTypeOK
      <3> QED BY <1>10, <3>1, <3>2
    <2> QED BY <1>1, <1>5, <1>6, <2>1 DEF OnOneInvoice
  <1>13. NetIsSumOfNets'
    <2> SUFFICES ASSUME NEW inv \in invoice'
                 PROVE  inv.total.subtotal - inv.total.discount =
                          SumFunctionOnSet([t \in inv.tickets |->
                             NonNeg(lineTotal(inv.rows[t]) - inv.rows[t].discount)], inv.tickets)
      BY DEF NetIsSumOfNets
    <2>1. CASE inv \in invoice
      BY <1>1, <2>1 DEF NetIsSumOfNets
    <2>2. CASE inv = new
      BY <1>4, <1>5, <2>2
    <2> QED BY <1>6, <2>1, <2>2
  <1>14. ProposalNeverBilled'
    BY <1>9 DEF ProposalNeverBilled, ReadOf, RowIsGood
  <1> QED BY <1>1, <1>2, <1>7, <1>8, <1>9, <1>11, <1>12, <1>13, <1>14
          DEF VInv, InvoicesAreSound, CallsAreGood

\* One ticket moves, to a row that could be billed.
LEMMA BillStep ==
    ASSUME VInv, NEW t \in Bill, NEW row \in BillRow, RowIsGood(row), Moves(t, row),
           invoiceReq' = [r \in InvoiceReq |-> invoiceReq'[r]],
           \A r \in InvoiceReq : invoiceReq'[r] = invoiceReq[r] \/ CallIsGood(invoiceReq'[r])
    PROVE  VInv'
  <1>1. bill \in [Bill -> BillRow] /\ \A u \in Bill : RowIsGood(bill[u])
    BY DEF VInv, InvoicesAreSound, InvoicingTypeOK
  <1>2. /\ bill' = [bill EXCEPT ![t] = row]
        /\ invoice' = invoice /\ invoiceSeq' = invoiceSeq /\ billScene' = billScene
    BY DEF Moves
  <1>3. /\ bill' \in [Bill -> BillRow]
        /\ \A u \in Bill : bill'[u] = IF u = t THEN row ELSE bill[u]
    BY <1>1, <1>2
  <1>4. \A u \in Bill : RowIsGood(bill'[u])
    BY <1>1, <1>3
  <1> QED BY <1>2, <1>3, <1>4, NoInvoiceStep

\* The rows that the writes of the charges and of the status leave.
LEMMA RowsLeft ==
    ASSUME NEW row \in BillRow, RowIsGood(row), NEW p \in Nat
    PROVE  /\ Approved(row, p) \in BillRow /\ RowIsGood(Approved(row, p))
           /\ Rewritten(row, p) \in BillRow /\ RowIsGood(Rewritten(row, p))
           /\ Finalized(row, p) \in BillRow /\ RowIsGood(Finalized(row, p))
  <1>1. /\ row.phase2 \in Nat /\ row.approved \in Nat /\ row.loose \in BOOLEAN
        /\ row.remainderFinalizedAt \in BOOLEAN
    BY DEF BillRow
  <1>2. Approved(row, p) \in BillRow /\ Rewritten(row, p) \in BillRow
    BY <1>1 DEF Approved, Rewritten, BillRow
  <1>3. /\ Approved(row, p).phase2 = p /\ Approved(row, p).approved = p
        /\ Rewritten(row, p).phase2 = p /\ Rewritten(row, p).approved = row.approved
        /\ Rewritten(row, p).loose = (row.loose \/ p # row.phase2)
        /\ Rewritten(row, p).remainderFinalizedAt = row.remainderFinalizedAt
    BY DEF Approved, Rewritten, BillRow
  <1>4. RowIsGood(Approved(row, p))
    BY <1>3 DEF RowIsGood, phase2
  <1>5. RowIsGood(Rewritten(row, p))
    BY <1>1, <1>3 DEF RowIsGood, phase2
  <1>6. Finalized(row, p) \in BillRow
    BY <1>2 DEF Finalized, BillRow
  <1>7. Finalized(row, p).phase2 = p /\ Finalized(row, p).approved = p
    BY <1>2, <1>3 DEF Finalized, BillRow
  <1>8. RowIsGood(Finalized(row, p))
    BY <1>7 DEF RowIsGood, phase2
  <1> QED BY <1>2, <1>4, <1>5, <1>6, <1>8

\* A write that touches neither the phase-2 columns nor remainderFinalizedAt.
LEMMA OtherColumns ==
    ASSUME NEW row \in BillRow, RowIsGood(row), NEW new \in BillRow,
           new.phase2 = row.phase2, new.approved = row.approved, new.loose = row.loose,
           new.remainderFinalizedAt = row.remainderFinalizedAt
    PROVE  RowIsGood(new)
  BY DEF RowIsGood, phase2

LEMMA StatusRow ==
    ASSUME NEW row \in BillRow, RowIsGood(row), NEW s \in BillStatus
    PROVE  [row EXCEPT !.status = s] \in BillRow /\ RowIsGood([row EXCEPT !.status = s])
  <1> DEFINE new == [row EXCEPT !.status = s]
  <1>1. /\ new \in BillRow /\ new.phase2 = row.phase2 /\ new.approved = row.approved
        /\ new.loose = row.loose /\ new.remainderFinalizedAt = row.remainderFinalizedAt
    BY DEF BillRow
  <1> HIDE DEF new
  <1>2. RowIsGood(new)
    BY <1>1, OtherColumns
  <1> QED BY <1>1, <1>2 DEF new

LEMMA TypedIsNat == VInv => \A t \in Bill : Typed(t) \subseteq Nat
  <1> SUFFICES ASSUME VInv, NEW t \in Bill PROVE Typed(t) \subseteq Nat
    OBVIOUS
  <1>1. bill[t] \in BillRow
    BY DEF VInv, InvoicesAreSound, InvoicingTypeOK
  <1>2. bill[t].phase2 \in Nat
    BY <1>1 DEF BillRow
  <1> QED BY <1>2, InvoiceAssumption DEF Typed

LEMMA TicketsInv ==
    ASSUME VInv, NEW t \in Bill,
           \/ SubmitCosts(t) \/ SaveClerkCharges(t) \/ SendBack(t) \/ FinalizeRemainder(t)
           \/ MoveStatus(t) \/ ArchiveBill(t)
    PROVE  VInv'
  <1>1. /\ bill[t] \in BillRow /\ RowIsGood(bill[t]) /\ Typed(t) \subseteq Nat
        /\ invoiceReq = [r \in InvoiceReq |-> invoiceReq[r]]
    BY TypedIsNat DEF VInv, CallsAreGood, InvoicesAreSound, InvoicingTypeOK
  <1>2. invoiceReq' = invoiceReq
    BY Zenon DEF SubmitCosts, SaveClerkCharges, SendBack, FinalizeRemainder, MoveStatus, ArchiveBill
  <1>3. ASSUME NEW row \in BillRow, RowIsGood(row), Moves(t, row)
        PROVE  VInv'
    <2>1. /\ invoiceReq' = [r \in InvoiceReq |-> invoiceReq'[r]]
          /\ \A r \in InvoiceReq : invoiceReq'[r] = invoiceReq[r]
      BY <1>1, <1>2
    <2> QED BY <1>3, <2>1, BillStep
  <1>4. CASE SubmitCosts(t)
    <2>1. PICK p \in Typed(t) :
            Moves(t, [bill[t] EXCEPT !.status = "WAITING_APPROVAL", !.phase2 = p])
      BY <1>4, Zenon DEF SubmitCosts
    <2> DEFINE row == [bill[t] EXCEPT !.status = "WAITING_APPROVAL", !.phase2 = p]
    <2>2. p \in Nat /\ ~bill[t].remainderFinalizedAt
      BY <1>1, <1>4, Zenon DEF SubmitCosts
    <2>3. row \in BillRow /\ row.remainderFinalizedAt = bill[t].remainderFinalizedAt
      BY <1>1, <2>2 DEF BillRow, BillStatus
    <2>4. Moves(t, row)
      BY <2>1
    <2> HIDE DEF row
    <2>5. RowIsGood(row)
      BY <2>2, <2>3 DEF RowIsGood, phase2
    <2> QED BY <1>3, <2>3, <2>4, <2>5
  <1>5. CASE SaveClerkCharges(t)
    <2>1. PICK p \in Proposal : Moves(t, Rewritten(bill[t], p))
      BY <1>5 DEF SaveClerkCharges
    <2>2. p \in Nat
      BY InvoiceAssumption
    <2> QED BY <1>1, <1>3, <2>1, <2>2, RowsLeft
  <1>6. CASE SendBack(t)
    <2>1. Moves(t, [bill[t] EXCEPT !.status = "IN_PROGRESS"]) /\ "IN_PROGRESS" \in BillStatus
      BY <1>6 DEF SendBack, BillStatus
    <2> QED BY <1>1, <1>3, <2>1, StatusRow
  <1>7. CASE FinalizeRemainder(t)
    <2>1. PICK p \in Typed(t) : Moves(t, Finalized(bill[t], p))
      BY <1>7 DEF FinalizeRemainder
    <2>2. p \in Nat
      BY <1>1
    <2> QED BY <1>1, <1>3, <2>1, <2>2, RowsLeft
  <1>8. CASE MoveStatus(t)
    <2>1. PICK s \in STATUS_TRANSITIONS(bill[t].status)
                       \cup (IF InScene("override") THEN BillStatus ELSE {}) :
            Moves(t, [bill[t] EXCEPT !.status = s])
      BY <1>8 DEF MoveStatus
    <2>2. s \in BillStatus
      BY <2>1 DEF STATUS_TRANSITIONS, BillStatus
    <2> QED BY <1>1, <1>3, <2>1, <2>2, StatusRow
  <1>9. CASE ArchiveBill(t)
    <2> DEFINE row == [bill[t] EXCEPT !.archived = ~bill[t].archived]
    <2>1. Moves(t, row)
      BY <1>9 DEF ArchiveBill
    <2>2. /\ row \in BillRow /\ row.remainderFinalizedAt = bill[t].remainderFinalizedAt
          /\ row.phase2 = bill[t].phase2 /\ row.approved = bill[t].approved
          /\ row.loose = bill[t].loose
      BY <1>1 DEF BillRow
    <2> HIDE DEF row
    <2>3. RowIsGood(row)
      BY <1>1, <2>2, OtherColumns
    <2> QED BY <1>3, <2>1, <2>2, <2>3
  <1> QED BY <1>4, <1>5, <1>6, <1>7, <1>8, <1>9

\* The review sets the final amount, unless it is set, and starts the automatic invoice.
LEMMA ReviewInv ==
    ASSUME VInv, NEW t \in Bill, NEW r \in InvoiceReq, ReviewAndComplete(t, r)
    PROVE  VInv'
  <1> DEFINE q == [IdleInvoiceReq EXCEPT !.pc = "auto", !.ids = {t}]
  <1>1. /\ invoiceReq' = [invoiceReq EXCEPT ![r] = q]
        /\ invoiceReq = [o \in InvoiceReq |-> invoiceReq[o]]
        /\ bill[t] \in BillRow /\ RowIsGood(bill[t]) /\ Typed(t) \subseteq Nat
    BY TypedIsNat DEF ReviewAndComplete, VInv, CallsAreGood, InvoicesAreSound, InvoicingTypeOK
  <1>2. PICK p \in Typed(t), s \in {"COMPLETED", "DELIVERED"} :
          \/ Moves(t, [Finalized(bill[t], p) EXCEPT !.status = s])
          \/ Moves(t, [bill[t] EXCEPT !.status = s])
    BY DEF ReviewAndComplete
  <1>3. q.pc = "auto" /\ q.ids = {t}
    BY DEF IdleInvoiceReq
  <1> HIDE DEF q
  <1>4. /\ invoiceReq' = [o \in InvoiceReq |-> invoiceReq'[o]]
        /\ \A o \in InvoiceReq : invoiceReq'[o] = IF o = r THEN q ELSE invoiceReq[o]
    BY <1>1
  <1>5. \A o \in InvoiceReq : invoiceReq'[o] = invoiceReq[o] \/ CallIsGood(invoiceReq'[o])
    BY <1>3, <1>4 DEF CallIsGood
  <1>6. p \in Nat /\ s \in BillStatus
    BY <1>1 DEF BillStatus
  <1>7. PICK row \in BillRow : RowIsGood(row) /\ Moves(t, row)
    <2>1. CASE Moves(t, [Finalized(bill[t], p) EXCEPT !.status = s])
      <3>1. Finalized(bill[t], p) \in BillRow /\ RowIsGood(Finalized(bill[t], p))
        BY <1>1, <1>6, RowsLeft
      <3> QED BY <1>6, <2>1, <3>1, StatusRow
    <2>2. CASE Moves(t, [bill[t] EXCEPT !.status = s])
      BY <1>1, <1>6, <2>2, StatusRow
    <2> QED BY <1>2, <2>1, <2>2
  <1> QED BY <1>4, <1>5, <1>7, BillStep

\* The write of an edit: what an administrator typed is approved, anything else is an
\* exception as soon as it changes the amount.
LEMMA EditWriteInv ==
    ASSUME VInv, NEW r \in InvoiceReq, EditWrite(r)
    PROVE  VInv'
  <1> DEFINE q == invoiceReq[r]
  <1>1. /\ invoiceReq = [o \in InvoiceReq |-> invoiceReq[o]]
        /\ invoiceReq' = [invoiceReq EXCEPT ![r] = IdleInvoiceReq]
        /\ CallIsGood(q) /\ q.pc \in {"charge", "reprice"}
    BY DEF EditWrite, VInv, CallsAreGood
  <1>2. PICK t \in q.ids :
          LET new == q.rows[t]
              row == IF q.typed THEN Approved(bill[t], new.phase2)
                                ELSE Rewritten(bill[t], new.phase2)
          IN  Moves(t, [row EXCEPT !.service = new.service, !.discount = new.discount,
                                   !.taxRate = IF q.pc = "reprice" THEN new.taxRate
                                                                   ELSE row.taxRate])
    BY Zenon DEF EditWrite
  <1> DEFINE new == q.rows[t]
             mid == IF q.typed THEN Approved(bill[t], new.phase2)
                               ELSE Rewritten(bill[t], new.phase2)
             rate == IF q.pc = "reprice" THEN new.taxRate ELSE mid.taxRate
             row == [mid EXCEPT !.service = new.service, !.discount = new.discount,
                                !.taxRate = rate]
  <1>3. t \in Bill /\ q.rows \in [q.ids -> EditColumns]
    BY <1>1 DEF CallIsGood
  <1>4. Moves(t, row)
    BY <1>2
  <1>5. new \in EditColumns
    BY <1>3
  <1>6. new.service \in Nat /\ new.discount \in Nat /\ new.taxRate \in Nat /\ new.phase2 \in Nat
    BY <1>5 DEF EditColumns
  <1>7. bill[t] \in BillRow /\ RowIsGood(bill[t])
    BY <1>3 DEF VInv, InvoicesAreSound, InvoicingTypeOK
  <1>8. mid \in BillRow /\ RowIsGood(mid)
    BY <1>6, <1>7, RowsLeft
  <1>9. /\ invoiceReq' = [o \in InvoiceReq |-> invoiceReq'[o]]
        /\ \A o \in InvoiceReq : invoiceReq'[o] = IF o = r THEN IdleInvoiceReq ELSE invoiceReq[o]
    BY <1>1
  <1> HIDE DEF q, new, mid
  <1>10. rate \in Nat
    BY <1>6, <1>8, BillTypes
  <1> HIDE DEF rate
  <1>11. /\ row \in BillRow /\ row.phase2 = mid.phase2 /\ row.approved = mid.approved
         /\ row.loose = mid.loose /\ row.remainderFinalizedAt = mid.remainderFinalizedAt
    BY <1>6, <1>8, <1>10 DEF BillRow
  <1> HIDE DEF row
  <1>12. RowIsGood(row)
    BY <1>8, <1>11, OtherColumns
  <1>13. \A o \in InvoiceReq : invoiceReq'[o] = invoiceReq[o] \/ CallIsGood(invoiceReq'[o])
    BY <1>9, IdleCall
  <1> QED BY <1>3, <1>4, <1>9, <1>11, <1>12, <1>13, BillStep

LEMMA InvoicesStutter ==
    ASSUME VInv, UNCHANGED invoiceVars
    PROVE  VInv'
  <1>1. /\ bill' = bill /\ invoice' = invoice /\ invoiceReq' = invoiceReq
        /\ invoiceSeq' = invoiceSeq /\ billScene' = billScene
    BY DEF invoiceVars
  <1>2. bill \in [Bill -> BillRow] /\ (\A t \in Bill : RowIsGood(bill[t]))
        /\ invoiceReq = [r \in InvoiceReq |-> invoiceReq[r]]
    BY DEF VInv, InvoicesAreSound, InvoicingTypeOK, CallsAreGood
  <1>3. bill' \in [Bill -> BillRow] /\ (\A t \in Bill : RowIsGood(bill'[t]))
        /\ invoiceReq' = [r \in InvoiceReq |-> invoiceReq'[r]]
    BY <1>1, <1>2
  <1> QED BY <1>1, <1>3, NoInvoiceStep

\* The invoices: however calls of generate, submissions, drafts, reviews, overrides, edits of
\* the price and the automatic invoice interleave, no ticket is on two invoices, no number is
\* used twice, the phase-2 amount billed is nothing or what an administrator wrote last, the
\* two exceptions of ProposalNeverBilled apart, and a discount never exceeds its own ticket's
\* line (invoices.service.ts generate, invoice-lines.ts summariseInvoice).
THEOREM InvoicesSound == InvoicingSpec => []InvoicesAreSound
  <1>1. InvoicingInit => VInv
    BY InvoicesStart
  <1>2. VInv /\ [InvoicingNext]_invoiceVars => VInv'
    <2> SUFFICES ASSUME VInv, [InvoicingNext]_invoiceVars PROVE VInv'
      OBVIOUS
    <2>1. ASSUME NEW r \in InvoiceReq,
                 \/ Generate(r) \/ AutoIssueInvoice(r) \/ GenerateCommit(r) \/ InvoiceReqDies(r)
                 \/ EditWrite(r)
                 \/ \E t \in Bill : ReviewAndComplete(t, r) \/ UpdateCharge(t, r) \/ RepriceTicket(t, r)
          PROVE  VInv'
      BY <2>1, CallsInv, CommitInv, EditWriteInv, ReviewInv, EditReadInv
    <2>2. ASSUME NEW t \in Bill,
                 \/ SubmitCosts(t) \/ SaveClerkCharges(t) \/ SendBack(t) \/ FinalizeRemainder(t)
                 \/ MoveStatus(t) \/ ArchiveBill(t)
          PROVE  VInv'
      BY <2>2, TicketsInv
    <2>3. CASE UNCHANGED invoiceVars
      BY <2>3, InvoicesStutter
    <2> QED BY <2>1, <2>2, <2>3 DEF InvoicingNext
  <1>3. VInv => InvoicesAreSound
    BY DEF VInv
  <1> QED BY <1>1, <1>2, <1>3, PTL DEF InvoicingSpec

-----------------------------------------------------------------------------
\* Geography.

JobField ==
    {"kind", "state", "phase", "item", "ids", "own", "any", "missing", "disturbed"}

\* The parent of row n of the data set among the ids of a job.
UpOf(ids, n) == IF SeedRows[n].up = 0 THEN 0 ELSE ids[SeedRows[n].up]

\* The cities among those a job has read where an entry of the file belongs.
OwnCities(cities, e) ==
    {c \in cities : /\ c.province = PROVINCE_ALIAS[e.province]
                    /\ c.name \in {e.city, CITY_ALIAS[e.city]}}

\* The rows a job has found or created are there, below each other.
RowsAreThere(j, here) ==
    \A n \in 1..Len(j.ids) : \E r \in here :
        /\ r.id = j.ids[n] /\ r.level = SeedRows[n].level /\ r.name = SeedRows[n].name
        /\ r.parent = UpOf(j.ids, n)

\* What a job has read of the cities is so; and the entries it has passed have a seat.
SeatsAreThere(j, cities, chairs) ==
    /\ j.own \subseteq cities
    /\ \A n \in 1..Len(SeatPlan) : SeatPlan[n].kind = "file" =>
          /\ OwnCities(j.own, SeatPlan[n]) # {}
          /\ n < j.item => \E s \in chairs, c \in OwnCities(j.own, SeatPlan[n]) :
                             s.court = SeatPlan[n].court /\ s.city = c.id

\* A job that is about to create a row repeats none of another job.
NewRow(j, here) ==
    \A r \in here : /\ r.level = SeedRows[j.item].level /\ r.name = SeedRows[j.item].name
                     /\ r.parent = Up(j)
                     => r.by = "admin"

RunIsGood(j, here, cities, chairs) ==
    /\ j.phase = "places" =>
         /\ Len(j.ids) = j.item - 1 /\ j.item <= Len(SeedRows) + 1
         /\ j.missing # "no" => j.missing = "create" /\ j.item <= Len(SeedRows) /\ NewRow(j, here)
    /\ j.phase = "courts" => Len(j.ids) = Len(SeedRows)
    /\ ~j.disturbed =>
         RowsAreThere(j, here) /\ (j.phase = "courts" => SeatsAreThere(j, cities, chairs))

SeedJobIsGood(j, here, cities, chairs) ==
    /\ DOMAIN j = JobField /\ j.item \in Nat \ {0} /\ j.ids \in Seq(Nat)
    /\ j.state = "queued" => j.phase = "places" /\ j.item = 1 /\ j.ids = <<>> /\ j.missing = "no"
    /\ j.state = "running" => RunIsGood(j, here, cities, chairs)

\* A job runs when those before it are over.
Serial ==
    \A i, k \in 1..Len(jobs) :
        k < i /\ jobs[i].state = "running" => jobs[k].state \notin {"queued", "running"}

\* A clean tree is what the database holds, and nothing is about to write to it.
TreesAreClean ==
    /\ DOMAIN cached = {"tree", "clean", "state"}
    /\ cached.clean => ~Pending /\ cached.tree = tree
    /\ \A q \in GeoSlot : geoReq[q].op = "tree" =>
         /\ DOMAIN geoReq[q] = {"op", "tree", "clean"}
         /\ geoReq[q].clean => ~Pending /\ geoReq[q].tree = tree

\* The inductive invariant.
GInv ==
    /\ Len(jobs) \in Nat /\ jobs = [k \in 1..Len(jobs) |-> jobs[k]]
    /\ geoReq = [q \in GeoSlot |-> geoReq[q]]
    /\ nextPlace \in Nat /\ \A r \in places : r.id \in Nat
    /\ Serial /\ \A k \in 1..Len(jobs) : SeedJobIsGood(jobs[k], places, cityRows, seats)
    /\ SeededOnce /\ TreesAreClean

LEMMA SeqOf ==
    ASSUME NEW n \in Nat, NEW f, f = [k \in 1..n |-> f[k]]
    PROVE  Len(f) = n
  <1> DEFINE S == {f[k] : k \in 1..n}
  <1>1. f \in [1..n -> S] /\ DOMAIN f = 1..n
    OBVIOUS
  <1>2. f \in Seq(S)
    BY <1>1, SeqDef
  <1> HIDE DEF S
  <1>3. Len(f) \in Nat /\ DOMAIN f = 1..Len(f)
    BY <1>2, LenProperties
  <1> QED BY <1>1, <1>3

\* One job is appended.
LEMMA JobAppended ==
    ASSUME NEW js, Len(js) \in Nat, js = [k \in 1..Len(js) |-> js[k]], NEW j
    PROVE  LET after == Append(js, j) IN
           /\ Len(after) = Len(js) + 1 /\ after = [k \in 1..(Len(js) + 1) |-> after[k]]
           /\ after[Len(js) + 1] = j /\ \A k \in 1..Len(js) : after[k] = js[k]
  <1> DEFINE n == Len(js)
             S == {js[k] : k \in 1..n} \cup {j}
             after == Append(js, j)
  <1>1. js \in [1..n -> S] /\ j \in S
    OBVIOUS
  <1>2. js \in Seq(S)
    BY <1>1, SeqDef
  <1> HIDE DEF S
  <1>3. /\ after \in Seq(S) /\ Len(after) = n + 1 /\ after[n + 1] = j
        /\ \A k \in 1..n : after[k] = js[k]
    BY <1>1, <1>2, AppendProperties
  <1>4. DOMAIN after = 1..(n + 1) /\ after = [k \in DOMAIN after |-> after[k]]
    BY <1>3, LenProperties
  <1> QED BY <1>3, <1>4

\* What is there stays there while rows are added.
LEMMA CitiesGrow == ASSUME places \subseteq places' PROVE cityRows \subseteq cityRows'
  BY DEF cityRows

\* A job that does not run depends on no row.
LEMMA IdleGood ==
    ASSUME NEW j, SeedJobIsGood(j, places, cityRows, seats), j.state # "running"
    PROVE  SeedJobIsGood(j, places', cityRows', seats')
  BY DEF SeedJobIsGood

LEMMA Grows ==
    ASSUME NEW j, SeedJobIsGood(j, places, cityRows, seats), places \subseteq places',
           j.missing # "no" => \A r \in places' \ places : r.by = "admin",
           \A s \in seats : \E t \in seats' : t.court = s.court /\ t.city = s.city
    PROVE  SeedJobIsGood(j, places', cityRows', seats')
  <1>1. NewRow(j, places) /\ j.missing # "no" => NewRow(j, places')
    BY DEF NewRow, Up
  <1>2. RowsAreThere(j, places) => RowsAreThere(j, places')
    BY DEF RowsAreThere
  <1>3. SeatsAreThere(j, cityRows, seats) => SeatsAreThere(j, cityRows', seats')
    BY CitiesGrow DEF SeatsAreThere
  <1> QED BY <1>1, <1>2, <1>3 DEF SeedJobIsGood, RunIsGood

LEMMA OneRuns ==
    ASSUME GInv, NEW i \in 1..Len(jobs), NEW k \in 1..Len(jobs), k # i,
           jobs[i].state = "running" \/ startable(i)
    PROVE  jobs[k].state # "running"
  BY DEF GInv, Serial, startable

\* The job that runs, or starts to, makes a step; what it writes harms no other.
LEMMA RunStep ==
    ASSUME GInv, NEW i \in 1..Len(jobs), jobs[i].state = "running" \/ startable(i),
           NEW j, jobs' = [jobs EXCEPT ![i] = j],
           SeedJobIsGood(j, places', cityRows', seats'), j.state # "queued"
    PROVE  /\ Len(jobs') \in Nat /\ jobs' = [k \in 1..Len(jobs') |-> jobs'[k]]
           /\ Serial' /\ \A k \in 1..Len(jobs') : SeedJobIsGood(jobs'[k], places', cityRows', seats')
  <1> DEFINE n == Len(jobs)
  <1>1. n \in Nat /\ jobs = [k \in 1..n |-> jobs[k]] /\ Serial
        /\ \A k \in 1..n : SeedJobIsGood(jobs[k], places, cityRows, seats)
    BY DEF GInv
  <1>0. i \in 1..n /\ jobs' = [jobs EXCEPT ![i] = j]
    OBVIOUS
  <1> HIDE DEF n
  <1>2. /\ Len(jobs') = n /\ jobs' = [k \in 1..n |-> jobs'[k]]
        /\ jobs'[i] = j /\ \A k \in 1..n : k # i => jobs'[k] = jobs[k]
    <2>1. /\ jobs' = [k \in 1..n |-> jobs'[k]]
          /\ jobs'[i] = j /\ \A k \in 1..n : k # i => jobs'[k] = jobs[k]
      BY <1>0, <1>1
    <2>2. Len(jobs') = n
      BY <1>1, <2>1, SeqOf
    <2> QED BY <2>1, <2>2
  <1>3. \A k \in 1..n : k # i => jobs[k].state # "running"
    BY OneRuns DEF n
  <1>4. \A k \in 1..(i - 1) : jobs[k].state \notin {"queued", "running"}
    BY <1>0, <1>1 DEF Serial, startable, n
  <1>5. Serial'
    BY <1>0, <1>1, <1>2, <1>3, <1>4 DEF Serial, n
  <1>6. \A k \in 1..n : SeedJobIsGood(jobs'[k], places', cityRows', seats')
    BY <1>1, <1>2, <1>3, IdleGood
  <1> QED BY <1>1, <1>2, <1>5, <1>6

\* Steps that touch no job, while rows and seats are kept.
LEMMA StillJobs ==
    ASSUME GInv, jobs' = jobs, places \subseteq places',
           \A r \in places' \ places : r.by = "admin",
           \A s \in seats : \E t \in seats' : t.court = s.court /\ t.city = s.city
    PROVE  /\ Len(jobs') \in Nat /\ jobs' = [k \in 1..Len(jobs') |-> jobs'[k]]
           /\ Serial' /\ \A k \in 1..Len(jobs') : SeedJobIsGood(jobs'[k], places', cityRows', seats')
  BY Grows DEF GInv, Serial

\* Trees: nothing is clean; somebody is about to write; or nobody is, before and after.
LEMMA NoneClean ==
    ASSUME DOMAIN cached' = {"tree", "clean", "state"}, ~cached'.clean,
           \A q \in GeoSlot : geoReq'[q].op = "tree" =>
              DOMAIN geoReq'[q] = {"op", "tree", "clean"} /\ ~geoReq'[q].clean
    PROVE  TreesAreClean'
  BY DEF TreesAreClean

LEMMA BusyClean ==
    ASSUME TreesAreClean, Pending, cached' = cached,
           \A q \in GeoSlot : geoReq'[q] = geoReq[q] \/ geoReq'[q].op # "tree"
    PROVE  TreesAreClean'
  BY DEF TreesAreClean

LEMMA CalmClean ==
    ASSUME TreesAreClean, places' = places, jobs' = jobs, cached' = cached,
           \A q \in GeoSlot : geoReq'[q] = geoReq[q]
                              \/ geoReq'[q].op \notin {"tree", "create", "delete"}
    PROVE  TreesAreClean'
  <1>1. tree' = tree
    BY DEF tree
  <1>2. Pending' => Pending
    BY DEF Pending
  <1> QED BY <1>1, <1>2 DEF TreesAreClean

LEMMA CrossedIs ==
    ASSUME TreesAreClean, NEW q \in GeoSlot
    PROVE  Crossed[q].op = "tree" =>
             DOMAIN Crossed[q] = {"op", "tree", "clean"} /\ ~Crossed[q].clean
  <1>1. CASE geoReq[q].op = "tree"
    <2>1. Crossed[q] = [geoReq[q] EXCEPT !.clean = FALSE]
      BY <1>1 DEF Crossed
    <2>2. DOMAIN geoReq[q] = {"op", "tree", "clean"}
      BY <1>1 DEF TreesAreClean
    <2> QED BY <2>1, <2>2
  <1>2. CASE geoReq[q].op # "tree"
    BY <1>2 DEF Crossed
  <1> QED BY <1>1, <1>2

LEMMA RunningIsPending ==
    ASSUME NEW i \in 1..Len(jobs), jobs[i].state \in {"queued", "running"} PROVE Pending
  BY DEF Pending

\* Steps of requests that write nothing.
LEMMA QuietInv ==
    ASSUME GInv, places' = places, jobs' = jobs, seats' = seats, nextPlace' = nextPlace,
           geoReq' = [q \in GeoSlot |-> geoReq'[q]], TreesAreClean'
    PROVE  GInv'
  <1>1. SeededOnce'
    BY DEF GInv, SeededOnce
  <1>2. /\ Len(jobs') \in Nat /\ jobs' = [k \in 1..Len(jobs') |-> jobs'[k]]
        /\ Serial' /\ \A k \in 1..Len(jobs') : SeedJobIsGood(jobs'[k], places', cityRows', seats')
    BY StillJobs
  <1> QED BY <1>1, <1>2 DEF GInv

LEMMA FullTreeInv == ASSUME GInv, NEW q \in GeoSlot, FullTree(q) PROVE GInv'
  <1> DEFINE calm == ~Pending
             new == [op |-> "tree", tree |-> tree, clean |-> calm]
  <1>1. /\ geoReq' = [geoReq EXCEPT ![q] = new] /\ geoReq[q].op = "none"
        /\ UNCHANGED <<places, nextPlace, seats, jobs, cached>>
    BY DEF FullTree, NoRequest
  <1>2. geoReq = [u \in GeoSlot |-> geoReq[u]] /\ TreesAreClean
    BY DEF GInv
  <1>3. /\ new.op = "tree" /\ DOMAIN new = {"op", "tree", "clean"} /\ new.tree = tree
        /\ (new.clean => ~Pending)
    OBVIOUS
  <1> HIDE DEF new
  <1>4. geoReq' = [u \in GeoSlot |-> geoReq'[u]] /\ geoReq'[q] = new
        /\ \A u \in GeoSlot : u # q => geoReq'[u] = geoReq[u]
    BY <1>1, <1>2
  <1>5. tree' = tree
    BY <1>1 DEF tree
  <1>6. Pending' => Pending
    BY <1>1, <1>3, <1>4 DEF Pending
  <1>7. TreesAreClean'
    BY <1>1, <1>2, <1>3, <1>4, <1>5, <1>6 DEF TreesAreClean
  <1> QED BY <1>1, <1>4, <1>7, QuietInv

LEMMA TreeBuiltInv == ASSUME GInv, NEW q \in GeoSlot, TreeBuilt(q) PROVE GInv'
  <1> DEFINE new == [tree |-> geoReq[q].tree, clean |-> geoReq[q].clean, state |-> "fresh"]
  <1>1. /\ cached' = new /\ geoReq' = [geoReq EXCEPT ![q] = NoRequest] /\ geoReq[q].op = "tree"
        /\ UNCHANGED <<places, nextPlace, seats, jobs>>
    BY DEF TreeBuilt
  <1>2. geoReq = [u \in GeoSlot |-> geoReq[u]] /\ TreesAreClean /\ NoRequest.op = "none"
    BY DEF GInv, NoRequest
  <1>3. geoReq' = [u \in GeoSlot |-> geoReq'[u]] /\ geoReq'[q] = NoRequest
        /\ \A u \in GeoSlot : u # q => geoReq'[u] = geoReq[u]
    BY <1>1, <1>2
  <1>4. tree' = tree
    BY <1>1 DEF tree
  <1>5. Pending' => Pending
    BY <1>1, <1>2, <1>3 DEF Pending
  <1>6. /\ DOMAIN new = {"tree", "clean", "state"} /\ new.clean = geoReq[q].clean
        /\ new.tree = geoReq[q].tree
    OBVIOUS
  <1> HIDE DEF new
  <1>7. TreesAreClean'
    BY <1>1, <1>2, <1>3, <1>4, <1>5, <1>6 DEF TreesAreClean
  <1> QED BY <1>1, <1>3, <1>7, QuietInv

LEMMA CacheExpiresInv == ASSUME GInv, CacheExpires PROVE GInv'
  <1>1. /\ cached' = [cached EXCEPT !.state = "expired"]
        /\ UNCHANGED <<places, nextPlace, seats, jobs, geoReq>>
    BY DEF CacheExpires
  <1>2. geoReq = [u \in GeoSlot |-> geoReq[u]] /\ TreesAreClean
    BY DEF GInv
  <1>3. tree' = tree /\ (Pending' => Pending)
    BY <1>1 DEF tree, Pending
  <1>4. /\ DOMAIN cached' = {"tree", "clean", "state"} /\ cached'.clean = cached.clean
        /\ cached'.tree = cached.tree
    BY <1>1, <1>2 DEF TreesAreClean
  <1>5. TreesAreClean'
    BY <1>1, <1>2, <1>3, <1>4 DEF TreesAreClean
  <1> QED BY <1>1, <1>2, <1>5, QuietInv

\* A request to write, or to copy.
LEMMA AskInv ==
    ASSUME GInv, NEW q \in GeoSlot, NEW new, new.op # "tree", cached' = NoTree,
           geoReq' = [Crossed EXCEPT ![q] = new], UNCHANGED <<places, nextPlace, seats, jobs>>
    PROVE  GInv'
  <1>1. TreesAreClean
    BY DEF GInv
  <1>2. geoReq' = [u \in GeoSlot |-> geoReq'[u]] /\ geoReq'[q] = new
        /\ \A u \in GeoSlot : u # q => geoReq'[u] = Crossed[u]
    BY DEF Crossed
  <1>3. DOMAIN cached' = {"tree", "clean", "state"} /\ ~cached'.clean
    BY DEF NoTree
  <1>4. \A u \in GeoSlot : geoReq'[u].op = "tree" =>
           DOMAIN geoReq'[u] = {"op", "tree", "clean"} /\ ~geoReq'[u].clean
    BY <1>1, <1>2, CrossedIs
  <1>5. TreesAreClean'
    BY <1>3, <1>4, NoneClean
  <1> QED BY <1>2, <1>5, QuietInv

LEMMA CreatePlaceInv ==
    ASSUME GInv, NEW q \in GeoSlot, NEW level, NEW name, NEW up, CreatePlace(q, level, name, up)
    PROVE  GInv'
  <1> DEFINE new == [op |-> "create", level |-> level, name |-> name, up |-> up]
  <1>1. /\ cached' = NoTree /\ geoReq' = [Crossed EXCEPT ![q] = new]
        /\ UNCHANGED <<places, nextPlace, seats, jobs>>
    BY DEF CreatePlace
  <1>2. new.op # "tree"
    OBVIOUS
  <1> HIDE DEF new
  <1> QED BY <1>1, <1>2, AskInv

LEMMA DeletePlaceInv ==
    ASSUME GInv, NEW q \in GeoSlot, NEW id, DeletePlace(q, id) PROVE GInv'
  <1> DEFINE new == [op |-> "delete", id |-> id]
  <1>1. /\ cached' = NoTree /\ geoReq' = [Crossed EXCEPT ![q] = new]
        /\ UNCHANGED <<places, nextPlace, seats, jobs>>
    BY DEF DeletePlace
  <1>2. new.op # "tree"
    OBVIOUS
  <1> HIDE DEF new
  <1> QED BY <1>1, <1>2, AskInv

LEMMA CopyInv ==
    ASSUME GInv, NEW q \in GeoSlot, NEW target, NEW source, CopyCourtSeats(q, target, source)
    PROVE  GInv'
  <1> DEFINE copied == {s \in seats : s.city = source}
             new == [op |-> "copy", target |-> target, copied |-> copied]
  <1>1. /\ geoReq' = [geoReq EXCEPT ![q] = new]
        /\ UNCHANGED <<places, nextPlace, seats, jobs, cached>>
    BY DEF CopyCourtSeats
  <1>2. new.op = "copy"
    OBVIOUS
  <1> HIDE DEF new
  <1>3. geoReq = [u \in GeoSlot |-> geoReq[u]] /\ TreesAreClean
    BY DEF GInv
  <1>4. geoReq' = [u \in GeoSlot |-> geoReq'[u]] /\ geoReq'[q] = new
        /\ \A u \in GeoSlot : u # q => geoReq'[u] = geoReq[u]
    BY <1>1, <1>3
  <1>5. TreesAreClean'
    BY <1>1, <1>2, <1>3, <1>4, CalmClean
  <1> QED BY <1>1, <1>4, <1>5, QuietInv

\* A request is over.
LEMMA RequestOver ==
    ASSUME GInv, NEW q \in GeoSlot, geoReq' = [geoReq EXCEPT ![q] = NoRequest]
    PROVE  /\ geoReq' = [u \in GeoSlot |-> geoReq'[u]]
           /\ \A u \in GeoSlot : geoReq'[u] = geoReq[u] \/ geoReq'[u].op = "none"
  <1>1. geoReq = [u \in GeoSlot |-> geoReq[u]] /\ NoRequest.op = "none"
    BY DEF GInv, NoRequest
  <1> QED BY <1>1

LEMMA SeatsCopiedInv == ASSUME GInv, NEW q \in GeoSlot, SeatsCopied(q) PROVE GInv'
  <1>1. /\ geoReq' = [geoReq EXCEPT ![q] = NoRequest] /\ seats \subseteq seats'
        /\ UNCHANGED <<places, nextPlace, jobs, cached>>
    BY DEF SeatsCopied
  <1>2. /\ geoReq' = [u \in GeoSlot |-> geoReq'[u]]
        /\ \A u \in GeoSlot : geoReq'[u] = geoReq[u] \/ geoReq'[u].op = "none"
    BY <1>1, RequestOver
  <1>3. TreesAreClean'
    BY <1>1, <1>2, CalmClean DEF GInv
  <1>4. /\ Len(jobs') \in Nat /\ jobs' = [k \in 1..Len(jobs') |-> jobs'[k]]
        /\ Serial' /\ \A k \in 1..Len(jobs') : SeedJobIsGood(jobs'[k], places', cityRows', seats')
    BY <1>1, StillJobs
  <1> QED BY <1>1, <1>2, <1>3, <1>4 DEF GInv, SeededOnce

\* A row is inserted.
LEMMA InsertIs ==
    ASSUME GInv, NEW level, NEW name, NEW up, NEW by, Insert(level, name, up, by)
    PROVE  /\ nextPlace' \in Nat /\ \A r \in places' : r.id \in Nat
           /\ places \subseteq places'
           /\ \A r \in places' \ places : /\ r.by = by /\ r.level = level /\ r.name = name
                                          /\ r.parent = up
           /\ \E r \in places' : /\ r.id = nextPlace /\ r.level = level /\ r.name = name
                                 /\ r.parent = up
  <1> DEFINE new == [id |-> nextPlace, level |-> level, name |-> name, parent |-> up, by |-> by]
  <1>1. places' = places \cup {new} /\ nextPlace' = nextPlace + 1
    BY DEF Insert
  <1>2. new.id = nextPlace /\ new.level = level /\ new.name = name /\ new.parent = up
        /\ new.by = by
    OBVIOUS
  <1> HIDE DEF new
  <1> QED BY <1>1, <1>2 DEF GInv

LEMMA PlaceCreatedInv == ASSUME GInv, NEW q \in GeoSlot, PlaceCreated(q) PROVE GInv'
  <1> DEFINE c == geoReq[q]
  <1>1. /\ c.op = "create" /\ geoReq' = [geoReq EXCEPT ![q] = NoRequest]
        /\ UNCHANGED <<seats, jobs, cached>>
        /\ Insert(c.level, c.name, c.up, "admin") \/ UNCHANGED <<places, nextPlace>>
    BY DEF PlaceCreated
  <1>2. /\ geoReq' = [u \in GeoSlot |-> geoReq'[u]]
        /\ \A u \in GeoSlot : geoReq'[u] = geoReq[u] \/ geoReq'[u].op = "none"
    BY <1>1, RequestOver
  <1>3. /\ places \subseteq places' /\ nextPlace' \in Nat /\ \A r \in places' : r.id \in Nat
        /\ \A r \in places' \ places : r.by = "admin"
    BY <1>1, InsertIs DEF GInv
  <1>4. Pending
    BY <1>1 DEF Pending
  <1>5. TreesAreClean'
    BY <1>1, <1>2, <1>4, BusyClean DEF GInv
  <1>6. SeededOnce'
    BY <1>3 DEF GInv, SeededOnce
  <1>7. /\ Len(jobs') \in Nat /\ jobs' = [k \in 1..Len(jobs') |-> jobs'[k]]
        /\ Serial' /\ \A k \in 1..Len(jobs') : SeedJobIsGood(jobs'[k], places', cityRows', seats')
    BY <1>1, <1>3, StillJobs
  <1> QED BY <1>2, <1>3, <1>5, <1>6, <1>7 DEF GInv

\* A job that is disturbed promises no rows.
LEMMA DisturbedGood ==
    ASSUME NEW j, SeedJobIsGood(j, places, cityRows, seats), places' \subseteq places,
           NEW u, u = [j EXCEPT !.disturbed = TRUE]
    PROVE  SeedJobIsGood(u, places', cityRows', seats') /\ u.state = j.state
  <1>1. DOMAIN j = JobField
    BY DEF SeedJobIsGood
  <1>2. /\ DOMAIN u = JobField /\ u.disturbed /\ u.state = j.state /\ u.phase = j.phase
        /\ u.item = j.item /\ u.ids = j.ids /\ u.missing = j.missing
    BY <1>1 DEF JobField
  <1>3. NewRow(j, places) => NewRow(u, places')
    BY <1>2 DEF NewRow, Up
  <1> QED BY <1>2, <1>3 DEF SeedJobIsGood, RunIsGood

LEMMA PlaceDeletedInv == ASSUME GInv, NEW q \in GeoSlot, PlaceDeleted(q) PROVE GInv'
  <1> DEFINE id == geoReq[q].id
             goes == \A r \in places : r.parent # id
             marked == [i \in 1..Len(jobs) |-> [jobs[i] EXCEPT !.disturbed = TRUE]]
  <1>1. /\ geoReq[q].op = "delete" /\ geoReq' = [geoReq EXCEPT ![q] = NoRequest]
        /\ UNCHANGED <<nextPlace, cached>>
    BY DEF PlaceDeleted
  <1>2. \/ places' \subseteq places /\ jobs' = marked
        \/ UNCHANGED <<places, seats, jobs>>
    BY DEF PlaceDeleted
  <1> HIDE DEF id, goes
  <1>3. /\ geoReq' = [u \in GeoSlot |-> geoReq'[u]]
        /\ \A u \in GeoSlot : geoReq'[u] = geoReq[u] \/ geoReq'[u].op = "none"
    BY <1>1, RequestOver
  <1>4. Pending
    BY <1>1 DEF Pending
  <1>5. TreesAreClean'
    BY <1>1, <1>3, <1>4, BusyClean DEF GInv
  <1>6. SeededOnce' /\ nextPlace' \in Nat /\ \A r \in places' : r.id \in Nat
    BY <1>1, <1>2 DEF GInv, SeededOnce
  <1>7. CASE UNCHANGED <<places, seats, jobs>>
    <2>1. /\ Len(jobs') \in Nat /\ jobs' = [k \in 1..Len(jobs') |-> jobs'[k]]
          /\ Serial' /\ \A k \in 1..Len(jobs') : SeedJobIsGood(jobs'[k], places', cityRows', seats')
      BY <1>7, StillJobs
    <2> QED BY <1>3, <1>5, <1>6, <2>1 DEF GInv
  <1>8. CASE places' \subseteq places /\ jobs' = marked
    <2> DEFINE n == Len(jobs)
    <2>1. n \in Nat /\ Serial /\ \A k \in 1..n : SeedJobIsGood(jobs[k], places, cityRows, seats)
      BY DEF GInv
    <2>2. /\ jobs' = [k \in 1..n |-> jobs'[k]]
          /\ \A k \in 1..n : jobs'[k] = [jobs[k] EXCEPT !.disturbed = TRUE]
      BY <1>8
    <2> HIDE DEF n
    <2>3. Len(jobs') = n
      BY <2>1, <2>2, SeqOf
    <2>4. \A k \in 1..n : /\ SeedJobIsGood(jobs'[k], places', cityRows', seats')
                          /\ jobs'[k].state = jobs[k].state
      BY <1>8, <2>1, <2>2, DisturbedGood
    <2>5. Serial'
      BY <2>1, <2>3, <2>4 DEF Serial, n
    <2> QED BY <1>3, <1>5, <1>6, <2>1, <2>2, <2>3, <2>4, <2>5 DEF GInv
  <1> QED BY <1>2, <1>7, <1>8

LEMMA SeedInv == ASSUME GInv, NEW kind, Seed(kind) PROVE GInv'
  <1> DEFINE n == Len(jobs)
             new == [kind |-> kind, state |-> "queued", phase |-> "places", item |-> 1,
                     ids |-> <<>>, own |-> {}, any |-> {}, missing |-> "no",
                     disturbed |-> FALSE]
  <1>1. /\ cached' = NoTree /\ geoReq' = Crossed /\ jobs' = Append(jobs, new)
        /\ UNCHANGED <<places, nextPlace, seats>>
    BY DEF Seed
  <1>2. /\ n \in Nat /\ jobs = [k \in 1..n |-> jobs[k]] /\ Serial
        /\ \A k \in 1..n : SeedJobIsGood(jobs[k], places, cityRows, seats)
    BY DEF GInv
  <1>3. new.state = "queued" /\ SeedJobIsGood(new, places', cityRows', seats')
    BY EmptySeq DEF SeedJobIsGood, JobField
  <1> HIDE DEF new
  <1>4. /\ Len(jobs') = n + 1 /\ jobs' = [k \in 1..(n + 1) |-> jobs'[k]]
        /\ jobs'[n + 1] = new /\ \A k \in 1..n : jobs'[k] = jobs[k]
    BY <1>1, <1>2, JobAppended
  <1> HIDE DEF n
  <1>5. \A k \in 1..(n + 1) : k = n + 1 \/ k \in 1..n
    BY <1>2
  <1>6. cityRows' = cityRows
    BY <1>1 DEF cityRows
  <1>7. \A k \in 1..(n + 1) : SeedJobIsGood(jobs'[k], places', cityRows', seats')
    BY <1>1, <1>2, <1>3, <1>4, <1>5, <1>6
  <1>8. Serial'
    BY <1>2, <1>3, <1>4, <1>5 DEF Serial, n
  <1>9. geoReq' = [u \in GeoSlot |-> geoReq'[u]] /\ \A u \in GeoSlot : geoReq'[u] = Crossed[u]
    BY <1>1 DEF Crossed
  <1>10. DOMAIN cached' = {"tree", "clean", "state"} /\ ~cached'.clean
    BY <1>1 DEF NoTree
  <1>11. TreesAreClean'
    BY <1>9, <1>10, CrossedIs, NoneClean DEF GInv
  <1>12. SeededOnce' /\ nextPlace' \in Nat /\ \A r \in places' : r.id \in Nat
    BY <1>1 DEF GInv, SeededOnce
  <1> QED BY <1>2, <1>4, <1>7, <1>8, <1>9, <1>11, <1>12 DEF GInv

LEMMA GeoProcessEndsInv == ASSUME GInv, GeoProcessEnds PROVE GInv'
  <1> DEFINE n == Len(jobs)
             cut(k) == IF jobs[k].state = "done" THEN jobs[k]
                       ELSE [jobs[k] EXCEPT !.state = "failed"]
  <1>1. /\ jobs' = [k \in 1..n |-> cut(k)] /\ geoReq' = [q \in GeoSlot |-> NoRequest]
        /\ cached' = NoTree /\ UNCHANGED <<places, nextPlace, seats>>
    BY DEF GeoProcessEnds
  <1>2. n \in Nat /\ \A k \in 1..n : SeedJobIsGood(jobs[k], places, cityRows, seats)
    BY DEF GInv
  <1>3. ASSUME NEW k \in 1..n
        PROVE  /\ SeedJobIsGood(cut(k), places', cityRows', seats')
               /\ cut(k).state \in {"done", "failed"}
    <2> DEFINE j == jobs[k]
    <2>1. SeedJobIsGood(j, places, cityRows, seats)
      BY <1>2
    <2>2. CASE j.state = "done"
      BY <2>1, <2>2, IdleGood
    <2>3. CASE j.state # "done"
      <3> DEFINE u == [j EXCEPT !.state = "failed"]
      <3>1. cut(k) = u
        BY <2>3
      <3> HIDE DEF j
      <3>2. DOMAIN u = JobField /\ u.state = "failed" /\ u.item = j.item /\ u.ids = j.ids
        BY <2>1 DEF SeedJobIsGood, JobField
      <3> HIDE DEF u, cut
      <3> QED BY <2>1, <3>1, <3>2 DEF SeedJobIsGood
    <2> QED BY <2>2, <2>3
  <1> HIDE DEF cut
  <1>4. jobs' = [k \in 1..n |-> jobs'[k]] /\ \A k \in 1..n : jobs'[k] = cut(k)
    BY <1>1
  <1> HIDE DEF n
  <1>5. Len(jobs') = n
    BY <1>2, <1>4, SeqOf
  <1>6. Serial'
    BY <1>3, <1>4, <1>5 DEF Serial
  <1>7. geoReq' = [u \in GeoSlot |-> geoReq'[u]] /\ \A u \in GeoSlot : geoReq'[u].op # "tree"
    BY <1>1 DEF NoRequest
  <1>8. DOMAIN cached' = {"tree", "clean", "state"} /\ ~cached'.clean
    BY <1>1 DEF NoTree
  <1>9. TreesAreClean'
    BY <1>7, <1>8, NoneClean
  <1>10. SeededOnce' /\ nextPlace' \in Nat /\ \A r \in places' : r.id \in Nat
    BY <1>1 DEF GInv, SeededOnce
  <1> QED BY <1>2, <1>3, <1>4, <1>5, <1>6, <1>7, <1>9, <1>10 DEF GInv

\* A step of the job that runs, or starts to.
LEMMA JobStep ==
    ASSUME GInv, NEW i \in 1..Len(jobs), jobs[i].state = "running" \/ startable(i),
           NEW j, jobs' = [jobs EXCEPT ![i] = j],
           SeedJobIsGood(j, places', cityRows', seats'), j.state # "queued",
           UNCHANGED <<geoReq, cached>>, nextPlace' \in Nat, \A r \in places' : r.id \in Nat,
           SeededOnce'
    PROVE  GInv'
  <1>1. Pending
    BY RunningIsPending DEF startable
  <1>2. TreesAreClean'
    BY <1>1, BusyClean DEF GInv
  <1>3. geoReq' = [q \in GeoSlot |-> geoReq'[q]]
    BY DEF GInv
  <1>4. /\ Len(jobs') \in Nat /\ jobs' = [k \in 1..Len(jobs') |-> jobs'[k]]
        /\ Serial' /\ \A k \in 1..Len(jobs') : SeedJobIsGood(jobs'[k], places', cityRows', seats')
    BY RunStep
  <1> QED BY <1>2, <1>3, <1>4 DEF GInv

LEMMA JobOver ==
    ASSUME NEW j, NEW here, NEW cities, NEW chairs, SeedJobIsGood(j, here, cities, chairs),
           NEW s \in {"done", "failed"}, NEW u, u = [j EXCEPT !.state = s],
           NEW here2, NEW cities2, NEW chairs2
    PROVE  SeedJobIsGood(u, here2, cities2, chairs2) /\ u.state = s
  <1>1. DOMAIN j = JobField
    BY DEF SeedJobIsGood
  <1>2. DOMAIN u = JobField /\ u.state = s /\ u.item = j.item /\ u.ids = j.ids
    BY <1>1 DEF JobField
  <1> QED BY <1>2 DEF SeedJobIsGood

LEMMA FailInv ==
    ASSUME GInv, NEW i \in 1..Len(jobs), jobs[i].state = "running",
           NEW s \in {"done", "failed"}, jobs' = [jobs EXCEPT ![i].state = s],
           UNCHANGED <<places, nextPlace, geoReq, cached>>
    PROVE  GInv'
  <1> DEFINE j == jobs[i]
             u == [j EXCEPT !.state = s]
  <1>1. jobs' = [jobs EXCEPT ![i] = u]
    OBVIOUS
  <1>2. SeedJobIsGood(j, places, cityRows, seats)
    BY DEF GInv
  <1> HIDE DEF j
  <1>3. SeedJobIsGood(u, places', cityRows', seats') /\ u.state = s
    BY <1>2, JobOver
  <1> HIDE DEF u
  <1>4. SeededOnce' /\ nextPlace' \in Nat /\ \A r \in places' : r.id \in Nat
    BY DEF GInv, SeededOnce
  <1> QED BY <1>1, <1>3, <1>4, JobStep

LEMMA StartJobInv == ASSUME GInv, NEW i \in 1..Len(jobs), StartJob(i) PROVE GInv'
  <1> DEFINE j == jobs[i]
             u == [j EXCEPT !.state = "running", !.disturbed = FALSE]
  <1>1. /\ startable(i) /\ jobs' = [jobs EXCEPT ![i] = u]
        /\ UNCHANGED <<nextPlace, geoReq, cached>> /\ (places' = {} \/ places' = places)
    BY DEF StartJob
  <1>2. SeedJobIsGood(j, places, cityRows, seats) /\ j.state = "queued"
    BY <1>1 DEF GInv, startable
  <1> HIDE DEF j
  <1>3. /\ DOMAIN u = JobField /\ u.state = "running" /\ u.phase = "places" /\ u.item = 1
        /\ u.ids = <<>> /\ u.missing = "no"
    BY <1>2 DEF SeedJobIsGood, JobField
  <1> HIDE DEF u
  <1>4. Len(<<>>) = 0 /\ <<>> \in Seq(Nat) /\ Len(SeedRows) \in Nat
    BY EmptySeq, GeoAssumption
  <1>5. RowsAreThere(u, places')
    BY <1>3, <1>4 DEF RowsAreThere
  <1>6. RunIsGood(u, places', cityRows', seats')
    BY <1>3, <1>4, <1>5 DEF RunIsGood
  <1>7. SeedJobIsGood(u, places', cityRows', seats')
    BY <1>3, <1>4, <1>6 DEF SeedJobIsGood
  <1>8. SeededOnce' /\ nextPlace' \in Nat /\ \A r \in places' : r.id \in Nat
    BY <1>1 DEF GInv, SeededOnce
  <1> QED BY <1>1, <1>3, <1>7, <1>8, JobStep

\* A row was found or created: the job goes on to the next.
LEMMA ResolvedGood ==
    ASSUME NEW j, NEW here, NEW cities, NEW chairs, SeedJobIsGood(j, here, cities, chairs),
           j.state = "running", j.phase = "places", j.item <= Len(SeedRows),
           NEW here2, here \subseteq here2, NEW cities2, NEW chairs2,
           NEW id \in Nat, NEW r \in here2, r.id = id, r.level = SeedRows[j.item].level,
           r.name = SeedRows[j.item].name, r.parent = Up(j)
    PROVE  /\ SeedJobIsGood(Resolved(j, id), here2, cities2, chairs2)
           /\ Resolved(j, id).state = "running"
  <1> DEFINE u == Resolved(j, id)
             n == Len(j.ids)
  <1>1. /\ DOMAIN j = JobField /\ j.item \in Nat \ {0} /\ j.ids \in Seq(Nat) /\ n = j.item - 1
        /\ ~j.disturbed => RowsAreThere(j, here)
    BY DEF SeedJobIsGood, RunIsGood
  <1>2. /\ DOMAIN u = JobField /\ u.item = j.item + 1 /\ u.ids = Append(j.ids, id)
        /\ u.missing = "no" /\ u.state = "running" /\ u.phase = "places"
        /\ u.disturbed = j.disturbed
    BY <1>1 DEF Resolved, JobField
  <1> HIDE DEF u
  <1>3. /\ u.ids \in Seq(Nat) /\ Len(u.ids) = n + 1 /\ u.ids[n + 1] = id
        /\ \A k \in 1..n : u.ids[k] = j.ids[k]
    BY <1>1, <1>2, AppendProperties
  <1>4. n \in Nat /\ Len(SeedRows) \in Nat /\ j.item = n + 1 /\ n + 1 <= Len(SeedRows)
    BY <1>1, GeoAssumption, LenProperties
  <1>5. \A k \in 1..(n + 1) : UpOf(u.ids, k) = UpOf(j.ids, k)
    <2> SUFFICES ASSUME NEW k \in 1..(n + 1), SeedRows[k].up # 0
                 PROVE  u.ids[SeedRows[k].up] = j.ids[SeedRows[k].up]
      BY DEF UpOf
    <2>1. k \in 1..Len(SeedRows)
      BY <1>4
    <2>2. SeedRows[k].up \in 0..(k - 1)
      BY <2>1, GeoAssumption
    <2>3. SeedRows[k].up \in 1..n
      BY <1>4, <2>2
    <2> QED BY <1>3, <2>3
  <1>6. Up(j) = UpOf(u.ids, n + 1)
    BY <1>4, <1>5 DEF Up, UpOf
  <1>7. RowsAreThere(j, here) => RowsAreThere(u, here2)
    <2> SUFFICES ASSUME RowsAreThere(j, here), NEW k \in 1..(n + 1)
                 PROVE  \E p \in here2 : /\ p.id = u.ids[k] /\ p.level = SeedRows[k].level
                                         /\ p.name = SeedRows[k].name
                                         /\ p.parent = UpOf(u.ids, k)
      BY <1>3 DEF RowsAreThere
    <2>1. CASE k = n + 1
      BY <1>3, <1>4, <1>6, <2>1
    <2>2. CASE k \in 1..n
      BY <1>3, <1>5, <2>2 DEF RowsAreThere
    <2> QED BY <1>4, <2>1, <2>2
  <1>8. RunIsGood(u, here2, cities2, chairs2)
    BY <1>1, <1>2, <1>3, <1>4, <1>7 DEF RunIsGood
  <1>9. SeedJobIsGood(u, here2, cities2, chairs2)
    BY <1>1, <1>2, <1>3, <1>8 DEF SeedJobIsGood
  <1> QED BY <1>2, <1>9 DEF u

LEMMA FindRowInv == ASSUME GInv, NEW i \in 1..Len(jobs), FindRow(i) PROVE GInv'
  <1> DEFINE j == jobs[i]
             row == SeedRows[j.item]
             found == {r \in places : r.level = row.level /\ r.name = row.name
                                      /\ r.parent = Up(j)}
             u == [j EXCEPT !.missing = "create"]
  <1>1. /\ j.state = "running" /\ j.phase = "places" /\ j.missing = "no"
        /\ j.item \in 1..Len(SeedRows)
        /\ UNCHANGED <<places, nextPlace, seats, geoReq, cached>>
        /\ \/ found = {} /\ jobs' = [jobs EXCEPT ![i] = u]
           \/ \E r \in found : jobs' = [jobs EXCEPT ![i] = Resolved(j, r.id)]
    BY DEF FindRow, Running
  <1>2. SeedJobIsGood(j, places, cityRows, seats) /\ \A r \in places : r.id \in Nat
    BY DEF GInv
  <1>3. SeededOnce' /\ nextPlace' \in Nat /\ \A r \in places' : r.id \in Nat
    BY <1>1 DEF GInv, SeededOnce
  <1> HIDE DEF j
  <1>4. CASE found = {} /\ jobs' = [jobs EXCEPT ![i] = u]
    <2>1. /\ DOMAIN u = JobField /\ u.missing = "create" /\ u.state = "running"
          /\ u.phase = "places" /\ u.item = j.item /\ u.ids = j.ids /\ u.disturbed = j.disturbed
      BY <1>1, <1>2 DEF SeedJobIsGood, JobField
    <2>2. NewRow(u, places)
      BY <1>4, <2>1 DEF NewRow, Up
    <2> HIDE DEF u
    <2>3. RowsAreThere(j, places) => RowsAreThere(u, places)
      BY <2>1 DEF RowsAreThere
    <2>4. u.item <= Len(SeedRows)
      BY <1>1, <2>1
    <2>5. RunIsGood(u, places, cityRows, seats)
      BY <1>1, <1>2, <2>1, <2>2, <2>3, <2>4 DEF SeedJobIsGood, RunIsGood
    <2>6. SeedJobIsGood(u, places, cityRows, seats)
      BY <1>2, <2>1, <2>5 DEF SeedJobIsGood
    <2>7. SeedJobIsGood(u, places', cityRows', seats')
      BY <1>1, <2>6 DEF cityRows
    <2> QED BY <1>1, <1>3, <1>4, <2>1, <2>7, JobStep DEF j
  <1>5. ASSUME NEW r \in found, jobs' = [jobs EXCEPT ![i] = Resolved(j, r.id)] PROVE GInv'
    <2>1. /\ r \in places' /\ r.id \in Nat /\ r.level = SeedRows[j.item].level
          /\ r.name = SeedRows[j.item].name /\ r.parent = Up(j)
          /\ j.item <= Len(SeedRows) /\ places \subseteq places'
      BY <1>1, <1>2, <1>5
    <2>2. /\ SeedJobIsGood(Resolved(j, r.id), places', cityRows', seats')
          /\ Resolved(j, r.id).state = "running"
      <3> HIDE DEF found, row, u
      <3>1. SeedJobIsGood(j, places, cityRows, seats)
        BY <1>2
      <3>2. j.state = "running" /\ j.phase = "places"
        BY <1>1
      <3> QED BY <2>1, <3>1, <3>2, ResolvedGood
    <2> DEFINE w == Resolved(j, r.id)
    <2>3. jobs' = [jobs EXCEPT ![i] = w]
      BY <1>5
    <2> HIDE DEF w
    <2> QED BY <1>1, <1>3, <2>2, <2>3, JobStep DEF j, w
  <1> QED BY <1>1, <1>4, <1>5

LEMMA CreateRowInv == ASSUME GInv, NEW i \in 1..Len(jobs), CreateRow(i) PROVE GInv'
  <1> DEFINE j == jobs[i]
             row == SeedRows[j.item]
             w == Resolved(j, nextPlace)
  <1>1. /\ j.state = "running" /\ j.phase = "places" /\ j.missing = "create"
        /\ UNCHANGED <<seats, geoReq, cached>>
        /\ \/ Insert(row.level, row.name, Up(j), "seed") /\ jobs' = [jobs EXCEPT ![i] = w]
           \/ Fail(i) /\ UNCHANGED <<places, nextPlace>>
    BY DEF CreateRow, Running
  <1>2. /\ SeedJobIsGood(j, places, cityRows, seats) /\ \A r \in places : r.id \in Nat
        /\ nextPlace \in Nat /\ SeededOnce
    BY DEF GInv
  <1>3. CASE Fail(i) /\ UNCHANGED <<places, nextPlace>>
    <2>1. jobs' = [jobs EXCEPT ![i].state = "failed"]
      BY <1>3 DEF Fail
    <2> QED BY <1>1, <1>3, <2>1, FailInv
  <1>4. CASE Insert(row.level, row.name, Up(j), "seed") /\ jobs' = [jobs EXCEPT ![i] = w]
    <2> HIDE DEF j
    <2>1. j.item <= Len(SeedRows) /\ NewRow(j, places)
      BY <1>1, <1>2 DEF SeedJobIsGood, RunIsGood
    <2>2. /\ nextPlace' \in Nat /\ \A r \in places' : r.id \in Nat
          /\ places \subseteq places'
          /\ \A r \in places' \ places : /\ r.by = "seed" /\ r.level = row.level
                                         /\ r.name = row.name /\ r.parent = Up(j)
          /\ \E r \in places' : /\ r.id = nextPlace /\ r.level = row.level /\ r.name = row.name
                                /\ r.parent = Up(j)
      BY <1>4, InsertIs
    <2> DEFINE new == [id |-> nextPlace, level |-> row.level, name |-> row.name,
                       parent |-> Up(j), by |-> "seed"]
    <2>3. /\ places' = places \cup {new} /\ new.level = row.level /\ new.name = row.name
          /\ new.parent = Up(j)
      BY <1>4 DEF Insert
    <2> HIDE DEF new
    <2>4. SeededOnce'
      BY <1>2, <2>1, <2>3 DEF SeededOnce, NewRow
    <2>5. PICK r \in places' : /\ r.id = nextPlace /\ r.level = row.level /\ r.name = row.name
                               /\ r.parent = Up(j)
      BY <2>2
    <2>6. SeedJobIsGood(w, places', cityRows', seats') /\ w.state = "running"
      BY <1>1, <1>2, <2>1, <2>2, <2>5, ResolvedGood
    <2> HIDE DEF w
    <2> QED BY <1>1, <1>4, <2>2, <2>4, <2>6, JobStep DEF j
  <1> QED BY <1>1, <1>3, <1>4

\* The data set holds the city of every entry of the file: a job that has all its rows has
\* read it, under its province.
LEMMA CityIsRead ==
    ASSUME NEW j, RowsAreThere(j, places), Len(j.ids) = Len(SeedRows),
           NEW k \in 1..Len(SeatPlan), SeatPlan[k].kind = "file"
    PROVE  OwnCities(cityRows, SeatPlan[k]) # {}
  <1> DEFINE e == SeatPlan[k]
  <1>1. PICK c \in 1..Len(SeedRows) :
          /\ SeedRows[c].level = "city" /\ SeedRows[c].up # 0
          /\ SeedRows[SeedRows[c].up].up # 0
          /\ SeedRows[c].name \in {e.city, CITY_ALIAS[e.city]}
          /\ SeedRows[SeedRows[SeedRows[c].up].up].up = 0
          /\ SeedRows[SeedRows[SeedRows[c].up].up].name = PROVINCE_ALIAS[e.province]
    BY GeoAssumption
  <1> DEFINE d == SeedRows[c].up
             p == SeedRows[d].up
  <1>2. Len(SeedRows) \in Nat /\ \A n \in 1..Len(SeedRows) : SeedRows[n].up \in 0..(n - 1)
    BY GeoAssumption
  <1>3. d \in 1..Len(SeedRows)
    BY <1>1, <1>2
  <1>4. p \in 1..Len(SeedRows)
    <2>1. p \in 0..(d - 1) /\ p # 0
      BY <1>1, <1>2, <1>3
    <2> QED BY <1>2, <1>3, <2>1
  <1>5. /\ SeedRows[c].up = d /\ SeedRows[d].up = p /\ SeedRows[p].up = 0 /\ d # 0 /\ p # 0
        /\ SeedRows[p].name = PROVINCE_ALIAS[e.province]
    BY <1>1
  <1> HIDE DEF d, p
  <1>6. PICK rc \in places : /\ rc.level = "city" /\ rc.name = SeedRows[c].name
                             /\ rc.parent = j.ids[d]
    BY <1>1, <1>5 DEF RowsAreThere, UpOf
  <1>7. PICK rd \in places : rd.id = j.ids[d] /\ rd.parent = j.ids[p]
    BY <1>3, <1>5 DEF RowsAreThere, UpOf
  <1>8. PICK rp \in places : /\ rp.id = j.ids[p] /\ rp.parent = 0
                             /\ rp.name = PROVINCE_ALIAS[e.province]
    BY <1>4, <1>5 DEF RowsAreThere, UpOf
  <1> DEFINE city == [province |-> rp.name, name |-> rc.name, id |-> rc.id]
  <1>9. city \in cityRows
    BY <1>6, <1>7, <1>8 DEF cityRows
  <1>10. city.province = PROVINCE_ALIAS[e.province] /\ city.name \in {e.city, CITY_ALIAS[e.city]}
    BY <1>1, <1>6, <1>8
  <1> HIDE DEF city
  <1> QED BY <1>9, <1>10 DEF OwnCities

LEMMA ReadCitiesInv == ASSUME GInv, NEW i \in 1..Len(jobs), ReadCities(i) PROVE GInv'
  <1> DEFINE j == jobs[i]
  <1>1. /\ j.state = "running" /\ j.phase = "places" /\ j.item = Len(SeedRows) + 1
        /\ UNCHANGED <<places, nextPlace, seats, geoReq, cached>>
    BY DEF ReadCities, Running
  <1>2. PICK own \in SUBSET cityRows, any \in SUBSET cityRows :
        /\ \A c \in cityRows :
             Cardinality({o \in own : o.name = c.name /\ o.province = c.province}) = 1
        /\ jobs' = [jobs EXCEPT ![i].phase = "courts", ![i].item = 1,
                                ![i].own = own, ![i].any = any]
    BY DEF ReadCities
  <1> DEFINE u == [j EXCEPT !.phase = "courts", !.item = 1, !.own = own, !.any = any]
  <1>3. jobs' = [jobs EXCEPT ![i] = u]
    BY <1>2
  <1>4. SeedJobIsGood(j, places, cityRows, seats)
    BY DEF GInv
  <1> HIDE DEF j
  <1>5. /\ DOMAIN u = JobField /\ u.state = "running" /\ u.phase = "courts" /\ u.item = 1
        /\ u.own = own /\ u.ids = j.ids /\ u.disturbed = j.disturbed
    BY <1>1, <1>4 DEF SeedJobIsGood, JobField
  <1> HIDE DEF u
  <1>6. \A c \in cityRows : \E o \in own : o.name = c.name /\ o.province = c.province
    <2> TAKE c \in cityRows
    <2> DEFINE S == {o \in own : o.name = c.name /\ o.province = c.province}
    <2>1. Cardinality(S) = 1
      BY <1>2
    <2>2. Cardinality({}) = 0
      BY FS_EmptySet
    <2> HIDE DEF S
    <2>3. S = {} => 1 = 0
      BY <2>1, <2>2, Zenon
    <2> QED BY <2>3 DEF S
  <1>7. Len(u.ids) = Len(SeedRows) /\ Len(SeedRows) \in Nat
    BY <1>1, <1>4, <1>5, GeoAssumption DEF SeedJobIsGood, RunIsGood
  <1>8. ~u.disturbed => RowsAreThere(u, places)
    BY <1>1, <1>4, <1>5 DEF SeedJobIsGood, RunIsGood, RowsAreThere
  <1>9. ASSUME ~u.disturbed PROVE SeatsAreThere(u, cityRows, seats)
    <2>1. \A k \in 1..Len(SeatPlan) : SeatPlan[k].kind = "file" =>
             OwnCities(cityRows, SeatPlan[k]) # {}
      BY <1>7, <1>8, <1>9, CityIsRead
    <2>2. \A k \in 1..Len(SeatPlan) : SeatPlan[k].kind = "file" =>
             OwnCities(own, SeatPlan[k]) # {}
      BY <1>6, <2>1 DEF OwnCities
    <2>3. own \subseteq cityRows
      BY <1>2
    <2> QED BY <1>5, <2>2, <2>3 DEF SeatsAreThere
  <1>10. RunIsGood(u, places, cityRows, seats)
    BY <1>5, <1>7, <1>8, <1>9 DEF RunIsGood
  <1>11. SeedJobIsGood(u, places, cityRows, seats)
    BY <1>4, <1>5, <1>10 DEF SeedJobIsGood
  <1>12. SeedJobIsGood(u, places', cityRows', seats')
    BY <1>1, <1>11 DEF cityRows
  <1>13. SeededOnce' /\ nextPlace' \in Nat /\ \A r \in places' : r.id \in Nat
    BY <1>1 DEF GInv, SeededOnce
  <1> QED BY <1>1, <1>3, <1>5, <1>12, <1>13, JobStep DEF j

\* Where an entry of the file is seated when its province has the city.
LEMMA ResolveIs ==
    ASSUME NEW j, NEW e, e.kind = "file", OwnCities(j.own, e) # {}
    PROVE  /\ resolve(j, e) # {}
           /\ \A x \in resolve(j, e) : \E c \in OwnCities(j.own, e) : x = c.id
  <1> DEFINE here == inProvince(j, e)
             first == named(here, e.city)
             second == named(here, CITY_ALIAS[e.city])
             third == named(j.any, CITY_ALIAS[e.city])
  <1>1. resolve(j, e) = FirstPlace(first, second, third)
    BY DEF resolve
  <1>2. first # {} \/ second # {}
    BY DEF OwnCities, inProvince, named
  <1>3. \A x \in first \cup second : \E c \in OwnCities(j.own, e) : x = c.id
    BY DEF OwnCities, inProvince, named
  <1> HIDE DEF first, second, third
  <1> QED BY <1>1, <1>2, <1>3 DEF FirstPlace

\* The entry is passed: its court has its seat.
LEMMA PassedGood ==
    ASSUME NEW j, NEW here, NEW cities, NEW chairs, SeedJobIsGood(j, here, cities, chairs),
           j.state = "running", j.phase = "courts",
           NEW after,
           \A s \in chairs : \E t \in after : t.court = s.court /\ t.city = s.city,
           LET e == SeatPlan[j.item] IN
             resolve(j, e) # {} =>
               \E t \in after : t.court = e.court /\ t.city \in resolve(j, e),
           NEW u, DOMAIN u = JobField, u.item = j.item + 1, u.state = "running",
           u.phase = "courts", u.own = j.own, u.ids = j.ids, u.disturbed = j.disturbed
    PROVE  SeedJobIsGood(u, here, cities, after)
  <1>1. /\ j.item \in Nat \ {0} /\ j.ids \in Seq(Nat) /\ Len(j.ids) = Len(SeedRows)
        /\ ~j.disturbed => RowsAreThere(j, here) /\ SeatsAreThere(j, cities, chairs)
    BY DEF SeedJobIsGood, RunIsGood
  <1>2. RowsAreThere(j, here) => RowsAreThere(u, here)
    BY DEF RowsAreThere
  <1>3. ASSUME SeatsAreThere(j, cities, chairs) PROVE SeatsAreThere(u, cities, after)
    <2> SUFFICES ASSUME NEW n \in 1..Len(SeatPlan), SeatPlan[n].kind = "file", n < u.item
                 PROVE  \E s \in after, c \in OwnCities(j.own, SeatPlan[n]) :
                          s.court = SeatPlan[n].court /\ s.city = c.id
      BY <1>3 DEF SeatsAreThere
    <2>1. CASE n < j.item
      <3>1. PICK s \in chairs, c \in OwnCities(j.own, SeatPlan[n]) :
                   s.court = SeatPlan[n].court /\ s.city = c.id
        BY <1>3, <2>1 DEF SeatsAreThere
      <3> QED BY <3>1
    <2>2. CASE n = j.item
      <3> DEFINE e == SeatPlan[n]
      <3>1. e.kind = "file" /\ OwnCities(j.own, e) # {}
        BY <1>3 DEF SeatsAreThere
      <3>2. \E t \in after : t.court = e.court /\ t.city \in resolve(j, e)
        BY <2>2, <3>1, ResolveIs
      <3> QED BY <3>1, <3>2, ResolveIs
    <2>3. Len(SeatPlan) \in Nat
      BY GeoAssumption
    <2> QED BY <1>1, <2>1, <2>2, <2>3
  <1>4. RunIsGood(u, here, cities, after)
    BY <1>1, <1>2, <1>3 DEF RunIsGood
  <1> QED BY <1>1, <1>4 DEF SeedJobIsGood

LEMMA FindSeatInv == ASSUME GInv, NEW i \in 1..Len(jobs), FindSeat(i) PROVE GInv'
  <1> DEFINE j == jobs[i]
             e == SeatPlan[j.item]
             at == resolve(j, e)
             old == {s \in seats : s.court = e.court /\ s.city \in at}
             missing == IF old = {} THEN "create" ELSE "update"
             next == [j EXCEPT !.item = j.item + 1]
             u == [j EXCEPT !.missing = missing]
  <1>1. /\ j.state = "running" /\ j.phase = "courts"
        /\ UNCHANGED <<places, nextPlace, seats, geoReq, cached>>
        /\ \/ (at = {} \/ old # {}) /\ jobs' = [jobs EXCEPT ![i] = next]
           \/ jobs' = [jobs EXCEPT ![i] = u]
    BY DEF FindSeat, Running
  <1>2. SeedJobIsGood(j, places, cityRows, seats)
    BY DEF GInv
  <1>3. SeededOnce' /\ nextPlace' \in Nat /\ \A r \in places' : r.id \in Nat
    BY <1>1 DEF GInv, SeededOnce
  <1>4. cityRows' = cityRows
    BY <1>1 DEF cityRows
  <1>5. resolve(j, e) # {} /\ (at = {} \/ old # {}) =>
          \E t \in seats : t.court = e.court /\ t.city \in resolve(j, e)
    OBVIOUS
  <1> HIDE DEF j, missing, at, old
  <1>6. CASE (at = {} \/ old # {}) /\ jobs' = [jobs EXCEPT ![i] = next]
    <2>1. /\ DOMAIN next = JobField /\ next.item = j.item + 1 /\ next.state = "running"
          /\ next.phase = "courts" /\ next.own = j.own /\ next.ids = j.ids
          /\ next.disturbed = j.disturbed
      BY <1>1, <1>2 DEF SeedJobIsGood, JobField
    <2> HIDE DEF next
    <2>2. SeedJobIsGood(next, places, cityRows, seats)
      BY <1>1, <1>2, <1>5, <1>6, <2>1, PassedGood
    <2> QED BY <1>1, <1>3, <1>4, <1>6, <2>1, <2>2, JobStep DEF j
  <1>7. CASE jobs' = [jobs EXCEPT ![i] = u]
    <2>1. /\ DOMAIN u = JobField /\ u.item = j.item /\ u.state = "running"
          /\ u.phase = "courts" /\ u.own = j.own /\ u.ids = j.ids
          /\ u.disturbed = j.disturbed
      BY <1>1, <1>2 DEF SeedJobIsGood, JobField
    <2> HIDE DEF u
    <2>2. /\ RowsAreThere(j, places) => RowsAreThere(u, places)
          /\ SeatsAreThere(j, cityRows, seats) => SeatsAreThere(u, cityRows, seats)
      BY <2>1 DEF RowsAreThere, SeatsAreThere
    <2>3. SeedJobIsGood(u, places, cityRows, seats)
      BY <1>1, <1>2, <2>1, <2>2 DEF SeedJobIsGood, RunIsGood
    <2> QED BY <1>1, <1>3, <1>4, <1>7, <2>1, <2>3, JobStep DEF j
  <1> QED BY <1>1, <1>6, <1>7

LEMMA WriteSeatInv == ASSUME GInv, NEW i \in 1..Len(jobs), WriteSeat(i) PROVE GInv'
  <1> DEFINE j == jobs[i]
             e == SeatPlan[j.item]
             at == resolve(j, e)
             old == {s \in seats : s.court = e.court /\ s.city \in at}
             new == {[court |-> e.court, city |-> c, principal |-> e.principal] : c \in at}
             next == [j EXCEPT !.item = j.item + 1, !.missing = "no"]
  <1>1. /\ j.state = "running" /\ j.phase = "courts"
        /\ UNCHANGED <<places, nextPlace, geoReq, cached>>
        /\ \/ seats' = (seats \ old) \cup new /\ jobs' = [jobs EXCEPT ![i] = next]
           \/ Fail(i) /\ UNCHANGED seats
    BY DEF WriteSeat, Running
  <1>2. SeedJobIsGood(j, places, cityRows, seats)
    BY DEF GInv
  <1>3. SeededOnce' /\ nextPlace' \in Nat /\ \A r \in places' : r.id \in Nat
    BY <1>1 DEF GInv, SeededOnce
  <1>4. cityRows' = cityRows
    BY <1>1 DEF cityRows
  <1>5. CASE Fail(i)
    <2>1. jobs' = [jobs EXCEPT ![i].state = "failed"]
      BY <1>5 DEF Fail
    <2> QED BY <1>1, <2>1, FailInv
  <1>6. CASE seats' = (seats \ old) \cup new /\ jobs' = [jobs EXCEPT ![i] = next]
    <2>1. \A c \in at : \E t \in seats' : t.court = e.court /\ t.city = c
      <3> SUFFICES ASSUME NEW c \in at
                   PROVE  \E t \in seats' : t.court = e.court /\ t.city = c
        OBVIOUS
      <3> DEFINE t == [court |-> e.court, city |-> c, principal |-> e.principal]
      <3>1. t \in new /\ t.court = e.court /\ t.city = c
        OBVIOUS
      <3> HIDE DEF t, new
      <3> QED BY <1>6, <3>1
    <2>2. \A s \in seats : \E t \in seats' : t.court = s.court /\ t.city = s.city
      <3> SUFFICES ASSUME NEW s \in seats
                   PROVE  \E t \in seats' : t.court = s.court /\ t.city = s.city
        OBVIOUS
      <3>1. CASE s \in old
        BY <2>1, <3>1
      <3>2. CASE s \notin old
        BY <1>6, <3>2
      <3> QED BY <3>1, <3>2
    <2>3. at # {} => \E t \in seats' : t.court = e.court /\ t.city \in at
      BY <2>1
    <2> HIDE DEF j
    <2>4. /\ DOMAIN next = JobField /\ next.item = j.item + 1 /\ next.state = "running"
          /\ next.phase = "courts" /\ next.own = j.own /\ next.ids = j.ids
          /\ next.disturbed = j.disturbed
      BY <1>1, <1>2 DEF SeedJobIsGood, JobField
    <2> HIDE DEF next
    <2>5. SeedJobIsGood(next, places, cityRows, seats')
      BY <1>1, <1>2, <2>2, <2>3, <2>4, PassedGood
    <2> QED BY <1>1, <1>3, <1>4, <1>6, <2>4, <2>5, JobStep DEF j
  <1> QED BY <1>1, <1>5, <1>6

LEMMA JobDoneInv == ASSUME GInv, NEW i \in 1..Len(jobs), JobDone(i) PROVE GInv'
  BY FailInv DEF JobDone, Running

LEMMA QueryFailsInv == ASSUME GInv, NEW i \in 1..Len(jobs), QueryFails(i) PROVE GInv'
  BY FailInv DEF QueryFails, Fail

LEMMA GeoStart == GeoInit => GInv
  <1> SUFFICES ASSUME GeoInit PROVE GInv
    OBVIOUS
  <1>1. /\ places = {} /\ nextPlace = 1 /\ jobs = <<>> /\ cached = NoTree
        /\ geoReq = [q \in GeoSlot |-> NoRequest]
    BY DEF GeoInit
  <1>2. Len(jobs) = 0 /\ jobs = [k \in 1..Len(jobs) |-> jobs[k]]
    BY <1>1, EmptySeq
  <1>3. TreesAreClean
    BY <1>1 DEF TreesAreClean, NoTree, NoRequest
  <1> QED BY <1>1, <1>2, <1>3 DEF GInv, Serial, SeededOnce

LEMMA GeoStep == GInv /\ [GeoNext]_geoVars => GInv'
  <1> SUFFICES ASSUME GInv, [GeoNext]_geoVars PROVE GInv'
    OBVIOUS
  <1>1. CASE \E q \in GeoSlot : FullTree(q) \/ TreeBuilt(q) \/ PlaceCreated(q) \/ PlaceDeleted(q)
                                \/ SeatsCopied(q)
    BY <1>1, FullTreeInv, TreeBuiltInv, PlaceCreatedInv, PlaceDeletedInv, SeatsCopiedInv
  <1>2. CASE \E q \in GeoSlot, n \in 1..Len(SeedRows), up \in {0} \cup {r.id : r \in places} :
               CreatePlace(q, SeedRows[n].level, SeedRows[n].name, up)
    BY <1>2, CreatePlaceInv
  <1>3. CASE \E q \in GeoSlot : \E r \in places : DeletePlace(q, r.id)
    BY <1>3, DeletePlaceInv
  <1>4. CASE \E q \in GeoSlot : \E r, s \in {c \in places : c.level = "city"} :
               CopyCourtSeats(q, r.id, s.id)
    BY <1>4, CopyInv
  <1>5. CASE CacheExpires \/ GeoProcessEnds \/ \E kind \in {"seeds", "resets"} : Seed(kind)
    BY <1>5, CacheExpiresInv, GeoProcessEndsInv, SeedInv
  <1>6. CASE \E i \in 1..Len(jobs) :
               StartJob(i) \/ FindRow(i) \/ CreateRow(i) \/ ReadCities(i) \/ FindSeat(i)
               \/ WriteSeat(i) \/ JobDone(i) \/ QueryFails(i)
    BY <1>6, StartJobInv, FindRowInv, CreateRowInv, ReadCitiesInv, FindSeatInv, WriteSeatInv,
       JobDoneInv, QueryFailsInv
  <1>7. CASE UNCHANGED geoVars
    <2>1. tree' = tree /\ Pending' = Pending /\ cityRows' = cityRows
      BY <1>7 DEF geoVars, tree, Pending, cityRows
    <2>2. TreesAreClean'
      BY <1>7, <2>1 DEF GInv, TreesAreClean, geoVars
    <2> QED BY <1>7, <2>2, QuietInv DEF geoVars, GInv
  <1> QED BY <1>1, <1>2, <1>3, <1>4, <1>5, <1>6, <1>7 DEF GeoNext

\* Only a job that has passed every entry of the file ends well.
LEMMA DoneIs ==
    ASSUME GInv, [GeoNext]_geoVars, NEW i \in 1..Len(jobs), jobs[i].state = "running",
           jobs'[i].state = "done"
    PROVE  JobDone(i)
  <1> DEFINE n == Len(jobs)
  <1>1. /\ n \in Nat /\ jobs = [k \in 1..n |-> jobs[k]] /\ i \in 1..n
        /\ \A k \in 1..n : DOMAIN jobs[k] = JobField
    BY DEF GInv, SeedJobIsGood
  <1>2. CASE UNCHANGED jobs
    BY <1>2
  <1>3. CASE \E kind : Seed(kind)
    <2> PICK kind : Seed(kind)
      BY <1>3
    <2> DEFINE new == [kind |-> kind, state |-> "queued", phase |-> "places", item |-> 1,
                       ids |-> <<>>, own |-> {}, any |-> {}, missing |-> "no",
                       disturbed |-> FALSE]
    <2>1. jobs' = Append(jobs, new)
      BY DEF Seed
    <2> HIDE DEF new
    <2>2. jobs'[i] = jobs[i]
      BY <1>1, <2>1, JobAppended
    <2> QED BY <2>2
  <1>4. CASE \E q \in GeoSlot : PlaceDeleted(q)
    <2>1. \/ jobs' = jobs
          \/ jobs' = [k \in 1..Len(jobs) |-> [jobs[k] EXCEPT !.disturbed = TRUE]]
      BY <1>4 DEF PlaceDeleted
    <2> QED BY <1>1, <2>1 DEF JobField
  <1>5. CASE GeoProcessEnds
    BY <1>1, <1>5 DEF GeoProcessEnds, JobField
  <1>6. ASSUME NEW k \in 1..Len(jobs), StartJob(k) \/ FindRow(k) \/ CreateRow(k) \/ ReadCities(k)
                                       \/ FindSeat(k) \/ WriteSeat(k) \/ QueryFails(k)
        PROVE  FALSE
    <2>1. \E j : jobs' = [jobs EXCEPT ![k] = j] /\ j.state \in {"running", "failed"}
      <3> DEFINE j == jobs[k]
      <3>0. DOMAIN j = JobField
        BY <1>1
      <3>1. CASE StartJob(k)
        <4> WITNESS [j EXCEPT !.state = "running", !.disturbed = FALSE]
        <4> QED BY <3>0, <3>1 DEF StartJob, JobField
      <3>2. ASSUME Fail(k) PROVE \E u : jobs' = [jobs EXCEPT ![k] = u] /\ u.state = "failed"
        <4> WITNESS [j EXCEPT !.state = "failed"]
        <4> QED BY <3>0, <3>2 DEF Fail, JobField
      <3>3. ASSUME NEW id, j.state = "running"
            PROVE  Resolved(j, id).state = "running"
        BY <3>0, <3>3 DEF Resolved, JobField
      <3>4. CASE FindRow(k)
        <4> DEFINE u == [j EXCEPT !.missing = "create"]
        <4>1. /\ j.state = "running"
              /\ jobs' = [jobs EXCEPT ![k] = u]
                 \/ \E r \in places : jobs' = [jobs EXCEPT ![k] = Resolved(j, r.id)]
          BY <3>4 DEF FindRow, Running
        <4>2. u.state = "running"
          BY <3>0, <4>1 DEF JobField
        <4> HIDE DEF u, j
        <4> QED BY <3>3, <4>1, <4>2
      <3>5. CASE CreateRow(k)
        <4>1. j.state = "running" /\ (Fail(k) \/ jobs' = [jobs EXCEPT ![k] = Resolved(j, nextPlace)])
          BY <3>5 DEF CreateRow, Running
        <4> HIDE DEF j
        <4> QED BY <3>2, <3>3, <4>1
      <3>6. CASE ReadCities(k)
        <4>1. PICK own \in SUBSET cityRows, any \in SUBSET cityRows :
                jobs' = [jobs EXCEPT ![k].phase = "courts", ![k].item = 1,
                                     ![k].own = own, ![k].any = any]
          BY <3>6 DEF ReadCities
        <4> DEFINE u == [j EXCEPT !.phase = "courts", !.item = 1, !.own = own, !.any = any]
        <4>2. jobs' = [jobs EXCEPT ![k] = u]
          BY <4>1
        <4>3. u.state = "running"
          BY <3>0, <3>6 DEF ReadCities, Running, JobField
        <4> HIDE DEF u
        <4> QED BY <4>2, <4>3
      <3>7. CASE FindSeat(k)
        <4> DEFINE next == [j EXCEPT !.item = j.item + 1]
        <4>1. /\ j.state = "running"
              /\ \/ jobs' = [jobs EXCEPT ![k] = next]
                 \/ \E m \in {"create", "update"} :
                      jobs' = [jobs EXCEPT ![k] = [j EXCEPT !.missing = m]]
          BY <3>7 DEF FindSeat, Running
        <4>2. next.state = "running" /\ \A m : [j EXCEPT !.missing = m].state = "running"
          BY <3>0, <4>1 DEF JobField
        <4> HIDE DEF next, j
        <4> QED BY <4>1, <4>2
      <3>8. CASE WriteSeat(k)
        <4> DEFINE next == [j EXCEPT !.item = j.item + 1, !.missing = "no"]
        <4>1. j.state = "running" /\ (Fail(k) \/ jobs' = [jobs EXCEPT ![k] = next])
          BY <3>8 DEF WriteSeat, Running
        <4>2. next.state = "running"
          BY <3>0, <4>1 DEF JobField
        <4> HIDE DEF next
        <4> QED BY <3>2, <4>1, <4>2
      <3>9. CASE QueryFails(k)
        BY <3>2, <3>9 DEF QueryFails
      <3> QED BY <1>6, <3>1, <3>4, <3>5, <3>6, <3>7, <3>8, <3>9
    <2>2. PICK j : jobs' = [jobs EXCEPT ![k] = j] /\ j.state \in {"running", "failed"}
      BY <2>1
    <2>3. jobs'[i] = j \/ jobs'[i] = jobs[i]
      BY <1>1, <2>2
    <2> QED BY <2>2, <2>3
  <1>7. ASSUME NEW k \in 1..Len(jobs), JobDone(k) PROVE JobDone(i)
    <2>1. jobs' = [jobs EXCEPT ![k].state = "done"]
      BY <1>7 DEF JobDone
    <2>2. k # i => jobs'[i] = jobs[i]
      BY <1>1, <2>1
    <2> QED BY <1>7, <2>2
  <1>8. CASE \E q \in GeoSlot : FullTree(q) \/ TreeBuilt(q) \/ PlaceCreated(q) \/ SeatsCopied(q)
    BY <1>2, <1>8 DEF FullTree, TreeBuilt, PlaceCreated, SeatsCopied
  <1>9. CASE \E q, level, name, up : CreatePlace(q, level, name, up)
    BY <1>2, <1>9 DEF CreatePlace
  <1>10. CASE CacheExpires \/ (\E q, id : DeletePlace(q, id))
              \/ (\E q, target, source : CopyCourtSeats(q, target, source))
    BY <1>2, <1>10 DEF CacheExpires, DeletePlace, CopyCourtSeats
  <1>11. CASE UNCHANGED geoVars
    BY <1>2, <1>11 DEF geoVars
  <1> QED BY <1>3, <1>4, <1>5, <1>6, <1>7, <1>8, <1>9, <1>10, <1>11 DEF GeoNext

LEMMA SeedEnds == ASSUME GInv, [GeoNext]_geoVars PROVE SeedEndsComplete
  <1> SUFFICES ASSUME NEW i \in 1..Len(jobs), jobs[i].state = "running",
                      jobs'[i].state = "done", ~jobs[i].disturbed
               PROVE  /\ \A n \in 1..Len(SeedRows) : \E r \in places :
                           /\ r.id = jobs[i].ids[n] /\ r.name = SeedRows[n].name
                           /\ r.parent = UpOf(jobs[i].ids, n)
                      /\ \A n \in 1..Len(SeatPlan) :
                           SeatPlan[n].kind = "file" /\ OwnCities(cityRows, SeatPlan[n]) # {} =>
                             \E s \in seats : /\ s.court = SeatPlan[n].court
                                              /\ \E c \in OwnCities(cityRows, SeatPlan[n]) :
                                                   s.city = c.id
    BY DEF SeedEndsComplete, UpOf, OwnCities
  <1> DEFINE j == jobs[i]
  <1>1. j.state = "running" /\ j.phase = "courts" /\ j.item = Len(SeatPlan) + 1
    BY DoneIs DEF JobDone, Running
  <1>2. SeedJobIsGood(j, places, cityRows, seats) /\ ~j.disturbed
    BY DEF GInv
  <1> HIDE DEF j
  <1>3. Len(j.ids) = Len(SeedRows) /\ RowsAreThere(j, places) /\ SeatsAreThere(j, cityRows, seats)
    BY <1>1, <1>2 DEF SeedJobIsGood, RunIsGood
  <1>4. \A n \in 1..Len(SeedRows) : \E r \in places :
           /\ r.id = j.ids[n] /\ r.name = SeedRows[n].name /\ r.parent = UpOf(j.ids, n)
    BY <1>3 DEF RowsAreThere
  <1>5. ASSUME NEW n \in 1..Len(SeatPlan), SeatPlan[n].kind = "file"
        PROVE  \E s \in seats : /\ s.court = SeatPlan[n].court
                                /\ \E c \in OwnCities(cityRows, SeatPlan[n]) : s.city = c.id
    <2>1. n < j.item
      BY <1>1, GeoAssumption
    <2>2. PICK s \in seats, c \in OwnCities(j.own, SeatPlan[n]) :
                 s.court = SeatPlan[n].court /\ s.city = c.id
      BY <1>3, <1>5, <2>1 DEF SeatsAreThere
    <2>3. c \in OwnCities(cityRows, SeatPlan[n])
      BY <1>3 DEF SeatsAreThere, OwnCities
    <2> QED BY <2>2, <2>3
  <1> QED BY <1>4, <1>5 DEF j

\* For any data set whose court file names cities it has, any administrators, jobs, failures
\* and process ends: jobs repeat no row of a job, a seed that is not disturbed ends with every
\* place and every court of the file, and a tree built while nothing writes stays true
\* (geo.service.ts:241-680).
THEOREM GeographySeeded == GeoSpec => GeographyIsSeeded
  <1>1. GeoInit => GInv
    BY GeoStart
  <1>2. GInv /\ [GeoNext]_geoVars => GInv'
    BY GeoStep
  <1>3. GInv' => SeededOnce' /\ CachedTreeIsCurrent'
    BY DEF GInv, TreesAreClean, CachedTreeIsCurrent
  <1>4. GInv /\ [GeoNext]_geoVars =>
          [SeededOnce' /\ CachedTreeIsCurrent' /\ SeedEndsComplete]_geoVars
    BY <1>2, <1>3, SeedEnds
  <1> QED BY <1>1, <1>2, <1>4, PTL DEF GeoSpec, GeographyIsSeeded
=============================================================================
