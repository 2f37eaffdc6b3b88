------------------------- MODULE WalletLedgerProofs -------------------------
(***************************************************************************)
(* Proofs about WalletLedger, for any number of users, tickets, top-ups    *)
(* and concurrent requests.  The first part relates a wallet to its rows   *)
(* and a ticket to its rows.  The second speaks of sums over a user's      *)
(* tickets and top-ups and relates the two sets of rows: every debit and   *)
(* surplus of a wallet is booked on one of its own tickets, no money is    *)
(* created or lost, and the requests implement the indivisible movements   *)
(* of MoneyAccounts.                                                       *)
(***************************************************************************)
EXTENDS WalletLedger, SumTheorems

\* The inductive invariant: types, the two sets of books, and what each
\* request relies on while it holds rows.
IInv ==
    /\ TypeOK
    /\ TopupsOwned
    /\ BalanceBacked
    /\ BooksBacked
    /\ LockDiscipline

\* Init establishes the invariant.
LEMMA InitInv == Init => IInv
  <1> SUFFICES ASSUME Init PROVE IInv
    OBVIOUS
  <1> USE LedgerAssumption
  <1>1. ticket \in [Ticket -> TicketRow] /\ \A t \in Ticket : ticket[t].paid = 0
    <2> DEFINE Fresh(s, c) == [status |-> s, service |-> c.service,
                               total |-> c.total, paid |-> 0,
                               finalized |-> FALSE, dispatched |-> FALSE,
                               archived |-> FALSE]
               Rows == {Fresh(s, c) : s \in InitStatus, c \in Charges}
    <2>1. ticket \in [Ticket -> Rows]
      BY DEF Init
    <2>2. \A x \in Rows : x \in TicketRow /\ x.paid = 0
      <3> SUFFICES ASSUME NEW s \in InitStatus, NEW c \in Charges
                   PROVE  Fresh(s, c) \in TicketRow /\ Fresh(s, c).paid = 0
        OBVIOUS
      <3>1. s \in Status /\ c \in Price
        OBVIOUS
      <3>2. c.service \in Nat /\ c.total \in Nat
        BY <3>1 DEF Price
      <3> QED BY <3>1, <3>2 DEF TicketRow
    <2> HIDE DEF Rows
    <2> QED BY <2>1, <2>2
  <1>2. TypeOK
    BY <1>1 DEF Init, TypeOK, TopupRow, Ledger, Book, RequestRow, Blank,
                Price, Status, Pc, Endpoint
  <1>3. TopupsOwned /\ BalanceBacked /\ BooksBacked
    BY <1>1 DEF Init, TopupsOwned, BalanceBacked, BooksBacked
  <1>4. LockDiscipline
    BY DEF Init, LockDiscipline, RequestInv, Blank
  <1> QED BY <1>2, <1>3, <1>4 DEF IInv

\* A request keeps what it relies on through any step that leaves it, and the
\* rows it holds, alone.
LEMMA Frame ==
    ASSUME TypeOK, NEW o \in Request, RequestInv(o), req'[o] = req[o],
           \A u \in User : userLock[u] = o =>
               userLock'[u] = o /\ balance'[u] = balance[u],
           \A t \in Ticket : ticketLock[t] = o =>
               /\ ticketLock'[t] = o
               /\ ticket'[t].paid = ticket[t].paid
               /\ ticket'[t].total = ticket[t].total,
           req[o].op = "verifyTopup" =>
               /\ topupLock'[req[o].topup] = o
               /\ topup'[req[o].topup] = topup[req[o].topup]
    PROVE  RequestInv(o)'
  BY DEF RequestInv

-----------------------------------------------------------------------------
\* The rows of requests that have not begun or have ended.
LEMMA BlankRow ==
    /\ Blank \in RequestRow
    /\ Done \in RequestRow
    /\ Done.op = "none" /\ Done.pc = "done"
    /\ \A t \in Ticket : Done.ded[t] = 0
  BY DEF Blank, Done, RequestRow, Price, Status, Pc, Endpoint

\* A request that has ended relies on nothing.
LEMMA DoneInv ==
    ASSUME NEW r \in Request, req'[r] = Done
    PROVE  RequestInv(r)'
  BY BlankRow DEF RequestInv

\* Steps that write no table keep both sets of books.
LEMMA TablesKept ==
    ASSUME TopupsOwned, BalanceBacked, BooksBacked, UNCHANGED tables
    PROVE  TopupsOwned' /\ BalanceBacked' /\ BooksBacked'
  BY DEF TopupsOwned, BalanceBacked, BooksBacked, tables

-----------------------------------------------------------------------------
\* What a step of r owes the other requests: their locks stay theirs ...
KeepsLocks(r) ==
    /\ userLock' \in [User -> Request \cup {NULL}]
    /\ ticketLock' \in [Ticket -> Request \cup {NULL}]
    /\ topupLock' \in [Topup -> Request \cup {NULL}]
    /\ \A o \in Request : o # r =>
         /\ \A u \in User : userLock[u] = o => userLock'[u] = o
         /\ \A t \in Ticket : ticketLock[t] = o => ticketLock'[t] = o
         /\ \A w \in Topup : topupLock[w] = o => topupLock'[w] = o

\* ... and the rows they hold are not written.
RespectsLocks(r) ==
    \A o \in Request : o # r =>
         /\ \A u \in User : userLock[u] = o => balance'[u] = balance[u]
         /\ \A t \in Ticket : ticketLock[t] = o =>
              /\ ticket'[t].paid = ticket[t].paid
              /\ ticket'[t].total = ticket[t].total
         /\ req[o].op = "verifyTopup" =>
              topup'[req[o].topup] = topup[req[o].topup]

\* Releasing r's locks, keeping all, or taking a free one is harmless.
LEMMA Releasing ==
    ASSUME TypeOK, NEW r \in Request, Release(r)
    PROVE  KeepsLocks(r)
  BY DEF TypeOK, Release, KeepsLocks

LEMMA LockTaking ==
    ASSUME TypeOK, NEW r \in Request,
           \/ UNCHANGED locks
           \/ \E u \in User : TakeUser(r, u)
           \/ \E t \in Ticket : /\ ticketLock[t] = NULL
                                /\ ticketLock' = [ticketLock EXCEPT ![t] = r]
                                /\ UNCHANGED <<userLock, topupLock>>
    PROVE  KeepsLocks(r)
  <1> USE LedgerAssumption
  <1>1. CASE UNCHANGED locks
    BY <1>1 DEF TypeOK, KeepsLocks, locks
  <1>2. CASE \E u \in User : TakeUser(r, u)
    BY <1>2 DEF TypeOK, KeepsLocks, TakeUser
  <1>3. CASE \E t \in Ticket : /\ ticketLock[t] = NULL
                               /\ ticketLock' = [ticketLock EXCEPT ![t] = r]
                               /\ UNCHANGED <<userLock, topupLock>>
    BY <1>3 DEF TypeOK, KeepsLocks
  <1> QED BY <1>1, <1>2, <1>3

\* A step of r preserves the lock discipline of everyone if it pays what it
\* owes the others and r itself has what it relies on afterwards.
LEMMA DisciplineKept ==
    ASSUME TypeOK, LockDiscipline, NEW r \in Request, NEW q,
           req' = [req EXCEPT ![r] = q],
           KeepsLocks(r), RespectsLocks(r), RequestInv(r)'
    PROVE  LockDiscipline'
  <1> SUFFICES ASSUME NEW o \in Request, o # r PROVE RequestInv(o)'
    BY DEF LockDiscipline
  <1>1. RequestInv(o) /\ req'[o] = req[o]
    BY DEF LockDiscipline, TypeOK
  <1>2. req[o].op = "verifyTopup" => topupLock'[req[o].topup] = o
    BY <1>1 DEF RequestInv, KeepsLocks
  <1> QED BY <1>1, <1>2, Frame DEF KeepsLocks, RespectsLocks

\* The steps that write no table: they move r on and take or keep locks.
LEMMA LocalStep ==
    ASSUME IInv, NEW r \in Request, NEW q \in RequestRow,
           req' = [req EXCEPT ![r] = q], UNCHANGED tables,
           KeepsLocks(r), RequestInv(r)'
    PROVE  IInv'
  <1>1. TypeOK'
    BY DEF IInv, TypeOK, KeepsLocks, tables
  <1>2. RespectsLocks(r)
    BY DEF RespectsLocks, tables
  <1> QED BY <1>1, <1>2, TablesKept, DisciplineKept DEF IInv

\* A request that is refused or rolled back changes nothing but itself.
LEMMA Refusal ==
    ASSUME IInv, NEW r \in Request, Finish(r), UNCHANGED tables,
           UNCHANGED locks \/ Release(r)
    PROVE  IInv'
  <1>1. req' = [req EXCEPT ![r] = Done] /\ req'[r] = Done
    BY DEF IInv, TypeOK, Finish
  <1>2. KeepsLocks(r)
    BY LockTaking, Releasing DEF IInv
  <1> QED BY <1>1, <1>2, BlankRow, DoneInv, LocalStep

-----------------------------------------------------------------------------
\* One lemma per operation: it preserves the invariant.

LEMMA TopupInv ==
    ASSUME IInv, NEW r \in Request, NEW w \in Topup, NEW u \in User,
           NEW a \in Amount, Topup_(r, w, u, a)
    PROVE  IInv'
  <1> USE LedgerAssumption
  <1>1. TypeOK'
    BY BlankRow DEF IInv, TypeOK, Topup_, Finish, TopupRow, locks
  <1>2. TopupsOwned' /\ BalanceBacked' /\ BooksBacked'
    BY DEF IInv, TypeOK, TopupsOwned, BalanceBacked, BooksBacked, Topup_, TopupRow
  <1>3. req' = [req EXCEPT ![r] = Done] /\ req'[r] = Done /\ KeepsLocks(r)
    BY LockTaking DEF IInv, TypeOK, Topup_, Finish
  <1>4. RespectsLocks(r)
    BY DEF IInv, TypeOK, LockDiscipline, RequestInv, Topup_, RespectsLocks
  <1> QED BY <1>1, <1>2, <1>3, <1>4, DoneInv, DisciplineKept DEF IInv

LEMMA VerifyTopupInv ==
    ASSUME IInv, NEW r \in Request, NEW w \in Topup, VerifyTopup(r, w)
    PROVE  IInv'
  <1> USE LedgerAssumption
  <1> DEFINE q == [Blank EXCEPT !.op = "verifyTopup", !.pc = "lockUser",
                                !.topup = w, !.user = topup[w].user,
                                !.amt = topup[w].amount]
  <1>0. TypeOK /\ UNCHANGED tables
    BY DEF IInv, VerifyTopup
  <1>1. CASE topup[w].status = "PENDING_VERIFICATION"
    <2>1. /\ topupLock[w] = NULL
          /\ topupLock' = [topupLock EXCEPT ![w] = r]
          /\ req' = [req EXCEPT ![r] = q]
          /\ UNCHANGED <<userLock, ticketLock>>
      BY <1>1 DEF VerifyTopup
    <2>2. topup[w].user \in User /\ topup[w].amount \in Nat
      BY <1>1 DEF IInv, TopupsOwned, TypeOK, TopupRow
    <2>3. q \in RequestRow /\ \A t \in Ticket : q.ded[t] = 0
      <3>1. topup[w].user \in User \cup {NULL} /\ topup[w].amount \in Int
        BY <2>2
      <3> QED BY <3>1, BlankRow DEF Blank, RequestRow, Endpoint, Pc
    <2>4. KeepsLocks(r)
      BY <1>0, <2>1 DEF TypeOK, KeepsLocks
    <2>5. RequestInv(r)'
      <3>1. req'[r] = q
        BY <1>0, <2>1 DEF TypeOK
      <3>2. q.op = "verifyTopup" /\ q.pc = "lockUser" /\ q.user \in User
            /\ q.topup = w /\ q.amt = topup[w].amount
        BY <2>2 DEF Blank
      <3> QED BY <1>0, <1>1, <2>1, <2>2, <2>3, <3>1, <3>2
              DEF RequestInv, TypeOK, tables
    <2> HIDE DEF q
    <2> QED BY <1>0, <2>1, <2>3, <2>4, <2>5, LocalStep
  <1>2. CASE topup[w].status # "PENDING_VERIFICATION"
    BY <1>0, <1>2, Refusal DEF VerifyTopup
  <1> QED BY <1>1, <1>2

LEMMA RejectTopupInv ==
    ASSUME IInv, NEW r \in Request, NEW w \in Topup, RejectTopup(r, w)
    PROVE  IInv'
  <1> USE LedgerAssumption
  <1>1. TypeOK'
    BY BlankRow DEF IInv, TypeOK, RejectTopup, Finish, TopupRow, locks
  <1>2. TopupsOwned' /\ BalanceBacked' /\ BooksBacked'
    BY DEF IInv, TypeOK, TopupsOwned, BalanceBacked, BooksBacked, RejectTopup,
           TopupRow
  <1>3. req' = [req EXCEPT ![r] = Done] /\ req'[r] = Done /\ KeepsLocks(r)
    BY LockTaking DEF IInv, TypeOK, RejectTopup, Finish
  <1>4. RespectsLocks(r)
    BY DEF IInv, TypeOK, LockDiscipline, RequestInv, RejectTopup, RespectsLocks
  <1> QED BY <1>1, <1>2, <1>3, <1>4, DoneInv, DisciplineKept DEF IInv

\* The start of a settlement of u's tickets, with the User row just locked.
StartsSettling(r, e, u, c, S) ==
    /\ u \in User /\ c \in Int /\ S \in SUBSET Ticket
    /\ e \in {"verifyTopup", "settleTicketsForUser", "adjustWallet"}
    /\ e = "settleTicketsForUser" => c = 0
    /\ balance[u] + c >= 0
    /\ e = "verifyTopup" => req[r].op = "verifyTopup" /\ req[r].amt = c
    /\ TakeUser(r, u)
    /\ UNCHANGED tables
    /\ req' = [req EXCEPT ![r] = Settling(r, e, u, c, S)]

LEMMA SettlingInv ==
    ASSUME IInv, NEW r \in Request, NEW e, NEW u, NEW c, NEW S,
           StartsSettling(r, e, u, c, S)
    PROVE  IInv'
  <1> USE LedgerAssumption DEF StartsSettling
  <1> DEFINE q == Settling(r, e, u, c, S)
  <1>0. TypeOK /\ balance[u] \in Nat /\ req[r].topup \in Topup \cup {NULL}
    BY DEF IInv, TypeOK, RequestRow
  <1>1. /\ q.op = e /\ q.pc = "settle" /\ q.user = u /\ q.amt = c
        /\ q.bal = balance[u] + c /\ q.spent = 0 /\ q.topup = req[r].topup
        /\ \A t \in Ticket : q.ded[t] = 0
    BY DEF Settling, Blank
  <1>2. q \in RequestRow
    <2>1. balance[u] + c \in Nat /\ u \in User \cup {NULL}
      BY <1>0
    <2> QED BY <1>0, <2>1, BlankRow DEF Settling, Blank, RequestRow, Endpoint, Pc
  <1>3. req'[r] = q
    BY <1>0 DEF TypeOK
  <1>4. KeepsLocks(r)
    BY <1>0, LockTaking
  <1>5. RequestInv(r)'
    <2>1. userLock'[u] = r /\ UNCHANGED <<topupLock, balance, topup>>
      BY <1>0 DEF TakeUser, TypeOK, tables
    <2>2. RequestInv(r)
      BY DEF IInv, LockDiscipline
    <2> HIDE DEF q
    <2> QED BY <1>0, <1>1, <1>3, <2>1, <2>2 DEF RequestInv
  <1> HIDE DEF q
  <1> QED BY <1>2, <1>4, <1>5, LocalStep DEF q

LEMMA AdjustWalletInv ==
    ASSUME IInv, NEW r \in Request, NEW u \in User, NEW a \in Int,
           AdjustWallet(r, u, a)
    PROVE  IInv'
  <1>1. CASE balance[u] + a < 0
    BY <1>1, Refusal DEF AdjustWallet
  <1>2. CASE ~(balance[u] + a < 0)
    <2>1. balance[u] + a >= 0
      BY <1>2 DEF IInv, TypeOK
    <2>2. candidateIds(u) \in SUBSET Ticket
      BY DEF candidateIds
    <2> DEFINE S == IF a > 0 THEN candidateIds(u) ELSE {}
    <2>3. S \in SUBSET Ticket
      BY <2>2
    <2>4. /\ TakeUser(r, u)
          /\ UNCHANGED tables
          /\ req' = [req EXCEPT ![r] = Settling(r, "adjustWallet", u, a, S)]
      BY <1>2 DEF AdjustWallet
    <2> HIDE DEF S
    <2>5. StartsSettling(r, "adjustWallet", u, a, S)
      BY <2>1, <2>3, <2>4 DEF StartsSettling
    <2> QED BY <2>5, SettlingInv
  <1> QED BY <1>1, <1>2

LEMMA SettleTicketsForUserInv ==
    ASSUME IInv, NEW r \in Request, NEW u \in User, SettleTicketsForUser(r, u)
    PROVE  IInv'
  <1>1. candidateIds(u) \in SUBSET Ticket
    BY DEF candidateIds
  <1>2. balance[u] + 0 >= 0
    BY DEF IInv, TypeOK
  <1>3. StartsSettling(r, "settleTicketsForUser", u, 0, candidateIds(u))
    BY <1>1, <1>2 DEF StartsSettling, SettleTicketsForUser
  <1> QED BY <1>3, SettlingInv

LEMMA LockUserInv ==
    ASSUME IInv, NEW r \in Request, LockUser(r)
    PROVE  IInv'
  <1> USE LedgerAssumption
  <1> DEFINE u == req[r].user
  <1>1. /\ TypeOK /\ RequestInv(r) /\ req[r].pc = "lockUser" /\ req[r] \in RequestRow
    BY DEF IInv, LockDiscipline, LockUser, TypeOK
  <1>2. u \in User /\ req[r].amt \in Nat /\ balance[u] \in Nat
    BY <1>1 DEF RequestInv, TypeOK
  <1>3. CASE req[r].op = "repriceTicket"
    <2> DEFINE q == [req[r] EXCEPT !.pc = "lockTicket"]
    <2>1. TakeUser(r, u) /\ UNCHANGED tables /\ req' = [req EXCEPT ![r] = q]
      BY <1>3 DEF LockUser
    <2>2. q \in RequestRow
      BY <1>1 DEF RequestRow, Pc
    <2>3. KeepsLocks(r)
      BY <1>1, <1>2, <2>1, LockTaking
    <2>4. RequestInv(r)'
      <3>1. req'[r] = q /\ userLock'[u] = r /\ UNCHANGED <<ticketLock, topupLock, ticket>>
        BY <1>1, <1>2, <2>1 DEF TypeOK, TakeUser, tables
      <3>2. /\ q.pc = "lockTicket" /\ q.op = "repriceTicket" /\ q.user = u
            /\ q.ticket = req[r].ticket /\ q.ded = req[r].ded
        BY <1>1, <1>3 DEF RequestRow
      <3> HIDE DEF q
      <3> QED BY <1>1, <1>2, <1>3, <3>1, <3>2 DEF RequestInv
    <2> HIDE DEF q
    <2> QED BY <2>1, <2>2, <2>3, <2>4, LocalStep DEF q
  <1>4. CASE req[r].op # "repriceTicket"
    <2>1. candidateIds(u) \in SUBSET Ticket
      BY DEF candidateIds
    <2>2. req[r].op \in {"verifyTopup", "settleTicketsForUser"}
      BY <1>1, <1>4 DEF RequestInv
    <2>3. req[r].op = "settleTicketsForUser" => req[r].amt = 0
      BY <1>1, <2>2 DEF RequestInv
    <2>4. balance[u] + req[r].amt >= 0
      BY <1>2
    <2>5. StartsSettling(r, req[r].op, u, req[r].amt, candidateIds(u))
      BY <1>2, <1>4, <2>1, <2>2, <2>3, <2>4 DEF StartsSettling, LockUser
    <2> QED BY <2>5, SettlingInv
  <1> QED BY <1>3, <1>4

LEMMA SettleTicketInv ==
    ASSUME IInv, NEW r \in Request, SettleTicket(r)
    PROVE  IInv'
  <1> USE LedgerAssumption
  <1>1. /\ TypeOK /\ RequestInv(r) /\ req[r] \in RequestRow
        /\ req[r].pc = "settle" /\ req[r].bal > 0 /\ UNCHANGED tables
        /\ UNCHANGED <<userLock, topupLock>>
    BY DEF IInv, LockDiscipline, SettleTicket, TypeOK
  <1> DEFINE rest(t) == Least(req[r].bal, settleRemaining(t))
             after(t) == [req[r] EXCEPT !.cand = req[r].cand \ {t},
                                        !.bal = req[r].bal - rest(t),
                                        !.spent = req[r].spent + rest(t),
                                        !.ded = [req[r].ded EXCEPT ![t] = rest(t)]]
  <1>2. PICK t \in req[r].cand :
           /\ ticketLock[t] = NULL
           /\ ticketLock' = [ticketLock EXCEPT ![t] = r]
           /\ req' = [req EXCEPT ![r] = after(t)]
    BY DEF SettleTicket
  <1> DEFINE d == rest(t)
             q == after(t)
  <1>3. /\ t \in Ticket /\ req[r].bal \in Nat /\ req[r].spent \in Nat
        /\ req[r].ded \in [Ticket -> Nat] /\ req[r].cand \in SUBSET Ticket
        /\ ticket[t].paid \in Nat /\ ticket[t].total \in Nat
    BY <1>1 DEF RequestRow, TypeOK, TicketRow
  <1>4. /\ d \in Nat /\ d <= req[r].bal
        /\ d > 0 => ticket[t].paid + d <= ticket[t].total
    BY <1>3 DEF Least, settleRemaining
  <1> HIDE DEF d
  <1>5. /\ q.cand = req[r].cand \ {t} /\ q.bal = req[r].bal - d
        /\ q.spent = req[r].spent + d
        /\ q.ded = [req[r].ded EXCEPT ![t] = d]
        /\ q.op = req[r].op /\ q.pc = "settle" /\ q.user = req[r].user
        /\ q.topup = req[r].topup /\ q.amt = req[r].amt
    BY <1>1 DEF RequestRow, d
  <1>6. q \in RequestRow
    <2>1. /\ req[r].cand \ {t} \in SUBSET Ticket
          /\ req[r].bal - d \in Nat /\ req[r].spent + d \in Nat
          /\ [req[r].ded EXCEPT ![t] = d] \in [Ticket -> Nat]
      BY <1>3, <1>4
    <2> QED BY <1>1, <2>1 DEF RequestRow, d
  <1> HIDE DEF q
  <1>7. KeepsLocks(r)
    BY <1>1, <1>2, <1>3, LockTaking
  <1>8. RequestInv(r)'
    <2>1. req'[r] = q
      BY <1>1, <1>2 DEF TypeOK, q
    <2>2. ticketLock'[t] = r
      BY <1>1, <1>2, <1>3 DEF TypeOK
    <2>3. ASSUME NEW s \in Ticket, q.ded[s] > 0
          PROVE  ticketLock'[s] = r /\ ticket[s].paid + q.ded[s] <= ticket[s].total
      <3>1. CASE s = t
        BY <1>3, <1>4, <1>5, <2>2, <2>3, <3>1
      <3>2. CASE s # t
        BY <1>1, <1>2, <1>3, <1>5, <2>3, <3>2 DEF RequestInv, TypeOK
      <3> QED BY <3>1, <3>2
    <2>4. /\ req[r].user \in User /\ balance[req[r].user] \in Nat
          /\ req[r].amt \in Int
          /\ q.bal + q.spent = balance[req[r].user] + req[r].amt
      BY <1>1, <1>3, <1>4, <1>5 DEF RequestInv, TypeOK, RequestRow
    <2> QED BY <1>1, <1>5, <2>1, <2>3, <2>4 DEF RequestInv, tables
  <1> QED BY <1>1, <1>2, <1>6, <1>7, <1>8, LocalStep DEF q

\* A commit moves the request on (q is Done, or the start of the request's next
\* transaction) and releases its rows: what is left to show is that it wrote
\* rows of the right type, that the books still agree and that it wrote no row
\* another request holds.
LEMMA CommitStep ==
    ASSUME IInv, NEW r \in Request, NEW q \in RequestRow,
           req' = [req EXCEPT ![r] = q], RequestInv(r)', Release(r),
           balance' \in [User -> Nat], ticket' \in [Ticket -> TicketRow],
           topup' \in [Topup -> TopupRow], ledger' \in [User -> Ledger],
           book' \in [Ticket -> Book],
           TopupsOwned', BalanceBacked', BooksBacked', RespectsLocks(r)
    PROVE  IInv'
  <1>1. KeepsLocks(r)
    BY Releasing DEF IInv
  <1>2. TypeOK'
    BY <1>1 DEF IInv, TypeOK, KeepsLocks
  <1> QED BY <1>1, <1>2, DisciplineKept DEF IInv

\* A request that ends with its commit.
LEMMA Finishing ==
    ASSUME TypeOK, NEW r \in Request, Finish(r)
    PROVE  /\ Done \in RequestRow
           /\ req' = [req EXCEPT ![r] = Done]
           /\ RequestInv(r)'
  <1>1. req' = [req EXCEPT ![r] = Done] /\ req'[r] = Done
    BY DEF TypeOK, Finish
  <1> QED BY <1>1, BlankRow, DoneInv

\* The row after a payment.
LEMMA PaymentRow ==
    ASSUME NEW row \in TicketRow, NEW a \in Nat
    PROVE  /\ applyPaymentToTicket(row, a) \in TicketRow
           /\ applyPaymentToTicket(row, a).paid = row.paid + a
           /\ applyPaymentToTicket(row, a).total = row.total
           /\ applyPaymentToTicket(row, a).service = row.service
           /\ applyPaymentToTicket(row, a).finalized = row.finalized
  <1>1. row.paid + a \in Nat
    BY DEF TicketRow
  <1>2. (IF row.status = "UNPAID" /\ isBaseCovered(row.paid + a, row.service)
         THEN "PAID" ELSE row.status) \in Status
    BY DEF TicketRow, Status
  <1> QED BY <1>1, <1>2 DEF applyPaymentToTicket, TicketRow

LEMMA SettleCommitInv ==
    ASSUME IInv, NEW r \in Request, SettleCommit(r)
    PROVE  IInv'
  <1> USE LedgerAssumption
  <1> DEFINE q == req[r]
             u == q.user
  <1>1. /\ TypeOK /\ RequestInv(r) /\ q \in RequestRow /\ q.pc = "settle"
        /\ LockDiscipline
    BY DEF IInv, LockDiscipline, SettleCommit, TypeOK
  <1>2. /\ u \in User /\ userLock[u] = r
        /\ q.op \in {"verifyTopup", "settleTicketsForUser", "adjustWallet"}
        /\ q.op = "settleTicketsForUser" => q.amt = 0
        /\ q.bal + q.spent = balance[u] + q.amt
        /\ q.op = "verifyTopup" => /\ q.topup \in Topup
                                   /\ topupLock[q.topup] = r
                                   /\ topup[q.topup].status = "PENDING_VERIFICATION"
                                   /\ q.amt = topup[q.topup].amount
        /\ \A t \in Ticket : q.ded[t] > 0 => ticketLock[t] = r
    BY <1>1 DEF RequestInv
  <1>3. /\ q.bal \in Nat /\ q.spent \in Nat /\ q.amt \in Int
        /\ q.ded \in [Ticket -> Nat] /\ balance[u] \in Nat /\ ledger[u] \in Ledger
        /\ \A t \in Ticket : ticket[t] \in TicketRow /\ book[t] \in Book
    BY <1>1, <1>2 DEF RequestRow, TypeOK
  <1>4. balance' = [balance EXCEPT ![u] = q.bal] /\ Release(r) /\ Finish(r)
    BY DEF SettleCommit
  <1>5. \A t \in Ticket : /\ ticket'[t] \in TicketRow
                          /\ ticket'[t].paid = ticket[t].paid + q.ded[t]
                          /\ q.ded[t] = 0 => ticket'[t] = ticket[t]
    <2> SUFFICES ASSUME NEW t \in Ticket
                 PROVE  /\ ticket'[t] \in TicketRow
                        /\ ticket'[t].paid = ticket[t].paid + q.ded[t]
                        /\ q.ded[t] = 0 => ticket'[t] = ticket[t]
      OBVIOUS
    <2>1. ticket'[t] = IF q.ded[t] > 0
                       THEN applyPaymentToTicket(ticket[t], q.ded[t])
                       ELSE ticket[t]
      BY DEF SettleCommit
    <2>2. ticket[t] \in TicketRow /\ q.ded[t] \in Nat /\ ticket[t].paid \in Nat
      BY <1>3 DEF TicketRow
    <2>3. CASE q.ded[t] > 0
      <3>1. ticket'[t] = applyPaymentToTicket(ticket[t], q.ded[t])
        BY <2>1, <2>3
      <3>2. /\ applyPaymentToTicket(ticket[t], q.ded[t]) \in TicketRow
            /\ applyPaymentToTicket(ticket[t], q.ded[t]).paid
               = ticket[t].paid + q.ded[t]
        BY <2>2, PaymentRow
      <3> QED BY <2>2, <2>3, <3>1, <3>2
    <2>4. CASE q.ded[t] = 0
      BY <2>1, <2>2, <2>4
    <2> QED BY <2>2, <2>3, <2>4
  <1>6. ticket' \in [Ticket -> TicketRow]
    BY <1>5 DEF SettleCommit
  <1>7. topup' \in [Topup -> TopupRow] /\ TopupsOwned'
    <2>1. CASE q.op = "verifyTopup"
      <3>1. topup' = [topup EXCEPT ![q.topup].status = "VERIFIED"]
        BY <2>1 DEF SettleCommit
      <3>2. q.topup \in Topup /\ topup[q.topup].user \in User
        BY <1>2, <2>1 DEF IInv, TopupsOwned
      <3>3. /\ topup \in [Topup -> TopupRow] /\ topup[q.topup].amount \in Nat
            /\ \A w \in Topup : topup[w].status # "NONE" => topup[w].user \in User
        BY <1>1, <3>2 DEF TypeOK, TopupRow, IInv, TopupsOwned
      <3> HIDE LedgerAssumption DEF q
      <3>4. topup' \in [Topup -> TopupRow]
        BY <3>1, <3>2, <3>3 DEF TopupRow
      <3>5. \A w \in Topup : topup'[w].status # "NONE" => topup'[w].user \in User
        BY <3>1, <3>2, <3>3 DEF TopupRow
      <3> QED BY <3>4, <3>5 DEF TopupsOwned
    <2>2. CASE q.op # "verifyTopup"
      BY <1>1, <2>2 DEF SettleCommit, TypeOK, IInv, TopupsOwned
    <2> QED BY <2>1, <2>2
  <1>8. ledger' \in [User -> Ledger] /\ BalanceBacked'
    <2> DEFINE L == [topup   |-> ledger[u].topup
                                 + (IF q.op = "verifyTopup" THEN q.amt ELSE 0),
                     adjust  |-> ledger[u].adjust
                                 + (IF q.op = "adjustWallet" THEN q.amt ELSE 0),
                     surplus |-> ledger[u].surplus,
                     debit   |-> ledger[u].debit + q.spent]
    <2>1. ledger' = [ledger EXCEPT ![u] = L]
      BY DEF SettleCommit
    <2>2. q.op = "verifyTopup" => q.amt \in Nat
      BY <1>1, <1>2 DEF TypeOK, TopupRow
    <2>3. /\ ledger[u].topup \in Nat /\ ledger[u].adjust \in Int
          /\ ledger[u].surplus \in Nat /\ ledger[u].debit \in Nat
      BY <1>3 DEF Ledger
    <2>4. L \in Ledger
      BY <1>3, <2>2, <2>3 DEF Ledger
    <2>5. q.bal = L.topup + L.adjust + L.surplus - L.debit
      <3>1. balance[u] = ledger[u].topup + ledger[u].adjust + ledger[u].surplus
                         - ledger[u].debit
        BY <1>2 DEF IInv, BalanceBacked
      <3> QED BY <1>2, <1>3, <2>2, <2>3, <3>1
    <2> HIDE DEF L, q, u
    <2>6. ledger' \in [User -> Ledger]
      BY <1>1, <1>2, <2>1, <2>4 DEF TypeOK
    <2> QED BY <1>1, <1>2, <1>4, <2>1, <2>5, <2>6 DEF IInv, BalanceBacked, TypeOK
  <1>9. book' \in [Ticket -> Book] /\ BooksBacked'
    <2>1. book' = [t \in Ticket |-> [debit   |-> book[t].debit + q.ded[t],
                                     cash    |-> book[t].cash,
                                     surplus |-> book[t].surplus]]
      BY DEF SettleCommit
    <2>2. \A t \in Ticket : /\ book[t].debit \in Nat /\ book[t].cash \in Nat
                            /\ book[t].surplus \in Nat /\ q.ded[t] \in Nat
                            /\ ticket[t].paid \in Nat
      BY <1>3 DEF Book, TicketRow
    <2> HIDE DEF q
    <2> QED BY <1>5, <2>1, <2>2 DEF IInv, BooksBacked, Book
  <1>10. RespectsLocks(r)
    <2> SUFFICES ASSUME NEW o \in Request, o # r
                 PROVE  /\ \A v \in User : userLock[v] = o => balance'[v] = balance[v]
                        /\ \A t \in Ticket : ticketLock[t] = o =>
                             /\ ticket'[t].paid = ticket[t].paid
                             /\ ticket'[t].total = ticket[t].total
                        /\ req[o].op = "verifyTopup" =>
                             topup'[req[o].topup] = topup[req[o].topup]
      BY DEF RespectsLocks
    <2>1. \A v \in User : userLock[v] = o => balance'[v] = balance[v]
      BY <1>1, <1>2, <1>4 DEF TypeOK
    <2>2. \A t \in Ticket : ticketLock[t] = o => ticket'[t] = ticket[t]
      <3> SUFFICES ASSUME NEW t \in Ticket, ticketLock[t] = o
                   PROVE  ticket'[t] = ticket[t]
        OBVIOUS
      <3>1. ~(q.ded[t] > 0) /\ q.ded[t] \in Nat
        BY <1>2, <1>3
      <3>2. q.ded[t] = 0
        BY <3>1
      <3> QED BY <1>5, <3>2
    <2>3. ASSUME req[o].op = "verifyTopup"
          PROVE  topup'[req[o].topup] = topup[req[o].topup]
      <3>1. req[o].topup \in Topup /\ topupLock[req[o].topup] = o
        BY <1>1, <2>3 DEF LockDiscipline, RequestInv
      <3> QED BY <1>1, <1>2, <3>1 DEF SettleCommit, TypeOK
    <2> QED BY <2>1, <2>2, <2>3
  <1>11. balance' \in [User -> Nat]
    BY <1>1, <1>2, <1>3, <1>4 DEF TypeOK
  <1>12. Done \in RequestRow /\ req' = [req EXCEPT ![r] = Done] /\ RequestInv(r)'
    BY <1>1, <1>4, Finishing
  <1> QED BY <1>4, <1>6, <1>7, <1>8, <1>9, <1>10, <1>11, <1>12, CommitStep

-----------------------------------------------------------------------------
\* A request that has locked the User row u and goes on to lock ticket t.
HeadsForTicket(r, q, u, t) ==
    /\ u \in User /\ t \in Ticket
    /\ q \in RequestRow
    /\ q.pc = "lockTicket" /\ q.user = u /\ q.ticket = t
    /\ q.op \in {"payTicketFromWallet", "finalizeRemainder"}
    /\ q.op = "payTicketFromWallet" => q.bal = balance[u]
    /\ \A s \in Ticket : q.ded[s] = 0
    /\ TakeUser(r, u)
    /\ req' = [req EXCEPT ![r] = q]
    /\ UNCHANGED tables

LEMMA HeadsForTicketInv ==
    ASSUME IInv, NEW r \in Request, NEW q, NEW u, NEW t, HeadsForTicket(r, q, u, t)
    PROVE  IInv'
  <1> USE DEF HeadsForTicket
  <1>1. TypeOK /\ req'[r] = q /\ userLock'[u] = r /\ UNCHANGED <<balance, topup>>
    BY DEF IInv, TypeOK, TakeUser, tables
  <1>2. KeepsLocks(r)
    BY <1>1, LockTaking
  <1>3. RequestInv(r)'
    BY <1>1 DEF RequestInv
  <1> QED BY <1>2, <1>3, LocalStep

LEMMA PayTicketFromWalletInv ==
    ASSUME IInv, NEW r \in Request, NEW u \in User, NEW t \in Ticket,
           PayTicketFromWallet(r, u, t)
    PROVE  IInv'
  <1> DEFINE q == [Blank EXCEPT !.op = "payTicketFromWallet", !.pc = "lockTicket",
                                !.user = u, !.ticket = t, !.bal = balance[u]]
  <1>1. balance[u] \in Nat /\ u \in User \cup {NULL} /\ t \in Ticket \cup {NULL}
    BY DEF IInv, TypeOK
  <1>2. q \in RequestRow
    BY <1>1, BlankRow DEF Blank, RequestRow, Endpoint, Pc
  <1>3. HeadsForTicket(r, q, u, t)
    BY <1>2 DEF HeadsForTicket, PayTicketFromWallet, Blank
  <1> HIDE DEF q
  <1> QED BY <1>3, HeadsForTicketInv

LEMMA FinalizeRemainderInv ==
    ASSUME IInv, NEW r \in Request, NEW t \in Ticket, NEW n \in Nat,
           FinalizeRemainder(r, t, n)
    PROVE  IInv'
  <1> USE LedgerAssumption
  <1> DEFINE u == Consumer[t]
             p == [service |-> 0, total |-> n]
             q == [Blank EXCEPT !.op = "finalizeRemainder", !.pc = "lockTicket",
                                !.user = u, !.ticket = t, !.price = p]
  <1>1. u \in User /\ u \in User \cup {NULL} /\ t \in Ticket \cup {NULL} /\ p \in Price
    BY DEF Price
  <1> HIDE DEF p
  <1>2. q \in RequestRow
    BY <1>1, BlankRow DEF Blank, RequestRow, Endpoint, Pc
  <1>3. HeadsForTicket(r, q, u, t)
    BY <1>1, <1>2 DEF HeadsForTicket, FinalizeRemainder, Blank, p
  <1> HIDE DEF q, u
  <1> QED BY <1>3, HeadsForTicketInv

\* A request that has read ticket t, holds nothing and goes on to write it.
ReadsTicket(r, q, t) ==
    /\ t \in Ticket
    /\ q \in RequestRow
    /\ q.ticket = t
    /\ \/ q.pc = "write" /\ q.op \in {"updateCharge", "updateStatus"}
       \/ /\ q.pc = "lockUser" /\ q.op = "repriceTicket"
          /\ q.user \in User /\ q.amt = 0
    /\ \A s \in Ticket : q.ded[s] = 0
    /\ req' = [req EXCEPT ![r] = q]
    /\ UNCHANGED <<tables, locks>>

LEMMA ReadsTicketInv ==
    ASSUME IInv, NEW r \in Request, NEW q, NEW t, ReadsTicket(r, q, t)
    PROVE  IInv'
  <1> USE DEF ReadsTicket
  <1>1. TypeOK /\ req'[r] = q /\ UNCHANGED locks /\ UNCHANGED tables
    BY DEF IInv, TypeOK
  <1>2. KeepsLocks(r)
    BY <1>1, LockTaking
  <1>3. RequestInv(r)'
    BY <1>1 DEF RequestInv
  <1> QED BY <1>1, <1>2, <1>3, LocalStep

LEMMA RepriceTicketInv ==
    ASSUME IInv, NEW r \in Request, NEW t \in Ticket, NEW c \in Charges,
           RepriceTicket(r, t, c)
    PROVE  IInv'
  <1> USE LedgerAssumption
  <1> DEFINE q == [Blank EXCEPT !.op = "repriceTicket", !.pc = "lockUser",
                                !.user = Consumer[t], !.ticket = t, !.price = c]
  <1>1. CASE ticket[t].status = "DELIVERED"
    BY <1>1, Refusal DEF RepriceTicket, Finish, tables, locks
  <1>2. CASE ticket[t].status # "DELIVERED"
    <2>1. /\ Consumer[t] \in User \cup {NULL} /\ t \in Ticket \cup {NULL}
          /\ Consumer[t] \in User /\ c \in Price
      OBVIOUS
    <2>2. q \in RequestRow
      BY <2>1, BlankRow DEF Blank, RequestRow, Endpoint, Pc
    <2>3. ReadsTicket(r, q, t)
      BY <1>2, <2>1, <2>2 DEF ReadsTicket, RepriceTicket, Blank
    <2> HIDE DEF q
    <2> QED BY <2>3, ReadsTicketInv
  <1> QED BY <1>1, <1>2

LEMMA UpdateChargeInv ==
    ASSUME IInv, NEW r \in Request, NEW t \in Ticket, NEW c \in Charges,
           UpdateCharge(r, t, c)
    PROVE  IInv'
  <1> USE LedgerAssumption
  <1> DEFINE q == [Blank EXCEPT !.op = "updateCharge", !.pc = "write",
                                !.ticket = t, !.price = c]
  <1>1. CASE c.total < ticket[t].paid
    BY <1>1, Refusal DEF UpdateCharge, Finish, tables, locks
  <1>2. CASE ~(c.total < ticket[t].paid)
    <2>1. t \in Ticket \cup {NULL} /\ c \in Price
      OBVIOUS
    <2>2. q \in RequestRow
      BY <2>1, BlankRow DEF Blank, RequestRow, Endpoint, Pc
    <2>3. ReadsTicket(r, q, t)
      BY <1>2, <2>1, <2>2 DEF ReadsTicket, UpdateCharge, Blank
    <2> HIDE DEF q
    <2> QED BY <2>3, ReadsTicketInv
  <1> QED BY <1>1, <1>2

LEMMA UpdateStatusInv ==
    ASSUME IInv, NEW r \in Request, NEW t \in Ticket, NEW s \in Status,
           UpdateStatus(r, t, s)
    PROVE  IInv'
  <1> USE LedgerAssumption
  <1> DEFINE q == [Blank EXCEPT !.op = "updateStatus", !.pc = "write", !.ticket = t,
                                !.seen = ticket[t].status, !.next = s]
             ok == /\ s \in STATUS_TRANSITIONS[ticket[t].status]
                   /\ s = "DELIVERED" => mayDeliver(t)
  <1>0. req' = [req EXCEPT ![r] = IF ok THEN q ELSE Done] /\ UNCHANGED <<tables, locks>>
    BY DEF UpdateStatus
  <1>1. CASE ~ok
    BY <1>0, <1>1, Refusal DEF Finish, tables, locks
  <1>2. CASE ok
    <2>1. t \in Ticket \cup {NULL} /\ ticket[t].status \in Status
      BY DEF IInv, TypeOK, TicketRow
    <2>2. q \in RequestRow
      BY <2>1, BlankRow DEF Blank, RequestRow, Endpoint, Pc
    <2>3. ReadsTicket(r, q, t)
      BY <1>0, <1>2, <2>1, <2>2 DEF ReadsTicket, Blank
    <2> HIDE DEF q
    <2> QED BY <2>3, ReadsTicketInv
  <1> QED BY <1>1, <1>2

-----------------------------------------------------------------------------
\* Single-statement updates of columns other than amountPaid of a ticket that
\* nobody holds.
WritesColumns(r, t, row) ==
    /\ t \in Ticket /\ row \in TicketRow
    /\ row.paid = ticket[t].paid
    /\ ticketLock[t] = NULL
    /\ ticket' = [ticket EXCEPT ![t] = row]
    /\ Finish(r)
    /\ UNCHANGED <<balance, topup, ledger, book, locks>>

LEMMA WritesColumnsInv ==
    ASSUME IInv, NEW r \in Request, NEW t, NEW row, WritesColumns(r, t, row)
    PROVE  IInv'
  <1> USE LedgerAssumption DEF WritesColumns
  <1>1. TypeOK'
    BY BlankRow DEF IInv, TypeOK, Finish, locks
  <1>2. TopupsOwned' /\ BalanceBacked'
    BY DEF IInv, TopupsOwned, BalanceBacked
  <1>3. BooksBacked'
    BY DEF IInv, BooksBacked, TypeOK
  <1>4. req' = [req EXCEPT ![r] = Done] /\ req'[r] = Done /\ KeepsLocks(r)
    BY LockTaking DEF IInv, TypeOK, Finish
  <1>5. RespectsLocks(r)
    BY DEF RespectsLocks, IInv, TypeOK
  <1> QED BY <1>1, <1>2, <1>3, <1>4, <1>5, DoneInv, DisciplineKept DEF IInv

LEMMA UpdateChargeWriteInv ==
    ASSUME IInv, NEW r \in Request, UpdateChargeWrite(r)
    PROVE  IInv'
  <1> DEFINE t == req[r].ticket
             row == [ticket[t] EXCEPT !.service = req[r].price.service,
                                      !.total = req[r].price.total]
  <1>1. RequestInv(r) /\ req[r].pc = "write" /\ req[r] \in RequestRow
    BY DEF IInv, LockDiscipline, TypeOK, UpdateChargeWrite
  <1>2. t \in Ticket /\ req[r].price \in Price
    BY <1>1 DEF RequestInv, RequestRow
  <1>3. ticket[t] \in TicketRow
    BY <1>2 DEF IInv, TypeOK
  <1>4. row \in TicketRow /\ row.paid = ticket[t].paid
    BY <1>2, <1>3 DEF TicketRow, Price
  <1>5. ticket' = [ticket EXCEPT ![t] = row]
    BY <1>2, <1>3 DEF UpdateChargeWrite, IInv, TypeOK, TicketRow
  <1>6. WritesColumns(r, t, row)
    BY <1>2, <1>4, <1>5 DEF WritesColumns, UpdateChargeWrite
  <1> HIDE DEF t, row
  <1> QED BY <1>6, WritesColumnsInv

\* A conditional update that matches no row ends the request.
LEMMA NoMatch ==
    ASSUME IInv, NEW r \in Request, Finish(r),
           UNCHANGED <<balance, ticket, topup, ledger, book, locks>>
    PROVE  IInv'
  BY Refusal DEF tables

LEMMA UpdateStatusWriteInv ==
    ASSUME IInv, NEW r \in Request, UpdateStatusWrite(r)
    PROVE  IInv'
  <1> DEFINE t == req[r].ticket
             row == [ticket[t] EXCEPT !.status = req[r].next]
  <1>1. RequestInv(r) /\ req[r].pc = "write" /\ req[r] \in RequestRow
    BY DEF IInv, LockDiscipline, TypeOK, UpdateStatusWrite
  <1>2. t \in Ticket /\ req[r].next \in Status
    BY <1>1 DEF RequestInv, RequestRow
  <1>3. ticket[t] \in TicketRow
    BY <1>2 DEF IInv, TypeOK
  <1>4. CASE ticket[t].status = req[r].seen
    <2>1. row \in TicketRow /\ row.paid = ticket[t].paid
      BY <1>2, <1>3 DEF TicketRow
    <2>2. ticket' = [ticket EXCEPT ![t] = row]
      BY <1>2, <1>3, <1>4 DEF UpdateStatusWrite, IInv, TypeOK, TicketRow
    <2>3. WritesColumns(r, t, row)
      BY <1>2, <2>1, <2>2 DEF WritesColumns, UpdateStatusWrite
    <2> HIDE DEF t, row
    <2> QED BY <2>3, WritesColumnsInv
  <1>5. CASE ticket[t].status # req[r].seen
    BY <1>5, NoMatch DEF UpdateStatusWrite
  <1> QED BY <1>4, <1>5

LEMMA DispatchDeliveryInv ==
    ASSUME IInv, NEW r \in Request, NEW t \in Ticket, DispatchDelivery(r, t)
    PROVE  IInv'
  <1> DEFINE row == [ticket[t] EXCEPT !.dispatched = TRUE]
             ok == /\ t \in Physical
                   /\ ticket[t].status = "COMPLETED"
                   /\ ~ticket[t].dispatched
  <1>1. ticket[t] \in TicketRow
    BY DEF IInv, TypeOK
  <1>2. CASE ok
    <2>1. row \in TicketRow /\ row.paid = ticket[t].paid
      BY <1>1 DEF TicketRow
    <2>2. ticket' = [ticket EXCEPT ![t] = row]
      BY <1>1, <1>2 DEF DispatchDelivery, IInv, TypeOK, TicketRow
    <2>3. WritesColumns(r, t, row)
      BY <2>1, <2>2 DEF WritesColumns, DispatchDelivery
    <2> HIDE DEF row
    <2> QED BY <2>3, WritesColumnsInv
  <1>3. CASE ~ok
    BY <1>3, NoMatch DEF DispatchDelivery
  <1> QED BY <1>2, <1>3

LEMMA ArchivingInv ==
    ASSUME IInv, NEW r \in Request, NEW t \in Ticket,
           BulkArchive(r, t) \/ BulkRestore(r, t)
    PROVE  IInv'
  <1>1. ticket[t] \in TicketRow
    BY DEF IInv, TypeOK
  <1>2. PICK b \in BOOLEAN : ticket' = [ticket EXCEPT ![t].archived = b]
    BY DEF BulkArchive, BulkRestore
  <1> DEFINE row == [ticket[t] EXCEPT !.archived = b]
  <1>3. row \in TicketRow /\ row.paid = ticket[t].paid
    BY <1>1 DEF TicketRow
  <1>4. ticket' = [ticket EXCEPT ![t] = row]
    BY <1>1, <1>2 DEF IInv, TypeOK, TicketRow
  <1>5. WritesColumns(r, t, row)
    BY <1>3, <1>4 DEF WritesColumns, BulkArchive, BulkRestore
  <1> HIDE DEF row
  <1> QED BY <1>5, WritesColumnsInv

LEMMA AbortInv ==
    ASSUME IInv, NEW r \in Request, Abort(r)
    PROVE  IInv'
  BY Refusal DEF Abort

-----------------------------------------------------------------------------
\* Wallet payments, refunds and receipts for one ticket.

\* A commit that writes the rows of one user u and one ticket t, which no other
\* request holds, and keeps the books of both.
WritesOneTicket(r, q, u, t, b, row, L, B) ==
    /\ u \in User /\ t \in Ticket
    /\ b \in Nat /\ row \in TicketRow /\ L \in Ledger /\ B \in Book
    /\ userLock[u] \in {r, NULL} /\ ticketLock[t] \in {r, NULL}
    /\ balance' = [balance EXCEPT ![u] = b]
    /\ ticket' = [ticket EXCEPT ![t] = row]
    /\ ledger' = [ledger EXCEPT ![u] = L]
    /\ book' = [book EXCEPT ![t] = B]
    /\ b = L.topup + L.adjust + L.surplus - L.debit
    /\ row.paid = B.debit + B.cash - B.surplus
    /\ UNCHANGED topup
    /\ Release(r)
    /\ q \in RequestRow
    /\ req' = [req EXCEPT ![r] = q]
    /\ RequestInv(r)'

LEMMA WritesOneTicketInv ==
    ASSUME IInv, NEW r \in Request, NEW q, NEW u, NEW t, NEW b, NEW row, NEW L,
           NEW B, WritesOneTicket(r, q, u, t, b, row, L, B)
    PROVE  IInv'
  <1> USE LedgerAssumption DEF WritesOneTicket
  <1>1. /\ balance' \in [User -> Nat] /\ ticket' \in [Ticket -> TicketRow]
        /\ topup' \in [Topup -> TopupRow] /\ ledger' \in [User -> Ledger]
        /\ book' \in [Ticket -> Book]
    BY DEF IInv, TypeOK
  <1>2. TopupsOwned'
    BY DEF IInv, TopupsOwned
  <1>3. BalanceBacked'
    BY DEF IInv, TypeOK, BalanceBacked
  <1>4. BooksBacked'
    BY DEF IInv, TypeOK, BooksBacked
  <1>5. RespectsLocks(r)
    BY DEF IInv, TypeOK, RespectsLocks
  <1> QED BY <1>1, <1>2, <1>3, <1>4, <1>5, CommitStep

LEMMA PayCommitInv ==
    ASSUME IInv, NEW r \in Request, PayCommit(r)
    PROVE  IInv'
  <1> DEFINE q == req[r]
             u == q.user
             t == q.ticket
             applied == Least(q.bal, dueNow(t))
             refused == \/ ticket[t].archived
                        \/ Consumer[t] # u
                        \/ ticket[t].total <= 0
                        \/ dueNow(t) <= 0
                        \/ q.bal <= 0
  <1>1. /\ TypeOK /\ RequestInv(r) /\ q \in RequestRow /\ q.pc = "lockTicket"
        /\ q.op = "payTicketFromWallet" /\ ticketLock[t] = NULL
        /\ Release(r) /\ Finish(r)
    BY DEF IInv, LockDiscipline, PayCommit, AtTicket, TypeOK
  <1>2. u \in User /\ t \in Ticket /\ userLock[u] = r /\ q.bal = balance[u]
    BY <1>1 DEF RequestInv
  <1>3. CASE refused
    BY <1>1, <1>3, Refusal DEF PayCommit
  <1>4. CASE ~refused
    <2>1. /\ balance' = [balance EXCEPT ![u] = q.bal - applied]
          /\ ticket' = [ticket EXCEPT ![t] = applyPaymentToTicket(ticket[t], applied)]
          /\ ledger' = [ledger EXCEPT ![u].debit = ledger[u].debit + applied]
          /\ book' = [book EXCEPT ![t].debit = book[t].debit + applied]
          /\ UNCHANGED topup
      BY <1>4 DEF PayCommit
    <2>2. /\ balance[u] \in Nat /\ ticket[t] \in TicketRow
          /\ ledger[u] \in Ledger /\ book[t] \in Book
      BY <1>1, <1>2 DEF TypeOK
    <2>3. /\ ledger[u].topup \in Nat /\ ledger[u].adjust \in Int
          /\ ledger[u].surplus \in Nat /\ ledger[u].debit \in Nat
          /\ book[t].debit \in Nat /\ book[t].cash \in Nat /\ book[t].surplus \in Nat
          /\ ticket[t].paid \in Nat /\ ticket[t].total \in Nat
          /\ ticket[t].service \in Nat
      BY <2>2 DEF Ledger, Book, TicketRow
    <2>4. applied \in Nat /\ applied <= balance[u]
      BY <1>2, <1>4, <2>2, <2>3 DEF Least, dueNow
    <2> DEFINE a == applied
               L == [ledger[u] EXCEPT !.debit = ledger[u].debit + a]
               B == [book[t] EXCEPT !.debit = book[t].debit + a]
               row == applyPaymentToTicket(ticket[t], a)
    <2> HIDE DEF applied
    <2>5. row \in TicketRow /\ row.paid = ticket[t].paid + a
      BY <2>2, <2>4, PaymentRow
    <2>6. /\ L \in Ledger /\ L.topup = ledger[u].topup /\ L.adjust = ledger[u].adjust
          /\ L.surplus = ledger[u].surplus /\ L.debit = ledger[u].debit + a
      BY <2>2, <2>3, <2>4 DEF Ledger
    <2>7. /\ B \in Book /\ B.debit = book[t].debit + a /\ B.cash = book[t].cash
          /\ B.surplus = book[t].surplus
      BY <2>2, <2>3, <2>4 DEF Book
    <2>8. ledger' = [ledger EXCEPT ![u] = L] /\ book' = [book EXCEPT ![t] = B]
      BY <1>1, <1>2, <2>1 DEF TypeOK
    <2>9. balance[u] - a = L.topup + L.adjust + L.surplus - L.debit
      BY <1>2, <2>2, <2>3, <2>4, <2>6 DEF IInv, BalanceBacked
    <2>10. row.paid = B.debit + B.cash - B.surplus
      BY <1>2, <2>3, <2>4, <2>5, <2>7 DEF IInv, BooksBacked
    <2>11. balance[u] - a \in Nat /\ balance' = [balance EXCEPT ![u] = balance[u] - a]
           /\ ticket' = [ticket EXCEPT ![t] = row]
      BY <1>2, <2>1, <2>2, <2>4
    <2>12. WritesOneTicket(r, Done, u, t, balance[u] - a, row, L, B)
      <3> HIDE DEF L, B, row, a, u, t
      <3> QED BY <1>1, <1>2, <2>1, <2>5, <2>6, <2>7, <2>8, <2>9, <2>10, <2>11,
                 Finishing DEF WritesOneTicket
    <2> HIDE DEF L, B, row, a, u, t
    <2> QED BY <2>12, WritesOneTicketInv
  <1> QED BY <1>3, <1>4

\* A new total below the amount paid: the surplus moves to the wallet.
LEMMA SurplusCommitInv ==
    ASSUME IInv, NEW r \in Request, NEW q \in RequestRow, NEW u \in User,
           NEW t \in Ticket, NEW n \in Nat, NEW row \in TicketRow,
           row.paid = ticket[t].paid - surplusOver(t, n),
           userLock[u] = r, ticketLock[t] = NULL,
           CreditSurplus(u, t, surplusOver(t, n)),
           ticket' = [ticket EXCEPT ![t] = row],
           UNCHANGED topup, Release(r),
           req' = [req EXCEPT ![r] = q], RequestInv(r)'
    PROVE  IInv'
  <1> DEFINE s == surplusOver(t, n)
             L == [ledger[u] EXCEPT !.surplus = ledger[u].surplus + s]
             B == [book[t] EXCEPT !.surplus = book[t].surplus + s]
  <1>1. /\ TypeOK /\ balance[u] \in Nat /\ ticket[t] \in TicketRow
        /\ ledger[u] \in Ledger /\ book[t] \in Book
    BY DEF IInv, TypeOK
  <1>2. /\ ledger[u].topup \in Nat /\ ledger[u].adjust \in Int
        /\ ledger[u].surplus \in Nat /\ ledger[u].debit \in Nat
        /\ book[t].debit \in Nat /\ book[t].cash \in Nat /\ book[t].surplus \in Nat
        /\ ticket[t].paid \in Nat /\ row.paid \in Nat
    BY <1>1 DEF Ledger, Book, TicketRow
  <1>3. s \in Nat
    BY <1>2 DEF surplusOver
  <1>4. /\ balance' = [balance EXCEPT ![u] = balance[u] + s]
        /\ ledger' = [ledger EXCEPT ![u] = L]
        /\ book' = [book EXCEPT ![t] = B]
    BY <1>1 DEF CreditSurplus, TypeOK
  <1> HIDE DEF s
  <1>5. /\ L \in Ledger /\ L.topup = ledger[u].topup /\ L.adjust = ledger[u].adjust
        /\ L.surplus = ledger[u].surplus + s /\ L.debit = ledger[u].debit
    BY <1>1, <1>2, <1>3 DEF Ledger
  <1>6. /\ B \in Book /\ B.debit = book[t].debit /\ B.cash = book[t].cash
        /\ B.surplus = book[t].surplus + s
    BY <1>1, <1>2, <1>3 DEF Book
  <1>7. balance[u] + s = L.topup + L.adjust + L.surplus - L.debit
    BY <1>1, <1>2, <1>3, <1>5 DEF IInv, BalanceBacked
  <1>8. row.paid = B.debit + B.cash - B.surplus
    <2>1. row.paid = ticket[t].paid - s
      BY DEF s
    <2> QED BY <1>2, <1>3, <1>6, <2>1 DEF IInv, BooksBacked
  <1> HIDE DEF L, B
  <1>9. WritesOneTicket(r, q, u, t, balance[u] + s, row, L, B)
    BY <1>1, <1>3, <1>4, <1>5, <1>6, <1>7, <1>8 DEF WritesOneTicket
  <1> QED BY <1>9, WritesOneTicketInv

\* What a request at the lock of its ticket can rely on.
LEMMA AtTicketFacts ==
    ASSUME IInv, NEW r \in Request, NEW op, AtTicket(r, op)
    PROVE  /\ TypeOK /\ RequestInv(r) /\ req[r] \in RequestRow
           /\ req[r].user \in User /\ req[r].ticket \in Ticket
           /\ userLock[req[r].user] = r
           /\ ticketLock[req[r].ticket] = NULL
           /\ req[r].price \in Price
           /\ req[r].price.total \in Nat /\ req[r].price.service \in Nat
           /\ ticket[req[r].ticket] \in TicketRow
  <1>1. TypeOK /\ RequestInv(r) /\ req[r] \in RequestRow
        /\ req[r].pc = "lockTicket" /\ ticketLock[req[r].ticket] = NULL
    BY DEF IInv, TypeOK, LockDiscipline, AtTicket
  <1>2. req[r].user \in User /\ req[r].ticket \in Ticket
        /\ userLock[req[r].user] = r /\ req[r].price \in Price
    BY <1>1 DEF RequestInv, RequestRow
  <1> QED BY <1>1, <1>2 DEF Price, TypeOK

LEMMA RepriceCommitInv ==
    ASSUME IInv, NEW r \in Request, RepriceCommit(r)
    PROVE  IInv'
  <1> DEFINE u == req[r].user
             t == req[r].ticket
             n == req[r].price.total
             s == surplusOver(t, n)
             row == [ticket[t] EXCEPT !.service = req[r].price.service,
                                      !.total = n, !.paid = ticket[t].paid - s]
  <1>1. AtTicket(r, "repriceTicket")
    BY DEF RepriceCommit
  <1>2. /\ TypeOK /\ u \in User /\ t \in Ticket /\ userLock[u] = r
        /\ ticketLock[t] = NULL /\ n \in Nat /\ req[r].price.service \in Nat
        /\ ticket[t] \in TicketRow
    BY <1>1, AtTicketFacts
  <1>3. s \in Nat /\ ticket[t].paid - s \in Nat
    BY <1>2 DEF surplusOver, TicketRow
  <1>4. row \in TicketRow /\ row.paid = ticket[t].paid - s
    BY <1>2, <1>3 DEF TicketRow
  <1>5. ticket' = [ticket EXCEPT ![t] = row]
    BY <1>2 DEF RepriceCommit, TypeOK, TicketRow
  <1>6. /\ CreditSurplus(u, t, s) /\ UNCHANGED topup /\ Release(r) /\ Finish(r)
    BY DEF RepriceCommit
  <1>7. Done \in RequestRow /\ req' = [req EXCEPT ![r] = Done] /\ RequestInv(r)'
    BY <1>2, <1>6, Finishing
  <1> HIDE DEF row, u, t, n
  <1> QED BY <1>2, <1>4, <1>5, <1>6, <1>7, SurplusCommitInv

LEMMA FinalizeCommitInv ==
    ASSUME IInv, NEW r \in Request, FinalizeCommit(r)
    PROVE  IInv'
  <1> DEFINE u == req[r].user
             t == req[r].ticket
             n == req[r].price.total
             s == surplusOver(t, n)
             row == [ticket[t] EXCEPT !.total = n, !.paid = ticket[t].paid - s,
                                      !.finalized = TRUE]
             q == [Blank EXCEPT !.op = "settleTicketsForUser", !.pc = "lockUser",
                                !.user = u]
  <1>1. AtTicket(r, "finalizeRemainder") /\ Release(r)
    BY DEF FinalizeCommit
  <1>2. /\ TypeOK /\ u \in User /\ t \in Ticket /\ userLock[u] = r
        /\ ticketLock[t] = NULL /\ n \in Nat /\ ticket[t] \in TicketRow
    BY <1>1, AtTicketFacts
  <1>3. CASE ~canFinalize(t)
    BY <1>1, <1>3, Refusal DEF FinalizeCommit
  <1>4. CASE canFinalize(t)
    <2>1. s \in Nat /\ ticket[t].paid - s \in Nat
      BY <1>2 DEF surplusOver, TicketRow
    <2>2. row \in TicketRow /\ row.paid = ticket[t].paid - s
      BY <1>2, <2>1 DEF TicketRow
    <2>3. ticket' = [ticket EXCEPT ![t] = row]
      BY <1>2, <1>4 DEF FinalizeCommit, TypeOK, TicketRow
    <2>4. /\ CreditSurplus(u, t, s) /\ UNCHANGED topup
          /\ req' = [req EXCEPT ![r] = q]
      BY <1>4 DEF FinalizeCommit
    <2>5. /\ q \in RequestRow /\ q.op = "settleTicketsForUser" /\ q.pc = "lockUser"
          /\ q.user = u /\ q.amt = 0 /\ \A x \in Ticket : q.ded[x] = 0
      <3>1. u \in User \cup {NULL}
        BY <1>2
      <3> QED BY <3>1, BlankRow DEF Blank, RequestRow, Endpoint, Pc
    <2>6. req'[r] = q
      BY <1>2, <2>4 DEF TypeOK
    <2> HIDE DEF q
    <2>7. RequestInv(r)'
      BY <1>2, <2>5, <2>6 DEF RequestInv
    <2> HIDE DEF row, u, t, n
    <2> QED BY <1>1, <1>2, <2>2, <2>3, <2>4, <2>5, <2>7, SurplusCommitInv
  <1> QED BY <1>3, <1>4

LEMMA ReconcilePaymentInv ==
    ASSUME IInv, NEW r \in Request, NEW t \in Ticket, NEW a \in Amount,
           ReconcilePayment(r, t, a)
    PROVE  IInv'
  <1> USE LedgerAssumption
  <1> DEFINE q == [Blank EXCEPT !.op = "reconcilePayment", !.pc = "insert",
                                !.ticket = t, !.user = Consumer[t], !.amt = a]
  <1>1. TypeOK /\ UNCHANGED tables /\ ticketLock[t] = NULL
        /\ UNCHANGED <<userLock, topupLock>>
    BY DEF IInv, ReconcilePayment
  <1>2. CASE a > ticket[t].total - ticket[t].paid
    BY <1>1, <1>2, Refusal DEF ReconcilePayment, locks
  <1>3. CASE ~(a > ticket[t].total - ticket[t].paid)
    <2>1. ticketLock' = [ticketLock EXCEPT ![t] = r] /\ req' = [req EXCEPT ![r] = q]
      BY <1>3 DEF ReconcilePayment
    <2>2. /\ a \in Nat /\ a \in Int /\ Consumer[t] \in User
          /\ Consumer[t] \in User \cup {NULL} /\ t \in Ticket \cup {NULL}
          /\ ticket[t].paid \in Nat /\ ticket[t].total \in Nat
      BY <1>1 DEF TypeOK, TicketRow
    <2>3. /\ q \in RequestRow /\ q.op = "reconcilePayment" /\ q.pc = "insert"
          /\ q.ticket = t /\ q.user = Consumer[t] /\ q.amt = a
          /\ \A x \in Ticket : q.ded[x] = 0
      BY <2>2, BlankRow DEF Blank, RequestRow, Endpoint, Pc
    <2>4. KeepsLocks(r)
      BY <1>1, <2>1, LockTaking
    <2>5. req'[r] = q /\ ticketLock'[t] = r /\ ticket[t].paid + a <= ticket[t].total
      BY <1>1, <1>3, <2>1, <2>2 DEF TypeOK
    <2> HIDE DEF q
    <2>6. RequestInv(r)'
      BY <1>1, <2>2, <2>3, <2>5 DEF RequestInv, tables
    <2> QED BY <1>1, <2>1, <2>3, <2>4, <2>6, LocalStep
  <1> QED BY <1>2, <1>3

LEMMA ReconcileCommitInv ==
    ASSUME IInv, NEW r \in Request, ReconcileCommit(r)
    PROVE  IInv'
  <1> DEFINE t == req[r].ticket
             u == req[r].user
             a == req[r].amt
             row == applyPaymentToTicket(ticket[t], a)
             B == [book[t] EXCEPT !.cash = book[t].cash + a]
  <1>1. /\ TypeOK /\ RequestInv(r) /\ req[r].pc = "insert"
        /\ Release(r) /\ Finish(r) /\ UNCHANGED <<balance, topup, ledger>>
    BY DEF IInv, LockDiscipline, ReconcileCommit
  <1>2. u \in User /\ t \in Ticket /\ ticketLock[t] = r /\ a \in Nat /\ userLock[u] = NULL
    BY <1>1 DEF RequestInv, ReconcileCommit
  <1>3. /\ ticket[t] \in TicketRow /\ book[t] \in Book /\ balance[u] \in Nat
        /\ ledger[u] \in Ledger
    BY <1>1, <1>2 DEF TypeOK
  <1>4. /\ book[t].debit \in Nat /\ book[t].cash \in Nat /\ book[t].surplus \in Nat
        /\ ticket[t].paid \in Nat
    BY <1>3 DEF Book, TicketRow
  <1>5. row \in TicketRow /\ row.paid = ticket[t].paid + a
    BY <1>2, <1>3, PaymentRow
  <1>6. /\ B \in Book /\ B.debit = book[t].debit /\ B.cash = book[t].cash + a
        /\ B.surplus = book[t].surplus
    BY <1>2, <1>3, <1>4 DEF Book
  <1>7. ticket' = [ticket EXCEPT ![t] = row] /\ book' = [book EXCEPT ![t] = B]
    BY <1>1, <1>2 DEF ReconcileCommit, TypeOK
  <1>8. row.paid = B.debit + B.cash - B.surplus
    BY <1>2, <1>4, <1>5, <1>6 DEF IInv, BooksBacked
  <1>9. balance' = [balance EXCEPT ![u] = balance[u]]
        /\ ledger' = [ledger EXCEPT ![u] = ledger[u]]
    BY <1>1, <1>2 DEF TypeOK
  <1>10. balance[u] = ledger[u].topup + ledger[u].adjust + ledger[u].surplus
                      - ledger[u].debit
    BY <1>2 DEF IInv, BalanceBacked
  <1> HIDE DEF row, B, u, t
  <1>11. WritesOneTicket(r, Done, u, t, balance[u], row, ledger[u], B)
    BY <1>1, <1>2, <1>3, <1>5, <1>6, <1>7, <1>8, <1>9, <1>10, Finishing
    DEF WritesOneTicket
  <1> QED BY <1>11, WritesOneTicketInv
-----------------------------------------------------------------------------
\* The invariant.

\* Every request that arrives preserves the invariant.
LEMMA CallInv ==
    ASSUME IInv, NEW r \in Request, Call(r)
    PROVE  IInv'
  <1>1. CASE \E w \in Topup, u \in User, a \in Amount : Topup_(r, w, u, a)
    BY <1>1, TopupInv
  <1>2. CASE \E w \in Topup : VerifyTopup(r, w)
    BY <1>2, VerifyTopupInv
  <1>3. CASE \E w \in Topup : RejectTopup(r, w)
    BY <1>3, RejectTopupInv
  <1>4. CASE \E u \in User, a \in Amount : AdjustWallet(r, u, a) \/ AdjustWallet(r, u, -a)
    <2>1. PICK u \in User, a \in Amount : AdjustWallet(r, u, a) \/ AdjustWallet(r, u, -a)
      BY <1>4
    <2>2. a \in Int /\ -a \in Int
      BY LedgerAssumption
    <2>3. CASE AdjustWallet(r, u, a)
      BY <2>2, <2>3, AdjustWalletInv
    <2>4. CASE AdjustWallet(r, u, -a)
      <3> DEFINE b == -a
      <3>1. b \in Int /\ AdjustWallet(r, u, b)
        BY <2>2, <2>4
      <3> HIDE DEF b
      <3> QED BY <3>1, AdjustWalletInv
    <2> QED BY <2>1, <2>3, <2>4
  <1>5. CASE \E u \in User : SettleTicketsForUser(r, u)
    BY <1>5, SettleTicketsForUserInv
  <1>6. CASE \E u \in User, t \in Ticket : PayTicketFromWallet(r, u, t)
    BY <1>6, PayTicketFromWalletInv
  <1>7. CASE \E t \in Ticket, c \in Charges : FinalizeRemainder(r, t, c.total)
    <2>1. PICK t \in Ticket, c \in Charges : FinalizeRemainder(r, t, c.total)
      BY <1>7
    <2> DEFINE n == c.total
    <2>2. n \in Nat /\ FinalizeRemainder(r, t, n)
      BY <2>1, LedgerAssumption DEF Price
    <2> HIDE DEF n
    <2> QED BY <2>2, FinalizeRemainderInv
  <1>8. CASE \E t \in Ticket, c \in Charges : RepriceTicket(r, t, c)
    BY <1>8, RepriceTicketInv
  <1>9. CASE \E t \in Ticket, a \in Amount : ReconcilePayment(r, t, a)
    BY <1>9, ReconcilePaymentInv
  <1>10. CASE \E t \in Ticket, c \in Charges : UpdateCharge(r, t, c)
    BY <1>10, UpdateChargeInv
  <1>11. CASE \E t \in Ticket, s \in Status : UpdateStatus(r, t, s)
    BY <1>11, UpdateStatusInv
  <1>12. CASE \E t \in Ticket : DispatchDelivery(r, t)
    BY <1>12, DispatchDeliveryInv
  <1>13. CASE \E t \in Ticket : BulkArchive(r, t)
    BY <1>13, ArchivingInv
  <1>14. CASE \E t \in Ticket : BulkRestore(r, t)
    BY <1>14, ArchivingInv
  <1> QED
    BY <1>1, <1>2, <1>3, <1>4, <1>5, <1>6, <1>7, <1>8, <1>9, <1>10, <1>11, <1>12,
       <1>13, <1>14 DEF Call

\* Every later step of a request preserves the invariant.
LEMMA StepInv ==
    ASSUME IInv, NEW r \in Request, Step(r)
    PROVE  IInv'
  BY LockUserInv, SettleTicketInv, SettleCommitInv, PayCommitInv, FinalizeCommitInv,
     RepriceCommitInv, ReconcileCommitInv, UpdateChargeWriteInv, UpdateStatusWriteInv
     DEF Step

\* So does every step of the system.
LEMMA NextInv == IInv /\ [Next]_vars => IInv'
  <1> SUFFICES ASSUME IInv, [Next]_vars PROVE IInv'
    OBVIOUS
  <1>1. CASE \E r \in Request : Call(r)
    BY <1>1, CallInv
  <1>2. CASE \E r \in Request : Step(r)
    BY <1>2, StepInv
  <1>3. CASE \E r \in Request : Fail(r)
    BY <1>3, AbortInv DEF Fail
  <1>4. CASE BreakDeadlock
    BY <1>4, AbortInv DEF BreakDeadlock
  <1>5. CASE UNCHANGED vars
    BY <1>5 DEF vars, IInv, TypeOK, TopupsOwned, BalanceBacked, BooksBacked,
                LockDiscipline, RequestInv
  <1> QED BY <1>1, <1>2, <1>3, <1>4, <1>5 DEF Next

\* The inductive invariant holds throughout every execution.
THEOREM LedgerInvariant == Spec => []IInv
  <1> QED BY InitInv, NextInv, PTL DEF Spec

\* Every column and every request's locals keep their type: in particular no
\* wallet balance and no amountPaid ever goes negative, although settlement and
\* refunds write values computed from earlier reads.
THEOREM TypeCorrect == Spec => []TypeOK
  <1>1. IInv => TypeOK
    BY DEF IInv
  <1> QED BY <1>1, LedgerInvariant, PTL

\* Every walletBalance is what its WalletTransaction rows add up to, however
\* verifyTopup, adjustWallet, settlement, payTicketFromWallet, finalization and
\* repricing interleave.
THEOREM BalancesAreBacked == Spec => []BalanceBacked
  <1>1. IInv => BalanceBacked
    BY DEF IInv
  <1> QED BY <1>1, LedgerInvariant, PTL

\* Every amountPaid is what the rows naming its ticket add up to.
THEOREM BooksAreBacked == Spec => []BooksBacked
  <1>1. IInv => BooksBacked
    BY DEF IInv
  <1> QED BY <1>1, LedgerInvariant, PTL

\* What a request read under its locks is still true when it commits.
THEOREM LocksProtectReads == Spec => []LockDiscipline
  <1>1. IInv => LockDiscipline
    BY DEF IInv
  <1> QED BY <1>1, LedgerInvariant, PTL

-----------------------------------------------------------------------------
\* Action properties.

\* Only topup, rejectTopup and the commit of a settlement write top-up rows, and
\* only the commits that pay raise an amountPaid.
LEMMA QuietCalls ==
    ASSUME TypeOK, NEW r \in Request, Call(r)
    PROVE  /\ \/ UNCHANGED topup
              \/ \E w \in Topup, u \in User, a \in Amount : Topup_(r, w, u, a)
              \/ \E w \in Topup : RejectTopup(r, w)
           /\ \A t \in Ticket : /\ ticket'[t].paid = ticket[t].paid
                                 /\ ticket'[t].total = ticket[t].total
                                 /\ ticket'[t].finalized = ticket[t].finalized
  <1>1. CASE \E w \in Topup, u \in User, a \in Amount : Topup_(r, w, u, a)
    BY <1>1 DEF Topup_
  <1>2. CASE \E w \in Topup : VerifyTopup(r, w)
    BY <1>2 DEF VerifyTopup, tables
  <1>3. CASE \E w \in Topup : RejectTopup(r, w)
    BY <1>3 DEF RejectTopup
  <1>4. CASE \E u \in User, a \in Amount : AdjustWallet(r, u, a) \/ AdjustWallet(r, u, -a)
    BY <1>4 DEF AdjustWallet, tables
  <1>5. CASE \E u \in User : SettleTicketsForUser(r, u)
    BY <1>5 DEF SettleTicketsForUser, tables
  <1>6. CASE \E u \in User, t \in Ticket : PayTicketFromWallet(r, u, t)
    BY <1>6 DEF PayTicketFromWallet, tables
  <1>7. CASE \E t \in Ticket, c \in Charges : FinalizeRemainder(r, t, c.total)
    BY <1>7 DEF FinalizeRemainder, tables
  <1>8. CASE \E t \in Ticket, c \in Charges : RepriceTicket(r, t, c)
    BY <1>8 DEF RepriceTicket, tables
  <1>9. CASE \E t \in Ticket, a \in Amount : ReconcilePayment(r, t, a)
    BY <1>9 DEF ReconcilePayment, tables
  <1>10. CASE \E t \in Ticket, c \in Charges : UpdateCharge(r, t, c)
    BY <1>10 DEF UpdateCharge, tables
  <1>11. CASE \E t \in Ticket, s \in Status : UpdateStatus(r, t, s)
    BY <1>11 DEF UpdateStatus, tables
  <1>12. CASE \E t \in Ticket : DispatchDelivery(r, t)
    BY <1>12 DEF DispatchDelivery, TypeOK, TicketRow
  <1>13. CASE \E t \in Ticket : BulkArchive(r, t)
    BY <1>13 DEF BulkArchive, TypeOK, TicketRow
  <1>14. CASE \E t \in Ticket : BulkRestore(r, t)
    BY <1>14 DEF BulkRestore, TypeOK, TicketRow
  <1> QED
    BY <1>1, <1>2, <1>3, <1>4, <1>5, <1>6, <1>7, <1>8, <1>9, <1>10, <1>11, <1>12,
       <1>13, <1>14 DEF Call

\* A step that is not a commit of a settlement leaves the top-up rows alone.
LEMMA QuietSteps ==
    ASSUME NEW r \in Request, Step(r)
    PROVE  UNCHANGED topup \/ SettleCommit(r)
  BY DEF Step, LockUser, SettleTicket, PayCommit, FinalizeCommit, RepriceCommit,
         ReconcileCommit, UpdateChargeWrite, UpdateStatusWrite, tables

\* A decided top-up row is never written again.
LEMMA DecisionStep ==
    ASSUME IInv, [Next]_vars, NEW w \in Topup,
           topup[w].status \in {"VERIFIED", "REJECTED"}
    PROVE  topup'[w] = topup[w]
  <1>1. CASE UNCHANGED topup
    BY <1>1
  <1>2. ASSUME NEW r \in Request, NEW v \in Topup, NEW u \in User, NEW a \in Amount,
               Topup_(r, v, u, a)
        PROVE  topup'[w] = topup[w]
    BY <1>2 DEF Topup_, IInv, TypeOK
  <1>3. ASSUME NEW r \in Request, NEW v \in Topup, RejectTopup(r, v)
        PROVE  topup'[w] = topup[w]
    BY <1>3 DEF RejectTopup, IInv, TypeOK
  <1>4. ASSUME NEW r \in Request, SettleCommit(r)
        PROVE  topup'[w] = topup[w]
    BY <1>4 DEF SettleCommit, IInv, TypeOK, LockDiscipline, RequestInv
  <1>5. ASSUME NEW r \in Request, Abort(r)
        PROVE  UNCHANGED topup
    BY <1>5 DEF Abort, tables
  <1>6. CASE UNCHANGED vars
    BY <1>6 DEF vars
  <1>7. TypeOK
    BY DEF IInv
  <1> QED
    BY <1>1, <1>2, <1>3, <1>4, <1>5, <1>6, <1>7, QuietCalls, QuietSteps
       DEF Next, Fail, BreakDeadlock

\* What a step may do to the money columns of ticket t.
WithinPrice(t) ==
    ticket'[t].paid > ticket[t].paid =>
        \/ ticket'[t].paid <= ticket'[t].total
        \/ /\ t \in Split
           /\ ~ticket'[t].finalized
           /\ ticket'[t].paid <= ticket'[t].service

FinalizesOnce(t) ==
    /\ ticket[t].finalized => ticket'[t].finalized
    /\ ticket'[t].finalized /\ ~ticket[t].finalized
       => ticket'[t].paid <= ticket'[t].total

\* Keeping the money columns of t does neither.
LEMMA ColumnsKept ==
    ASSUME TypeOK, NEW t \in Ticket,
           ticket'[t].paid = ticket[t].paid, ticket'[t].finalized = ticket[t].finalized
    PROVE  WithinPrice(t) /\ FinalizesOnce(t)
  BY DEF WithinPrice, FinalizesOnce, TypeOK, TicketRow

\* A payment of a on row t: what it does to the columns.
LEMMA PaidColumns ==
    ASSUME NEW row \in TicketRow, NEW a \in Nat
    PROVE  /\ applyPaymentToTicket(row, a).paid = row.paid + a
           /\ applyPaymentToTicket(row, a).total = row.total
           /\ applyPaymentToTicket(row, a).service = row.service
           /\ applyPaymentToTicket(row, a).finalized = row.finalized
  BY DEF applyPaymentToTicket, TicketRow

\* A settlement's commit pays what it reserved under the tickets' locks.
LEMMA SettleCommitPays ==
    ASSUME IInv, NEW r \in Request, SettleCommit(r), NEW t \in Ticket
    PROVE  WithinPrice(t) /\ FinalizesOnce(t)
  <1>1. ticket[t] \in TicketRow /\ req[r].ded[t] \in Nat
    BY DEF IInv, TypeOK, RequestRow
  <1>2. CASE req[r].ded[t] > 0
    <2> DEFINE a == req[r].ded[t]
    <2>1. ticket[t].paid + a <= ticket[t].total
      BY <1>2 DEF IInv, LockDiscipline, RequestInv
    <2>2. ticket'[t] = applyPaymentToTicket(ticket[t], a)
      BY <1>2 DEF SettleCommit
    <2>3. a \in Nat
      BY <1>1
    <2> HIDE DEF a
    <2> QED BY <1>1, <2>1, <2>2, <2>3, PaidColumns DEF WithinPrice, FinalizesOnce, TicketRow
  <1>3. CASE ~(req[r].ded[t] > 0)
    <2>1. ticket'[t] = ticket[t]
      BY <1>3 DEF SettleCommit
    <2> QED BY <2>1, ColumnsKept DEF IInv
  <1> QED BY <1>2, <1>3

\* payTicketFromWallet pays at most what is due when it commits.
LEMMA PayCommitPays ==
    ASSUME IInv, NEW r \in Request, PayCommit(r), NEW t \in Ticket
    PROVE  WithinPrice(t) /\ FinalizesOnce(t)
  <1>1. CASE ticket'[t] = ticket[t]
    BY <1>1, ColumnsKept DEF IInv
  <1>2. CASE ticket'[t] # ticket[t]
    <2> DEFINE a == Least(req[r].bal, dueNow(t))
    <2>1. ticket \in [Ticket -> TicketRow] /\ ticket[t] \in TicketRow
          /\ req[r].bal \in Nat /\ dueNow(t) \in Int
      BY DEF IInv, TypeOK, TicketRow, RequestRow, dueNow
    <2>2. /\ req[r].ticket = t
          /\ dueNow(t) > 0 /\ req[r].bal > 0
          /\ ticket'[t] = applyPaymentToTicket(ticket[t], a)
      BY <1>2, <2>1 DEF PayCommit, tables
    <2>3. a \in Nat /\ a <= dueNow(t)
      BY <2>1, <2>2 DEF Least
    <2>4. \/ ticket[t].paid + a <= ticket[t].total
          \/ /\ t \in Split /\ ~ticket[t].finalized
             /\ ticket[t].paid + a <= ticket[t].service
      <3> HIDE DEF a
      <3> QED BY <2>1, <2>3 DEF dueNow, TicketRow
    <2> HIDE DEF a
    <2> QED BY <2>1, <2>2, <2>3, <2>4, PaidColumns DEF WithinPrice, FinalizesOnce, TicketRow
  <1> QED BY <1>1, <1>2

\* A reconciled payment was checked under the ticket's lock.
LEMMA ReconcileCommitPays ==
    ASSUME IInv, NEW r \in Request, ReconcileCommit(r), NEW t \in Ticket
    PROVE  WithinPrice(t) /\ FinalizesOnce(t)
  <1>1. CASE ticket'[t] = ticket[t]
    BY <1>1, ColumnsKept DEF IInv
  <1>2. CASE ticket'[t] # ticket[t]
    <2> DEFINE a == req[r].amt
    <2>1. ticket \in [Ticket -> TicketRow] /\ ticket[t] \in TicketRow
      BY DEF IInv, TypeOK
    <2>2. /\ req[r].ticket = t
          /\ ticket'[t] = applyPaymentToTicket(ticket[t], a)
      BY <1>2, <2>1 DEF ReconcileCommit
    <2>3. a \in Nat /\ ticket[t].paid + a <= ticket[t].total
      BY <2>2 DEF ReconcileCommit, IInv, LockDiscipline, RequestInv
    <2> HIDE DEF a
    <2> QED BY <2>1, <2>2, <2>3, PaidColumns DEF WithinPrice, FinalizesOnce, TicketRow
  <1> QED BY <1>1, <1>2

\* Finalizing and repricing only take money off a ticket.
LEMMA RefundsPay ==
    ASSUME IInv, NEW r \in Request, FinalizeCommit(r) \/ RepriceCommit(r), NEW t \in Ticket
    PROVE  WithinPrice(t) /\ FinalizesOnce(t)
  <1>1. CASE ticket'[t] = ticket[t]
    BY <1>1, ColumnsKept DEF IInv
  <1>2. CASE ticket'[t] # ticket[t]
    <2> DEFINE n == req[r].price.total
               s == surplusOver(t, n)
    <2>1. /\ ticket \in [Ticket -> TicketRow] /\ ticket[t].paid \in Nat
          /\ ticket[t].total \in Nat /\ ticket[t].finalized \in BOOLEAN /\ n \in Nat
      BY DEF IInv, TypeOK, TicketRow, RequestRow, Price
    <2>2. ticket' # ticket /\ req[r].ticket = t
      BY <1>2, <2>1 DEF FinalizeCommit, RepriceCommit, tables
    <2>3. /\ ticket'[t].paid = ticket[t].paid - s
          /\ ticket'[t].total = n
          /\ ticket'[t].finalized \in {TRUE, ticket[t].finalized}
      <3>1. CASE FinalizeCommit(r)
        <4>1. ticket' = [ticket EXCEPT ![t].total = n, ![t].paid = ticket[t].paid - s,
                                       ![t].finalized = TRUE]
          BY <2>2, <3>1 DEF FinalizeCommit, tables
        <4> HIDE DEF s, n
        <4> QED BY <2>1, <4>1 DEF TicketRow
      <3>2. CASE RepriceCommit(r)
        <4>1. ticket' = [ticket EXCEPT ![t].service = req[r].price.service,
                                       ![t].total = n, ![t].paid = ticket[t].paid - s]
          BY <2>2, <3>2 DEF RepriceCommit
        <4> HIDE DEF s, n
        <4> QED BY <2>1, <4>1 DEF TicketRow
      <3> QED BY <3>1, <3>2
    <2>4. s \in Nat /\ ticket[t].paid - s <= n
      BY <2>1 DEF surplusOver
    <2> HIDE DEF s, n
    <2> QED BY <2>1, <2>3, <2>4 DEF WithinPrice, FinalizesOnce
  <1> QED BY <1>1, <1>2

\* Every step of the system respects both.
LEMMA MoneyStep ==
    ASSUME IInv, [Next]_vars, NEW t \in Ticket
    PROVE  WithinPrice(t) /\ FinalizesOnce(t)
  <1>1. TypeOK
    BY DEF IInv
  <1>2. CASE UNCHANGED ticket
    BY <1>1, <1>2, ColumnsKept
  <1>3. ASSUME NEW r \in Request, Call(r)
        PROVE  WithinPrice(t) /\ FinalizesOnce(t)
    BY <1>1, <1>3, QuietCalls, ColumnsKept
  <1>4. ASSUME NEW r \in Request, Step(r)
        PROVE  WithinPrice(t) /\ FinalizesOnce(t)
    <2>1. CASE LockUser(r) \/ SettleTicket(r)
      BY <1>1, <2>1, ColumnsKept DEF LockUser, SettleTicket, tables
    <2>2. CASE UpdateChargeWrite(r)
      <3>1. ticket'[t].paid = ticket[t].paid /\ ticket'[t].finalized = ticket[t].finalized
        BY <1>1, <2>2 DEF UpdateChargeWrite, TypeOK, TicketRow
      <3> QED BY <1>1, <3>1, ColumnsKept
    <2>3. CASE UpdateStatusWrite(r)
      <3>1. ticket'[t].paid = ticket[t].paid /\ ticket'[t].finalized = ticket[t].finalized
        BY <1>1, <2>3 DEF UpdateStatusWrite, TypeOK, TicketRow
      <3> QED BY <1>1, <3>1, ColumnsKept
    <2> QED BY <1>4, <2>1, <2>2, <2>3, SettleCommitPays, PayCommitPays, ReconcileCommitPays,
               RefundsPay DEF Step
  <1>5. ASSUME NEW r \in Request, Abort(r)
        PROVE  UNCHANGED ticket
    BY <1>5 DEF Abort, tables
  <1>6. CASE UNCHANGED vars
    BY <1>2, <1>6 DEF vars
  <1> QED BY <1>2, <1>3, <1>4, <1>5, <1>6 DEF Next, Fail, BreakDeadlock

\* Concurrent settlements, wallet payments and reconciled payments never pay a
\* ticket beyond the price in force when they commit.
THEOREM PaymentsStayWithinPrice == Spec => NoOverpayment
  <1>1. IInv /\ [Next]_vars =>
          [\A t \in Ticket :
             ticket'[t].paid > ticket[t].paid =>
                \/ ticket'[t].paid <= ticket'[t].total
                \/ /\ t \in Split
                   /\ ~ticket'[t].finalized
                   /\ ticket'[t].paid <= ticket'[t].service]_vars
    BY MoneyStep DEF WithinPrice
  <1> QED BY <1>1, LedgerInvariant, PTL DEF Spec, NoOverpayment

\* A remainder is finalized at most once, and the surplus leaves with it.
THEOREM RemainderFinalizedOnce == Spec => FinalizedOnce
  <1>1. IInv /\ [Next]_vars =>
          [\A t \in Ticket :
             /\ ticket[t].finalized => ticket'[t].finalized
             /\ ticket'[t].finalized /\ ~ticket[t].finalized
                => ticket'[t].paid <= ticket'[t].total]_vars
    BY MoneyStep DEF FinalizesOnce
  <1> QED BY <1>1, LedgerInvariant, PTL DEF Spec, FinalizedOnce


-----------------------------------------------------------------------------
\* Sums over the rows of a wallet.

Mine(u) == {t \in Ticket : Consumer[t] = u}

PaidIn(u) == {w \in Topup : topup[w].user = u /\ topup[w].status = "VERIFIED"}

\* Columns of the tables, as functions to sum.
Paid == [t \in Ticket |-> ticket[t].paid]
Debits == [t \in Ticket |-> book[t].debit]
Cash == [t \in Ticket |-> book[t].cash]
Surpluses == [t \in Ticket |-> book[t].surplus]
Amounts == [w \in Topup |-> topup[w].amount]

\* The two sets of rows agree.
RowsAgree ==
    \A u \in User :
        /\ ledger[u].topup = SumFunctionOnSet(Amounts, PaidIn(u))
        /\ ledger[u].debit = SumFunctionOnSet(Debits, Mine(u))
        /\ ledger[u].surplus = SumFunctionOnSet(Surpluses, Mine(u))

\* What a request counts up while it settles, and whose tickets it touches.
Tally(q) ==
    /\ q.spent = SumFunctionOnSet(q.ded, Ticket)
    /\ \A t \in Ticket : q.ded[t] > 0 => Consumer[t] = q.user
    /\ \A t \in q.cand : Consumer[t] = q.user /\ q.ded[t] = 0
    /\ q.op \in {"finalizeRemainder", "repriceTicket"} => q.user = Consumer[q.ticket]

\* A request verifies the top-up of the user it has locked.
VerifiesOwn(r) == req[r].op = "verifyTopup" => req[r].user = topup[req[r].topup].user

\* The inductive invariant, on top of IInv.
CInv ==
    /\ RowsAgree
    /\ \A r \in Request : Tally(req[r]) /\ VerifiesOwn(r)

-----------------------------------------------------------------------------
\* Types of the columns.
LEMMA Columns ==
    ASSUME TypeOK
    PROVE  /\ \A t \in Ticket : /\ Paid[t] = ticket[t].paid /\ Paid[t] \in Nat
                                /\ Debits[t] = book[t].debit /\ Debits[t] \in Nat
                                /\ Cash[t] = book[t].cash /\ Cash[t] \in Nat
                                /\ Surpluses[t] = book[t].surplus /\ Surpluses[t] \in Nat
           /\ \A w \in Topup : Amounts[w] = topup[w].amount /\ Amounts[w] \in Nat
           /\ \A u \in User : /\ ledger[u].topup \in Nat /\ ledger[u].adjust \in Int
                              /\ ledger[u].debit \in Nat /\ ledger[u].surplus \in Nat
  BY DEF TypeOK, TicketRow, Book, TopupRow, Ledger, Paid, Debits, Cash, Surpluses, Amounts

LEMMA FiniteGroups ==
    \A u : /\ IsFiniteSet(Mine(u)) /\ Mine(u) \in SUBSET Ticket
           /\ IsFiniteSet(PaidIn(u)) /\ PaidIn(u) \in SUBSET Topup
  <1>1. IsFiniteSet(Ticket) /\ IsFiniteSet(Topup)
    BY LedgerAssumption
  <1>2. \A u : Mine(u) \in SUBSET Ticket /\ PaidIn(u) \in SUBSET Topup
    BY DEF Mine, PaidIn
  <1> QED BY <1>1, <1>2, FS_Subset

\* A request that has debited nothing yet.
LEMMA FreshTally ==
    ASSUME NEW q, q.spent = 0, \A t \in Ticket : q.ded[t] = 0,
           \A t \in q.cand : t \in Ticket /\ Consumer[t] = q.user,
           q.op \in {"finalizeRemainder", "repriceTicket"} => q.user = Consumer[q.ticket]
    PROVE  Tally(q)
  <1>1. SumFunctionOnSet(q.ded, Ticket) = 0
    BY LedgerAssumption, SumZero
  <1> QED BY <1>1 DEF Tally

LEMMA DoneTally == Tally(Done) /\ Tally(Blank) /\ Done.op = "none" /\ Blank.op = "none"
  <1>1. \A q \in {Done, Blank} : /\ q.spent = 0 /\ \A t \in Ticket : q.ded[t] = 0
                                 /\ q.cand = {} /\ q.op = "none"
    BY DEF Done, Blank
  <1> QED BY <1>1, FreshTally

\* One request moves on; the top-ups that others are verifying keep their owner.
LEMMA TalliesKept ==
    ASSUME IInv, CInv, NEW r \in Request, NEW q,
           req' = [req EXCEPT ![r] = q], Tally(q),
           q.op = "verifyTopup" => q.user = topup'[q.topup].user,
           \A o \in Request : o # r /\ req[o].op = "verifyTopup" =>
               topup'[req[o].topup].user = topup[req[o].topup].user
    PROVE  \A o \in Request : Tally(req[o])' /\ VerifiesOwn(o)'
  <1> SUFFICES ASSUME NEW o \in Request
               PROVE  Tally(req'[o]) /\ VerifiesOwn(o)'
    BY DEF Tally
  <1>1. req'[r] = q /\ \A x \in Request \ {r} : req'[x] = req[x]
    BY DEF IInv, TypeOK
  <1>2. CASE o = r
    BY <1>1, <1>2 DEF VerifiesOwn
  <1>3. CASE o # r
    <2>1. req'[o] = req[o] /\ Tally(req[o]) /\ VerifiesOwn(o)
      BY <1>1, <1>3 DEF CInv
    <2> QED BY <1>3, <2>1 DEF VerifiesOwn
  <1> QED BY <1>2, <1>3

\* Steps that leave the rows alone.
LEMMA RowsKept ==
    ASSUME RowsAgree, UNCHANGED <<topup, ledger, book>>
    PROVE  RowsAgree'
  <1>1. Debits' = Debits /\ Surpluses' = Surpluses /\ Amounts' = Amounts
    BY DEF Debits, Surpluses, Amounts
  <1>2. \A u \in User : PaidIn(u)' = PaidIn(u) /\ Mine(u)' = Mine(u)
    BY DEF PaidIn, Mine
  <1>3. ledger' = ledger
    OBVIOUS
  <1> QED BY <1>1, <1>2, <1>3, Zenon DEF RowsAgree

LEMMA LocalTally ==
    ASSUME IInv, CInv, NEW r \in Request, NEW q,
           req' = [req EXCEPT ![r] = q], Tally(q),
           q.op = "verifyTopup" => q.user = topup[q.topup].user,
           UNCHANGED <<topup, ledger, book>>
    PROVE  CInv'
  <1>1. topup' = topup
    OBVIOUS
  <1>2. \A o \in Request : Tally(req[o])' /\ VerifiesOwn(o)'
    BY <1>1, TalliesKept
  <1>3. RowsAgree'
    BY RowsKept DEF CInv
  <1> QED BY <1>2, <1>3 DEF CInv

\* A request that ends without touching the rows.
LEMMA Ends ==
    ASSUME IInv, CInv, NEW r \in Request, Finish(r), UNCHANGED <<topup, ledger, book>>
    PROVE  CInv'
  BY LocalTally, DoneTally DEF Finish

-----------------------------------------------------------------------------
LEMMA ConservationInit == Init => CInv
  <1> SUFFICES ASSUME Init PROVE CInv
    OBVIOUS
  <1>1. RowsAgree
    <2> SUFFICES ASSUME NEW u \in User
                 PROVE  /\ ledger[u].topup = SumFunctionOnSet(Amounts, PaidIn(u))
                        /\ ledger[u].debit = SumFunctionOnSet(Debits, Mine(u))
                        /\ ledger[u].surplus = SumFunctionOnSet(Surpluses, Mine(u))
      BY DEF RowsAgree
    <2>1. ledger[u].topup = 0 /\ ledger[u].debit = 0 /\ ledger[u].surplus = 0
      BY DEF Init
    <2>2. PaidIn(u) = {}
      BY DEF Init, PaidIn
    <2>3. \A t \in Mine(u) : Debits[t] = 0 /\ Surpluses[t] = 0
      BY DEF Init, Mine, Debits, Surpluses
    <2>4. /\ SumFunctionOnSet(Debits, Mine(u)) = 0
          /\ SumFunctionOnSet(Surpluses, Mine(u)) = 0
      BY <2>3, FiniteGroups, SumZero
    <2>5. SumFunctionOnSet(Amounts, PaidIn(u)) = 0
      BY <2>2, SumEmpty
    <2> QED BY <2>1, <2>4, <2>5
  <1>2. \A r \in Request : req[r] = Blank
    BY DEF Init
  <1>3. \A r \in Request : Tally(req[r]) /\ VerifiesOwn(r)
    BY <1>2, DoneTally DEF VerifiesOwn
  <1> QED BY <1>1, <1>3 DEF CInv

\* topup and rejectTopup write a row that is not verified before or after.
LEMMA UndecidedRow ==
    ASSUME IInv, CInv, NEW r \in Request, NEW w \in Topup, NEW row,
           topup' = [topup EXCEPT ![w] = row],
           topup[w].status # "VERIFIED", row.status # "VERIFIED",
           row.user = topup[w].user \/ topup[w].status = "NONE",
           Finish(r), UNCHANGED <<ledger, book>>
    PROVE  CInv'
  <1>1. TypeOK /\ topup'[w] = row /\ \A x \in Topup \ {w} : topup'[x] = topup[x]
    BY DEF IInv, TypeOK
  <1>2. \A u \in User : PaidIn(u)' = PaidIn(u)
    BY <1>1 DEF PaidIn
  <1>3. \A u \in User : SumFunctionOnSet(Amounts, PaidIn(u))' = SumFunctionOnSet(Amounts, PaidIn(u))
    <2> SUFFICES ASSUME NEW u \in User
                 PROVE  SumFunctionOnSet(Amounts', PaidIn(u)) = SumFunctionOnSet(Amounts, PaidIn(u))
      BY <1>2
    <2>1. \A x \in PaidIn(u) : Amounts[x] \in Int /\ Amounts'[x] = Amounts[x]
      BY <1>1, Columns DEF PaidIn, Amounts
    <2> QED BY <2>1, FiniteGroups, SumSame
  <1>4. Debits' = Debits /\ Surpluses' = Surpluses /\ ledger' = ledger
    BY DEF Debits, Surpluses
  <1>5. RowsAgree'
    <2>1. \A u \in User : Mine(u)' = Mine(u)
      BY DEF Mine
    <2> QED BY <1>3, <1>4, <2>1, Zenon DEF CInv, RowsAgree
  <1>6. \A o \in Request : req[o].op = "verifyTopup" =>
            topup'[req[o].topup].user = topup[req[o].topup].user
    <2> SUFFICES ASSUME NEW o \in Request, req[o].op = "verifyTopup"
                 PROVE  topup'[req[o].topup].user = topup[req[o].topup].user
      OBVIOUS
    <2>1. /\ req[o].topup \in Topup
          /\ topup[req[o].topup].status = "PENDING_VERIFICATION"
      BY DEF IInv, LockDiscipline, RequestInv
    <2> QED BY <1>1, <2>1
  <1>7. \A o \in Request : Tally(req[o])' /\ VerifiesOwn(o)'
    BY <1>6, TalliesKept, DoneTally DEF Finish
  <1> QED BY <1>5, <1>7 DEF CInv

LEMMA TopupTally ==
    ASSUME IInv, CInv, NEW r \in Request, NEW w \in Topup, NEW u \in User, NEW a \in Amount,
           Topup_(r, w, u, a)
    PROVE  CInv'
  <1> DEFINE row == [user |-> u, amount |-> a, status |-> "PENDING_VERIFICATION"]
  <1>1. /\ topup' = [topup EXCEPT ![w] = row] /\ topup[w].status = "NONE"
        /\ Finish(r) /\ ledger' = ledger /\ book' = book
    BY DEF Topup_
  <1>2. row.status = "PENDING_VERIFICATION"
    OBVIOUS
  <1> HIDE DEF row
  <1> QED BY <1>1, <1>2, UndecidedRow

LEMMA RejectTopupTally ==
    ASSUME IInv, CInv, NEW r \in Request, NEW w \in Topup, RejectTopup(r, w)
    PROVE  CInv'
  <1>1. Finish(r) /\ ledger' = ledger /\ book' = book
    BY DEF RejectTopup
  <1>2. CASE topup[w].status = "PENDING_VERIFICATION"
    <2> DEFINE row == [topup[w] EXCEPT !.status = "REJECTED"]
    <2>1. topup' = [topup EXCEPT ![w] = row] /\ topup[w] \in TopupRow
      BY <1>2 DEF RejectTopup, IInv, TypeOK
    <2>2. row.user = topup[w].user /\ row.status = "REJECTED"
      BY <2>1 DEF TopupRow
    <2> HIDE DEF row
    <2> QED BY <1>1, <1>2, <2>1, <2>2, UndecidedRow
  <1>3. CASE topup[w].status # "PENDING_VERIFICATION"
    BY <1>1, <1>3, Ends DEF RejectTopup
  <1> QED BY <1>2, <1>3

-----------------------------------------------------------------------------
\* The calls that only start something.
LEMMA StartTally ==
    ASSUME IInv, CInv, NEW r \in Request, NEW q, req' = [req EXCEPT ![r] = q],
           q.spent = 0, q.ded = Blank.ded, q.cand \in SUBSET Ticket,
           \A t \in q.cand : Consumer[t] = q.user,
           q.op \in {"finalizeRemainder", "repriceTicket"} => q.user = Consumer[q.ticket],
           q.op = "verifyTopup" => q.user = topup[q.topup].user,
           UNCHANGED <<topup, ledger, book>>
    PROVE  CInv'
  <1>1. \A t \in Ticket : q.ded[t] = 0
    BY DEF Blank
  <1>2. Tally(q)
    BY <1>1, FreshTally
  <1> QED BY <1>2, LocalTally

LEMMA VerifyTopupTally ==
    ASSUME IInv, CInv, NEW r \in Request, NEW w \in Topup, VerifyTopup(r, w)
    PROVE  CInv'
  <1>1. topup' = topup /\ ledger' = ledger /\ book' = book
    BY DEF VerifyTopup, tables
  <1>2. CASE topup[w].status = "PENDING_VERIFICATION"
    <2> DEFINE q == [Blank EXCEPT !.op = "verifyTopup", !.pc = "lockUser",
                                  !.topup = w, !.user = topup[w].user,
                                  !.amt = topup[w].amount]
    <2>1. req' = [req EXCEPT ![r] = q]
      BY <1>2 DEF VerifyTopup
    <2>2. /\ q.spent = 0 /\ q.ded = Blank.ded /\ q.cand = {} /\ q.op = "verifyTopup"
          /\ q.topup = w /\ q.user = topup[w].user
      BY DEF Blank
    <2> HIDE DEF q
    <2> QED BY <1>1, <2>1, <2>2, StartTally
  <1>3. CASE topup[w].status # "PENDING_VERIFICATION"
    BY <1>1, <1>3, Ends DEF VerifyTopup
  <1> QED BY <1>2, <1>3

\* The settlement of u's wallet, with u's candidates.
LEMMA SettlingTally ==
    ASSUME IInv, CInv, NEW r \in Request, NEW e, NEW u \in User, NEW credit, NEW cands,
           cands \in {{}, candidateIds(u)},
           e \in {"adjustWallet", "settleTicketsForUser", "verifyTopup"},
           e = "verifyTopup" => u = topup[req[r].topup].user,
           req' = [req EXCEPT ![r] = Settling(r, e, u, credit, cands)],
           UNCHANGED tables
    PROVE  CInv'
  <1> DEFINE q == Settling(r, e, u, credit, cands)
  <1>1. /\ q.spent = 0 /\ q.ded = Blank.ded /\ q.cand = cands /\ q.op = e
        /\ q.topup = req[r].topup /\ q.user = u
    BY DEF Settling, Blank
  <1>2. cands \in SUBSET Ticket /\ \A t \in cands : Consumer[t] = u
    BY DEF candidateIds
  <1>3. topup' = topup /\ ledger' = ledger /\ book' = book
    BY DEF tables
  <1> HIDE DEF q
  <1>4. req' = [req EXCEPT ![r] = q]
    BY DEF q
  <1> QED BY <1>1, <1>2, <1>3, <1>4, StartTally

LEMMA AdjustWalletTally ==
    ASSUME IInv, CInv, NEW r \in Request, NEW u \in User, NEW a \in Int,
           AdjustWallet(r, u, a)
    PROVE  CInv'
  <1>1. CASE balance[u] + a < 0
    BY <1>1, Ends DEF AdjustWallet, tables
  <1>2. CASE ~(balance[u] + a < 0)
    <2>1. /\ req' = [req EXCEPT ![r] = Settling(r, "adjustWallet", u, a,
                                                IF a > 0 THEN candidateIds(u) ELSE {})]
          /\ UNCHANGED tables
      BY <1>2 DEF AdjustWallet
    <2>2. (IF a > 0 THEN candidateIds(u) ELSE {}) \in {{}, candidateIds(u)}
      OBVIOUS
    <2> QED BY <2>1, <2>2, SettlingTally
  <1> QED BY <1>1, <1>2

LEMMA SettleTicketsForUserTally ==
    ASSUME IInv, CInv, NEW r \in Request, NEW u \in User, SettleTicketsForUser(r, u)
    PROVE  CInv'
  BY SettlingTally DEF SettleTicketsForUser

LEMMA LockUserTally ==
    ASSUME IInv, CInv, NEW r \in Request, LockUser(r)
    PROVE  CInv'
  <1> DEFINE q == req[r]
  <1>1. /\ q.pc = "lockUser" /\ UNCHANGED tables /\ q \in RequestRow
        /\ RequestInv(r) /\ Tally(q) /\ VerifiesOwn(r)
    BY DEF LockUser, IInv, LockDiscipline, CInv, TypeOK
  <1>2. /\ q.op \in {"verifyTopup", "settleTicketsForUser", "repriceTicket"}
        /\ q.user \in User
    BY <1>1 DEF RequestInv
  <1>3. CASE q.op = "repriceTicket"
    <2> DEFINE n == [q EXCEPT !.pc = "lockTicket"]
    <2>1. req' = [req EXCEPT ![r] = n] /\ topup' = topup /\ ledger' = ledger /\ book' = book
      BY <1>1, <1>3 DEF LockUser, tables
    <2>2. /\ n.op = q.op /\ n.spent = q.spent /\ n.ded = q.ded /\ n.cand = q.cand
          /\ n.user = q.user /\ n.ticket = q.ticket
      BY <1>1 DEF RequestRow
    <2>3. Tally(n)
      <3> HIDE DEF n, q
      <3> QED BY <1>1, <2>2 DEF Tally
    <2> HIDE DEF n
    <2> QED BY <1>3, <2>1, <2>2, <2>3, LocalTally
  <1>4. CASE q.op # "repriceTicket"
    <2>1. req' = [req EXCEPT ![r] = Settling(r, q.op, q.user, q.amt, candidateIds(q.user))]
      BY <1>4 DEF LockUser
    <2>2. /\ q.op \in {"adjustWallet", "settleTicketsForUser", "verifyTopup"}
          /\ q.op = "verifyTopup" => q.user = topup[q.topup].user
      BY <1>1, <1>2, <1>4 DEF VerifiesOwn
    <2> HIDE DEF q
    <2>3. UNCHANGED tables /\ q.user \in User
      BY <1>1, <1>2
    <2> QED BY <2>1, <2>2, <2>3, SettlingTally DEF q
  <1> QED BY <1>3, <1>4

\* One round of the loop: the debit of the ticket visited joins the sum.
LEMMA SettleTicketTally ==
    ASSUME IInv, CInv, NEW r \in Request, SettleTicket(r)
    PROVE  CInv'
  <1> DEFINE q == req[r]
  <1>1. q \in RequestRow /\ TypeOK /\ Tally(q) /\ VerifiesOwn(r) /\ UNCHANGED tables
    BY DEF IInv, TypeOK, CInv, SettleTicket
  <1>2. PICK t \in q.cand :
          req' = [req EXCEPT ![r] =
                  [q EXCEPT !.cand = q.cand \ {t},
                            !.bal = q.bal - Least(q.bal, settleRemaining(t)),
                            !.spent = q.spent + Least(q.bal, settleRemaining(t)),
                            !.ded = [q.ded EXCEPT ![t] = Least(q.bal, settleRemaining(t))]]]
    BY DEF SettleTicket
  <1> DEFINE d == Least(q.bal, settleRemaining(t))
             n == [q EXCEPT !.cand = q.cand \ {t}, !.bal = q.bal - d,
                            !.spent = q.spent + d, !.ded = [q.ded EXCEPT ![t] = d]]
  <1>3. /\ q.bal \in Nat /\ q.spent \in Nat /\ q.cand \in SUBSET Ticket /\ t \in Ticket
        /\ q.ded \in [Ticket -> Nat] /\ ticket[t] \in TicketRow
    BY <1>1, <1>2 DEF RequestRow, TypeOK
  <1>4. d \in Nat
    BY <1>3 DEF Least, settleRemaining, TicketRow
  <1>5. /\ n.cand = q.cand \ {t} /\ n.spent = q.spent + d /\ n.ded = [q.ded EXCEPT ![t] = d]
        /\ n.op = q.op /\ n.user = q.user /\ n.ticket = q.ticket /\ n.topup = q.topup
    <2> HIDE DEF d
    <2> QED BY <1>1 DEF RequestRow
  <1>6. req' = [req EXCEPT ![r] = n]
    BY <1>2
  <1> HIDE DEF d, n, q
  <1>7. q.ded[t] = 0 /\ Consumer[t] = q.user /\ q.spent = SumFunctionOnSet(q.ded, Ticket)
    BY <1>1, <1>2 DEF Tally
  <1>8. SumFunctionOnSet(n.ded, Ticket) = q.spent + d
    <2>1. /\ \A y \in Ticket : q.ded[y] \in Int /\ n.ded[y] \in Int
          /\ \A y \in Ticket \ {t} : n.ded[y] = q.ded[y]
          /\ n.ded[t] = d
      BY <1>3, <1>4, <1>5
    <2>2. IsFiniteSet(Ticket)
      BY LedgerAssumption
    <2>3. SumFunctionOnSet(n.ded, Ticket) = SumFunctionOnSet(q.ded, Ticket) + n.ded[t] - q.ded[t]
      BY <1>3, <2>1, <2>2, SumChange
    <2> QED BY <1>3, <1>4, <1>7, <2>1, <2>3
  <1>9. Tally(n)
    BY <1>1, <1>2, <1>3, <1>4, <1>5, <1>7, <1>8 DEF Tally
  <1>10. topup' = topup /\ ledger' = ledger /\ book' = book
    BY <1>1 DEF tables
  <1>11. n.op = "verifyTopup" => n.user = topup[n.topup].user
    BY <1>1, <1>5 DEF VerifiesOwn, q
  <1> QED BY <1>6, <1>9, <1>10, <1>11, LocalTally

\* The calls that read and go on to lock or write one ticket.
LEMMA OneTicketCallsTally ==
    ASSUME IInv, CInv, NEW r \in Request,
           \/ \E u \in User, t \in Ticket : PayTicketFromWallet(r, u, t)
           \/ \E t \in Ticket, c \in Charges : FinalizeRemainder(r, t, c.total)
           \/ \E t \in Ticket, c \in Charges : RepriceTicket(r, t, c)
           \/ \E t \in Ticket, a \in Amount : ReconcilePayment(r, t, a)
           \/ \E t \in Ticket, c \in Charges : UpdateCharge(r, t, c)
           \/ \E t \in Ticket, s \in Status : UpdateStatus(r, t, s)
    PROVE  CInv'
  <1>1. topup' = topup /\ ledger' = ledger /\ book' = book
    BY DEF PayTicketFromWallet, FinalizeRemainder, RepriceTicket, ReconcilePayment,
           UpdateCharge, UpdateStatus, tables
  <1>2. ASSUME NEW u \in User, NEW t \in Ticket, PayTicketFromWallet(r, u, t)
        PROVE  CInv'
    <2> DEFINE q == [Blank EXCEPT !.op = "payTicketFromWallet", !.pc = "lockTicket",
                                  !.user = u, !.ticket = t, !.bal = balance[u]]
    <2>1. req' = [req EXCEPT ![r] = q]
      BY <1>2 DEF PayTicketFromWallet
    <2>2. /\ q.spent = 0 /\ q.ded = Blank.ded /\ q.cand = {}
          /\ q.op = "payTicketFromWallet"
      BY DEF Blank
    <2> HIDE DEF q
    <2> QED BY <1>1, <2>1, <2>2, StartTally
  <1>3. ASSUME NEW t \in Ticket, NEW c \in Charges, FinalizeRemainder(r, t, c.total)
        PROVE  CInv'
    <2> DEFINE q == [Blank EXCEPT !.op = "finalizeRemainder", !.pc = "lockTicket",
                                  !.user = Consumer[t], !.ticket = t,
                                  !.price = [service |-> 0, total |-> c.total]]
    <2>1. req' = [req EXCEPT ![r] = q]
      BY <1>3 DEF FinalizeRemainder
    <2>2. /\ q.spent = 0 /\ q.ded = Blank.ded /\ q.cand = {} /\ q.op = "finalizeRemainder"
          /\ q.user = Consumer[t] /\ q.ticket = t
      BY DEF Blank
    <2> HIDE DEF q
    <2> QED BY <1>1, <2>1, <2>2, StartTally
  <1>4. ASSUME NEW t \in Ticket, NEW c \in Charges, RepriceTicket(r, t, c)
        PROVE  CInv'
    <2> DEFINE q == [Blank EXCEPT !.op = "repriceTicket", !.pc = "lockUser",
                                  !.user = Consumer[t], !.ticket = t, !.price = c]
    <2>1. Finish(r) \/ req' = [req EXCEPT ![r] = q]
      BY <1>4 DEF RepriceTicket, Finish
    <2>2. /\ q.spent = 0 /\ q.ded = Blank.ded /\ q.cand = {} /\ q.op = "repriceTicket"
          /\ q.user = Consumer[t] /\ q.ticket = t
      BY DEF Blank
    <2> HIDE DEF q
    <2> QED BY <1>1, <2>1, <2>2, StartTally, Ends
  <1>5. ASSUME NEW t \in Ticket, NEW a \in Amount, ReconcilePayment(r, t, a)
        PROVE  CInv'
    <2> DEFINE q == [Blank EXCEPT !.op = "reconcilePayment", !.pc = "insert",
                                  !.ticket = t, !.user = Consumer[t], !.amt = a]
    <2>1. Finish(r) \/ req' = [req EXCEPT ![r] = q]
      BY <1>5 DEF ReconcilePayment
    <2>2. /\ q.spent = 0 /\ q.ded = Blank.ded /\ q.cand = {} /\ q.op = "reconcilePayment"
      BY DEF Blank
    <2> HIDE DEF q
    <2> QED BY <1>1, <2>1, <2>2, StartTally, Ends
  <1>6. ASSUME NEW t \in Ticket, NEW c \in Charges, UpdateCharge(r, t, c)
        PROVE  CInv'
    <2> DEFINE q == [Blank EXCEPT !.op = "updateCharge", !.pc = "write",
                                  !.ticket = t, !.price = c]
    <2>1. Finish(r) \/ req' = [req EXCEPT ![r] = q]
      BY <1>6 DEF UpdateCharge, Finish
    <2>2. /\ q.spent = 0 /\ q.ded = Blank.ded /\ q.cand = {} /\ q.op = "updateCharge"
      BY DEF Blank
    <2> HIDE DEF q
    <2> QED BY <1>1, <2>1, <2>2, StartTally, Ends
  <1>7. ASSUME NEW t \in Ticket, NEW s \in Status, UpdateStatus(r, t, s)
        PROVE  CInv'
    <2> DEFINE q == [Blank EXCEPT !.op = "updateStatus", !.pc = "write", !.ticket = t,
                                  !.seen = ticket[t].status, !.next = s]
    <2>1. Finish(r) \/ req' = [req EXCEPT ![r] = q]
      BY <1>7 DEF UpdateStatus, Finish
    <2>2. /\ q.spent = 0 /\ q.ded = Blank.ded /\ q.cand = {} /\ q.op = "updateStatus"
      BY DEF Blank
    <2> HIDE DEF q
    <2> QED BY <1>1, <2>1, <2>2, StartTally, Ends
  <1> QED BY <1>2, <1>3, <1>4, <1>5, <1>6, <1>7

LEMMA CallTally ==
    ASSUME IInv, CInv, NEW r \in Request, Call(r)
    PROVE  CInv'
  <1>1. CASE \E t \in Ticket : \/ DispatchDelivery(r, t) \/ BulkArchive(r, t)
                               \/ BulkRestore(r, t)
    <2>1. Finish(r) /\ topup' = topup /\ ledger' = ledger /\ book' = book
      BY <1>1 DEF DispatchDelivery, BulkArchive, BulkRestore
    <2> QED BY <2>1, Ends
  <1>2. \A a \in Amount : a \in Int /\ -a \in Int
    BY LedgerAssumption
  <1> QED BY <1>1, <1>2, TopupTally, VerifyTopupTally, RejectTopupTally, AdjustWalletTally,
             SettleTicketsForUserTally, OneTicketCallsTally DEF Call

-----------------------------------------------------------------------------
\* Commits.

\* One ticket t of user u is debited by d and gives back s.
LEMMA OneTicketRows ==
    ASSUME IInv, CInv, NEW t \in Ticket, NEW u \in User, Consumer[t] = u,
           NEW d \in Nat, NEW s \in Nat,
           UNCHANGED topup,
           ledger'[u].topup = ledger[u].topup,
           ledger'[u].debit = ledger[u].debit + d,
           ledger'[u].surplus = ledger[u].surplus + s,
           \A v \in User \ {u} : ledger'[v] = ledger[v],
           book'[t].debit = book[t].debit + d,
           book'[t].surplus = book[t].surplus + s,
           \A x \in Ticket \ {t} : book'[x] = book[x]
    PROVE  RowsAgree'
  <1> DEFINE D == Debits'
             S == Surpluses'
  <1>1. TypeOK /\ RowsAgree
    BY DEF IInv, CInv
  <1>2. \A x \in Ticket : /\ Debits[x] = book[x].debit /\ Debits[x] \in Int
                          /\ Surpluses[x] = book[x].surplus /\ Surpluses[x] \in Int
    BY <1>1, Columns
  <1>3. /\ \A x \in Ticket : D[x] = book'[x].debit /\ S[x] = book'[x].surplus
        /\ D[t] = Debits[t] + d /\ S[t] = Surpluses[t] + s
        /\ \A x \in Ticket \ {t} : D[x] = Debits[x] /\ S[x] = Surpluses[x]
    BY <1>2 DEF Debits, Surpluses
  <1>4. \A x \in Ticket : D[x] \in Int /\ S[x] \in Int
    BY <1>2, <1>3
  <1> HIDE DEF D, S
  <1>5. Amounts' = Amounts /\ \A v \in User : PaidIn(v)' = PaidIn(v)
    BY DEF Amounts, PaidIn
  <1>6. /\ ledger'[u].debit = SumFunctionOnSet(D, Mine(u))
        /\ ledger'[u].surplus = SumFunctionOnSet(S, Mine(u))
    <2>1. t \in Mine(u) /\ IsFiniteSet(Mine(u)) /\ Mine(u) \in SUBSET Ticket
      BY FiniteGroups DEF Mine
    <2>2. SumFunctionOnSet(D, Mine(u)) = SumFunctionOnSet(Debits, Mine(u)) + D[t] - Debits[t]
      BY <1>2, <1>3, <1>4, <2>1, SumChange
    <2>3. SumFunctionOnSet(S, Mine(u)) = SumFunctionOnSet(Surpluses, Mine(u)) + S[t] - Surpluses[t]
      BY <1>2, <1>3, <1>4, <2>1, SumChange
    <2>4. /\ ledger[u].debit = SumFunctionOnSet(Debits, Mine(u)) /\ ledger[u].debit \in Int
          /\ ledger[u].surplus = SumFunctionOnSet(Surpluses, Mine(u)) /\ ledger[u].surplus \in Int
      BY <1>1, Columns DEF RowsAgree
    <2>5. SumFunctionOnSet(D, Mine(u)) = ledger[u].debit + d
      BY <1>2, <1>3, <2>2, <2>4
    <2>6. SumFunctionOnSet(S, Mine(u)) = ledger[u].surplus + s
      BY <1>2, <1>3, <2>3, <2>4
    <2> QED BY <2>5, <2>6
  <1>7. ASSUME NEW v \in User \ {u}
        PROVE  /\ ledger'[v].debit = SumFunctionOnSet(D, Mine(v))
               /\ ledger'[v].surplus = SumFunctionOnSet(S, Mine(v))
    <2>1. \A x \in Mine(v) : /\ D[x] = Debits[x] /\ S[x] = Surpluses[x]
                             /\ Debits[x] \in Int /\ Surpluses[x] \in Int
      BY <1>2, <1>3, <1>7 DEF Mine
    <2>2. /\ SumFunctionOnSet(D, Mine(v)) = SumFunctionOnSet(Debits, Mine(v))
          /\ SumFunctionOnSet(S, Mine(v)) = SumFunctionOnSet(Surpluses, Mine(v))
      BY <2>1, FiniteGroups, SumSame
    <2> QED BY <1>1, <1>7, <2>2 DEF RowsAgree
  <1>8. \A v \in User : ledger'[v].topup = SumFunctionOnSet(Amounts, PaidIn(v))
    BY <1>1 DEF RowsAgree
  <1>9. \A v \in User : Mine(v)' = Mine(v)
    BY DEF Mine
  <1> QED BY <1>5, <1>6, <1>7, <1>8, <1>9 DEF RowsAgree, D, S

\* The top-ups have not moved: the other requests verify what they verified.
LEMMA CommitTally ==
    ASSUME IInv, CInv, NEW r \in Request, NEW q, req' = [req EXCEPT ![r] = q],
           Tally(q), q.op # "verifyTopup", UNCHANGED topup, RowsAgree'
    PROVE  CInv'
  <1>1. topup' = topup
    OBVIOUS
  <1>2. \A o \in Request : Tally(req[o])' /\ VerifiesOwn(o)'
    BY <1>1, TalliesKept
  <1> QED BY <1>2 DEF CInv

\* A payment from the wallet is booked on a ticket of its payer.
LEMMA PayCommitTally ==
    ASSUME IInv, CInv, NEW r \in Request, PayCommit(r)
    PROVE  CInv'
  <1> DEFINE q == req[r]
             u == q.user
             t == q.ticket
             applied == Least(q.bal, dueNow(t))
             refused == \/ ticket[t].archived
                        \/ Consumer[t] # u
                        \/ ticket[t].total <= 0
                        \/ dueNow(t) <= 0
                        \/ q.bal <= 0
  <1>1. Finish(r) /\ AtTicket(r, "payTicketFromWallet")
    BY DEF PayCommit
  <1>2. /\ TypeOK /\ q \in RequestRow /\ u \in User /\ t \in Ticket
        /\ ticket[t] \in TicketRow
    BY <1>1, AtTicketFacts
  <1>3. CASE refused
    <2>1. topup' = topup /\ ledger' = ledger /\ book' = book
      BY <1>3 DEF PayCommit, tables
    <2> QED BY <1>1, <2>1, Ends
  <1>4. CASE ~refused
    <2>1. /\ ledger' = [ledger EXCEPT ![u].debit = ledger[u].debit + applied]
          /\ book' = [book EXCEPT ![t].debit = book[t].debit + applied]
          /\ topup' = topup /\ Consumer[t] = u
      BY <1>4 DEF PayCommit
    <2>2. applied \in Nat
      <3>1. q.bal \in Nat /\ dueNow(t) \in Int /\ dueNow(t) > 0
        BY <1>2, <1>4 DEF RequestRow, dueNow, TicketRow
      <3> QED BY <3>1 DEF Least
    <2> HIDE DEF applied, u, t, q
    <2>3. /\ ledger[u] \in Ledger /\ book[t] \in Book
          /\ ledger \in [User -> Ledger] /\ book \in [Ticket -> Book]
      BY <1>2 DEF TypeOK
    <2>4. /\ ledger'[u].topup = ledger[u].topup
          /\ ledger'[u].debit = ledger[u].debit + applied
          /\ ledger'[u].surplus = ledger[u].surplus + 0
          /\ \A v \in User \ {u} : ledger'[v] = ledger[v]
      BY <1>2, <2>1, <2>3 DEF Ledger
    <2>5. /\ book'[t].debit = book[t].debit + applied
          /\ book'[t].surplus = book[t].surplus + 0
          /\ \A x \in Ticket \ {t} : book'[x] = book[x]
      BY <1>2, <2>1, <2>3 DEF Book
    <2>6. RowsAgree'
      BY <1>2, <2>1, <2>2, <2>4, <2>5, OneTicketRows
    <2> QED BY <1>1, <2>1, <2>6, CommitTally, DoneTally DEF Finish
  <1> QED BY <1>3, <1>4

\* A surplus goes back to the wallet of the ticket's own consumer.
LEMMA SurplusRows ==
    ASSUME IInv, CInv, NEW t \in Ticket, NEW u \in User, Consumer[t] = u,
           NEW n \in Nat, CreditSurplus(u, t, surplusOver(t, n)), UNCHANGED topup
    PROVE  RowsAgree'
  <1> DEFINE s == surplusOver(t, n)
  <1>1. /\ ledger[u] \in Ledger /\ book[t] \in Book /\ ticket[t] \in TicketRow
        /\ ledger \in [User -> Ledger] /\ book \in [Ticket -> Book]
    BY DEF IInv, TypeOK
  <1>2. s \in Nat
    BY <1>1 DEF surplusOver, TicketRow
  <1>3. /\ ledger' = [ledger EXCEPT ![u].surplus = ledger[u].surplus + s]
        /\ book' = [book EXCEPT ![t].surplus = book[t].surplus + s]
    BY DEF CreditSurplus
  <1> HIDE DEF s
  <1>4. /\ ledger'[u].topup = ledger[u].topup
        /\ ledger'[u].debit = ledger[u].debit + 0
        /\ ledger'[u].surplus = ledger[u].surplus + s
        /\ \A v \in User \ {u} : ledger'[v] = ledger[v]
    BY <1>1, <1>3 DEF Ledger
  <1>5. /\ book'[t].debit = book[t].debit + 0
        /\ book'[t].surplus = book[t].surplus + s
        /\ \A x \in Ticket \ {t} : book'[x] = book[x]
    BY <1>1, <1>3 DEF Book
  <1> QED BY <1>2, <1>4, <1>5, OneTicketRows

LEMMA RefundTally ==
    ASSUME IInv, CInv, NEW r \in Request, FinalizeCommit(r) \/ RepriceCommit(r)
    PROVE  CInv'
  <1> DEFINE u == req[r].user
             t == req[r].ticket
             n == req[r].price.total
  <1>1. \E op \in {"finalizeRemainder", "repriceTicket"} : AtTicket(r, op)
    BY DEF FinalizeCommit, RepriceCommit
  <1>2. u \in User /\ t \in Ticket /\ n \in Nat
    BY <1>1, AtTicketFacts
  <1>3. Consumer[t] = u
    <2>1. req[r].op \in {"finalizeRemainder", "repriceTicket"} /\ Tally(req[r])
      BY <1>1 DEF AtTicket, CInv
    <2> QED BY <2>1 DEF Tally
  <1>4. CASE RepriceCommit(r)
    <2>1. CreditSurplus(u, t, surplusOver(t, n)) /\ topup' = topup /\ Finish(r)
      BY <1>4 DEF RepriceCommit
    <2> HIDE DEF u, t, n
    <2>2. RowsAgree'
      BY <1>2, <1>3, <2>1, SurplusRows
    <2> QED BY <2>1, <2>2, CommitTally, DoneTally DEF Finish
  <1>5. CASE FinalizeCommit(r) /\ canFinalize(t)
    <2> DEFINE q == [Blank EXCEPT !.op = "settleTicketsForUser", !.pc = "lockUser",
                                  !.user = u]
    <2>1. /\ CreditSurplus(u, t, surplusOver(t, n)) /\ topup' = topup
          /\ req' = [req EXCEPT ![r] = q]
      BY <1>5 DEF FinalizeCommit
    <2>2. /\ q.spent = 0 /\ q.ded = Blank.ded /\ q.cand = {} /\ q.op = "settleTicketsForUser"
      BY DEF Blank
    <2> HIDE DEF q
    <2>3. \A x \in Ticket : q.ded[x] = 0
      BY <2>2 DEF Blank
    <2>4. Tally(q)
      BY <2>2, <2>3, FreshTally
    <2> HIDE DEF u, t, n
    <2>5. RowsAgree'
      BY <1>2, <1>3, <2>1, SurplusRows
    <2> QED BY <2>1, <2>2, <2>4, <2>5, CommitTally
  <1>6. CASE FinalizeCommit(r) /\ ~canFinalize(t)
    <2>1. Finish(r) /\ topup' = topup /\ ledger' = ledger /\ book' = book
      BY <1>6 DEF FinalizeCommit, tables
    <2> QED BY <2>1, Ends
  <1> QED BY <1>4, <1>5, <1>6

\* A reconciled payment is no debit of a wallet.
LEMMA ReconcileCommitTally ==
    ASSUME IInv, CInv, NEW r \in Request, ReconcileCommit(r)
    PROVE  CInv'
  <1> DEFINE t == req[r].ticket
             a == req[r].amt
  <1>1. /\ book' = [book EXCEPT ![t].cash = book[t].cash + a]
        /\ topup' = topup /\ ledger' = ledger /\ Finish(r)
    BY DEF ReconcileCommit
  <1> HIDE DEF t, a
  <1>2. book \in [Ticket -> Book] /\ RowsAgree
    BY DEF IInv, TypeOK, CInv
  <1>3. \A x \in Ticket : book'[x].debit = book[x].debit /\ book'[x].surplus = book[x].surplus
    BY <1>1, <1>2 DEF Book
  <1>4. Debits' = Debits /\ Surpluses' = Surpluses /\ Amounts' = Amounts
    BY <1>1, <1>3 DEF Debits, Surpluses, Amounts
  <1>5. \A u \in User : PaidIn(u)' = PaidIn(u) /\ Mine(u)' = Mine(u)
    BY <1>1 DEF PaidIn, Mine
  <1>6. RowsAgree'
    BY <1>1, <1>2, <1>4, <1>5, Zenon DEF RowsAgree
  <1> QED BY <1>1, <1>6, CommitTally, DoneTally DEF Finish

\* What a settlement commits: a debit on each of its user's tickets, whose sum is
\* what it takes from the wallet, and with verifyTopup the credit of one row.
LEMMA SettleFacts ==
    ASSUME IInv, CInv, NEW r \in Request, SettleCommit(r)
    PROVE  /\ TypeOK /\ RowsAgree /\ req[r].user \in User
           /\ req[r].spent \in Nat /\ req[r].ded \in [Ticket -> Nat]
           /\ \A t \in Ticket : Consumer[t] # req[r].user => req[r].ded[t] = 0
           /\ req[r].spent = SumFunctionOnSet(req[r].ded, Ticket)
           /\ req[r].spent = SumFunctionOnSet(req[r].ded, Mine(req[r].user))
           /\ req[r].op = "verifyTopup" =>
                /\ req[r].topup \in Topup /\ topup[req[r].topup].user = req[r].user
                /\ topup[req[r].topup].status = "PENDING_VERIFICATION"
                /\ topup[req[r].topup].amount = req[r].amt
  <1> DEFINE q == req[r]
             u == q.user
  <1>1. /\ TypeOK /\ RowsAgree /\ q \in RequestRow /\ RequestInv(r) /\ Tally(q)
        /\ VerifiesOwn(r) /\ q.pc = "settle"
    BY DEF IInv, TypeOK, LockDiscipline, CInv, SettleCommit
  <1>2. /\ u \in User
        /\ q.op = "verifyTopup" =>
             /\ q.topup \in Topup /\ topup[q.topup].user = u
             /\ topup[q.topup].status = "PENDING_VERIFICATION"
             /\ topup[q.topup].amount = q.amt
    BY <1>1 DEF RequestInv, VerifiesOwn
  <1>3. q.spent \in Nat /\ q.ded \in [Ticket -> Nat]
    BY <1>1 DEF RequestRow
  <1> HIDE DEF q, u
  <1>4. \A t \in Ticket : Consumer[t] # u => q.ded[t] = 0
    <2> SUFFICES ASSUME NEW t \in Ticket, Consumer[t] # u PROVE q.ded[t] = 0
      OBVIOUS
    <2>1. ~(q.ded[t] > 0)
      BY <1>1 DEF Tally, u
    <2>2. q.ded[t] \in Nat
      BY <1>3
    <2> QED BY <2>1, <2>2
  <1>5. SumFunctionOnSet(q.ded, Ticket) = SumFunctionOnSet(q.ded, Mine(u))
    <2>1. IsFiniteSet(Ticket) /\ Mine(u) \in SUBSET Ticket
      BY LedgerAssumption, FiniteGroups
    <2>2. \A y \in Ticket : q.ded[y] \in Int
      BY <1>3
    <2>3. \A y \in Ticket \ Mine(u) : q.ded[y] = 0
      BY <1>4 DEF Mine
    <2> QED BY <2>1, <2>2, <2>3, SumOutside
  <1>6. q.spent = SumFunctionOnSet(q.ded, Ticket)
    BY <1>1 DEF Tally
  <1> QED BY <1>1, <1>2, <1>3, <1>4, <1>5, <1>6 DEF q, u

\* The debits of a settlement, as the wallets and as the tickets record them.
LEMMA SettleDebits ==
    ASSUME IInv, CInv, NEW r \in Request, SettleCommit(r), NEW v \in User
    PROVE  /\ ledger'[v].debit = SumFunctionOnSet(Debits', Mine(v))
           /\ ledger'[v].surplus = SumFunctionOnSet(Surpluses', Mine(v))
  <1> DEFINE q == req[r]
             u == q.user
             D == Debits'
             S == Surpluses'
             L == [topup   |-> ledger[u].topup
                               + (IF q.op = "verifyTopup" THEN q.amt ELSE 0),
                   adjust  |-> ledger[u].adjust
                               + (IF q.op = "adjustWallet" THEN q.amt ELSE 0),
                   surplus |-> ledger[u].surplus,
                   debit   |-> ledger[u].debit + q.spent]
  <1>1. /\ TypeOK /\ RowsAgree /\ u \in User /\ q.spent \in Nat /\ q.ded \in [Ticket -> Nat]
        /\ \A t \in Ticket : Consumer[t] # u => q.ded[t] = 0
        /\ q.spent = SumFunctionOnSet(q.ded, Mine(u))
    BY SettleFacts
  <1>2. ledger' = [ledger EXCEPT ![u] = L]
    BY DEF SettleCommit
  <1>3. L.debit = ledger[u].debit + q.spent /\ L.surplus = ledger[u].surplus
    OBVIOUS
  <1> HIDE DEF L
  <1>4. book' = [t \in Ticket |-> [debit   |-> book[t].debit + q.ded[t],
                                   cash    |-> book[t].cash,
                                   surplus |-> book[t].surplus]]
    BY DEF SettleCommit
  <1> HIDE DEF q, u
  <1>5. \A x \in Ticket : /\ Debits[x] = book[x].debit /\ Debits[x] \in Int
                          /\ Surpluses[x] = book[x].surplus /\ Surpluses[x] \in Int
                          /\ q.ded[x] \in Int
    BY <1>1, Columns
  <1>6. \A x \in Ticket : D[x] = Debits[x] + q.ded[x] /\ S[x] = Surpluses[x]
    BY <1>4, <1>5 DEF Debits, Surpluses
  <1> HIDE DEF D, S
  <1>7. \A x \in Ticket : D[x] \in Int /\ q.ded[x] = D[x] - Debits[x]
    BY <1>5, <1>6
  <1>8. IsFiniteSet(Mine(v)) /\ Mine(v) \in SUBSET Ticket
    BY FiniteGroups
  <1>9. SumFunctionOnSet(S, Mine(v)) = SumFunctionOnSet(Surpluses, Mine(v))
    BY <1>5, <1>6, <1>8, SumSame
  <1>10. /\ ledger[v].debit = SumFunctionOnSet(Debits, Mine(v)) /\ ledger[v].debit \in Int
         /\ ledger[v].surplus = SumFunctionOnSet(Surpluses, Mine(v))
    BY <1>1, Columns DEF RowsAgree
  <1>11. ledger \in [User -> Ledger]
    BY <1>1 DEF TypeOK
  <1>12. CASE v = u
    <2>1. ledger'[v].debit = ledger[v].debit + q.spent /\ ledger'[v].surplus = ledger[v].surplus
      BY <1>1, <1>2, <1>3, <1>11, <1>12
    <2>2. SumFunctionOnSet(q.ded, Mine(v))
          = SumFunctionOnSet(D, Mine(v)) - SumFunctionOnSet(Debits, Mine(v))
      BY <1>5, <1>7, <1>8, SumMinus
    <2>3. SumFunctionOnSet(D, Mine(v)) \in Int /\ q.spent \in Int
      BY <1>1, <1>7, <1>8, SumType
    <2>4. q.spent = SumFunctionOnSet(D, Mine(v)) - ledger[v].debit
      BY <1>1, <1>10, <1>12, <2>2
    <2>5. SumFunctionOnSet(D, Mine(v)) = ledger[v].debit + q.spent
      BY <1>10, <2>3, <2>4
    <2> QED BY <1>9, <1>10, <2>1, <2>5 DEF D, S
  <1>13. CASE v # u
    <2>1. ledger'[v] = ledger[v]
      BY <1>2, <1>11, <1>13
    <2>2. \A x \in Mine(v) : D[x] = Debits[x] /\ Debits[x] \in Int
      BY <1>1, <1>5, <1>6, <1>13 DEF Mine
    <2>3. SumFunctionOnSet(D, Mine(v)) = SumFunctionOnSet(Debits, Mine(v))
      BY <1>8, <2>2, SumSame
    <2> QED BY <1>9, <1>10, <2>1, <2>3 DEF D, S
  <1> QED BY <1>12, <1>13

\* The credit of a verified top-up.
LEMMA SettleCredit ==
    ASSUME IInv, CInv, NEW r \in Request, SettleCommit(r), NEW v \in User
    PROVE  ledger'[v].topup = SumFunctionOnSet(Amounts', PaidIn(v)')
  <1> DEFINE q == req[r]
             u == q.user
             w == q.topup
             L == [topup   |-> ledger[u].topup
                               + (IF q.op = "verifyTopup" THEN q.amt ELSE 0),
                   adjust  |-> ledger[u].adjust
                               + (IF q.op = "adjustWallet" THEN q.amt ELSE 0),
                   surplus |-> ledger[u].surplus,
                   debit   |-> ledger[u].debit + q.spent]
  <1>1. /\ TypeOK /\ RowsAgree /\ u \in User
        /\ q.op = "verifyTopup" => /\ w \in Topup /\ topup[w].user = u
                                   /\ topup[w].status = "PENDING_VERIFICATION"
                                   /\ topup[w].amount = q.amt
    BY SettleFacts
  <1>2. ledger' = [ledger EXCEPT ![u] = L]
    BY DEF SettleCommit
  <1>3. L.topup = ledger[u].topup + (IF q.op = "verifyTopup" THEN q.amt ELSE 0)
    OBVIOUS
  <1> HIDE DEF L
  <1>4. topup' = IF q.op = "verifyTopup" THEN [topup EXCEPT ![w].status = "VERIFIED"] ELSE topup
    BY DEF SettleCommit
  <1> HIDE DEF q, u, w
  <1>5. /\ ledger[v].topup = SumFunctionOnSet(Amounts, PaidIn(v)) /\ ledger[v].topup \in Nat
        /\ ledger \in [User -> Ledger] /\ topup \in [Topup -> TopupRow]
        /\ \A x \in Topup : Amounts[x] = topup[x].amount /\ Amounts[x] \in Int
    BY <1>1, Columns DEF RowsAgree, TypeOK
  <1>6. CASE q.op # "verifyTopup"
    <2>1. topup' = topup
      BY <1>4, <1>6
    <2>2. Amounts' = Amounts /\ PaidIn(v)' = PaidIn(v)
      BY <2>1 DEF Amounts, PaidIn
    <2>3. ledger'[v].topup = ledger[v].topup
      BY <1>1, <1>2, <1>3, <1>5, <1>6
    <2> QED BY <1>5, <2>2, <2>3
  <1>7. CASE q.op = "verifyTopup"
    <2>1. /\ w \in Topup /\ topup[w].user = u /\ topup[w].status = "PENDING_VERIFICATION"
          /\ topup[w].amount = q.amt /\ topup' = [topup EXCEPT ![w].status = "VERIFIED"]
      BY <1>1, <1>4, <1>7
    <2>2. /\ topup'[w].user = u /\ topup'[w].status = "VERIFIED"
          /\ \A x \in Topup : topup'[x].amount = topup[x].amount
          /\ \A x \in Topup \ {w} : topup'[x] = topup[x]
      BY <1>5, <2>1 DEF TopupRow
    <2>3. Amounts' = Amounts
      BY <2>2 DEF Amounts
    <2>4. CASE v # u
      <3>1. PaidIn(v)' = PaidIn(v)
        BY <2>1, <2>2, <2>4 DEF PaidIn
      <3>2. ledger'[v] = ledger[v]
        BY <1>2, <1>5, <2>4
      <3> QED BY <1>5, <2>3, <3>1, <3>2
    <2>5. CASE v = u
      <3>1. PaidIn(v)' = PaidIn(v) \cup {w} /\ w \notin PaidIn(v)
        BY <2>1, <2>2, <2>5 DEF PaidIn
      <3>2. IsFiniteSet(PaidIn(v)) /\ PaidIn(v) \in SUBSET Topup
        BY FiniteGroups
      <3>3. SumFunctionOnSet(Amounts, PaidIn(v) \cup {w})
            = Amounts[w] + SumFunctionOnSet(Amounts, PaidIn(v))
        BY <1>5, <2>1, <3>1, <3>2, SumAdd
      <3>4. ledger'[v].topup = ledger[v].topup + q.amt
        BY <1>1, <1>2, <1>3, <1>5, <1>7, <2>5
      <3>5. Amounts[w] = q.amt /\ q.amt \in Int
        BY <1>5, <2>1
      <3>6. ledger'[v].topup = SumFunctionOnSet(Amounts, PaidIn(v) \cup {w})
        <4>1. ledger'[v].topup = q.amt + ledger[v].topup
          BY <1>5, <3>4, <3>5
        <4>2. SumFunctionOnSet(Amounts, PaidIn(v) \cup {w}) = q.amt + ledger[v].topup
          BY <1>5, <3>3, <3>5
        <4> QED BY <4>1, <4>2
      <3> QED BY <2>3, <3>1, <3>6
    <2> QED BY <2>4, <2>5
  <1> QED BY <1>6, <1>7

LEMMA SettleCommitTally ==
    ASSUME IInv, CInv, NEW r \in Request, SettleCommit(r)
    PROVE  CInv'
  <1>1. RowsAgree'
    <2>1. \A v \in User : Mine(v)' = Mine(v)
      BY DEF Mine
    <2> QED BY <2>1, SettleDebits, SettleCredit DEF RowsAgree
  <1>2. \A w \in Topup : topup'[w].user = topup[w].user
    <2>1. topup \in [Topup -> TopupRow]
      BY DEF IInv, TypeOK
    <2> QED BY <2>1 DEF SettleCommit, TopupRow
  <1>3. \A o \in Request : req[o].op = "verifyTopup" => req[o].topup \in Topup
    BY DEF IInv, LockDiscipline, RequestInv
  <1>4. req' = [req EXCEPT ![r] = Done]
    BY DEF SettleCommit, Finish
  <1>5. \A o \in Request : Tally(req[o])' /\ VerifiesOwn(o)'
    BY <1>2, <1>3, <1>4, TalliesKept, DoneTally
  <1> QED BY <1>1, <1>5 DEF CInv

-----------------------------------------------------------------------------
LEMMA ConservationNext == IInv /\ CInv /\ [Next]_vars => CInv'
  <1> SUFFICES ASSUME IInv, CInv, [Next]_vars PROVE CInv'
    OBVIOUS
  <1>1. ASSUME NEW r \in Request, Step(r) PROVE CInv'
    <2>1. CASE UpdateChargeWrite(r) \/ UpdateStatusWrite(r)
      <3>1. Finish(r) /\ topup' = topup /\ ledger' = ledger /\ book' = book
        BY <2>1 DEF UpdateChargeWrite, UpdateStatusWrite
      <3> QED BY <3>1, Ends
    <2> QED BY <1>1, <2>1, LockUserTally, SettleTicketTally, SettleCommitTally, PayCommitTally,
               RefundTally, ReconcileCommitTally DEF Step
  <1>2. ASSUME NEW r \in Request, Abort(r) PROVE CInv'
    <2>1. Finish(r) /\ topup' = topup /\ ledger' = ledger /\ book' = book
      BY <1>2 DEF Abort, tables
    <2> QED BY <2>1, Ends
  <1>3. CASE UNCHANGED vars
    <2>1. topup' = topup /\ ledger' = ledger /\ book' = book /\ req' = req
      BY <1>3 DEF vars
    <2>2. RowsAgree'
      BY <2>1, RowsKept DEF CInv
    <2>3. \A o \in Request : Tally(req'[o]) /\ VerifiesOwn(o)'
      BY <2>1 DEF CInv, VerifiesOwn
    <2> QED BY <2>2, <2>3 DEF CInv, Tally
  <1> QED BY <1>1, <1>2, <1>3, CallTally DEF Next, Fail, BreakDeadlock

\* The rows of the wallets and the rows of the tickets agree in every state.
THEOREM ConservationInvariant == Spec => [](IInv /\ CInv)
  <1>1. Init => IInv /\ CInv
    BY InitInv, ConservationInit
  <1>2. IInv /\ CInv /\ [Next]_vars => (IInv /\ CInv)'
    BY NextInv, ConservationNext
  <1> QED BY <1>1, <1>2, PTL DEF Spec

\* What u's tickets have received is what their rows say.
LEMMA TicketsAddUp ==
    ASSUME IInv, NEW u \in User
    PROVE  /\ SumFunctionOnSet(Paid, Mine(u)) \in Int
           /\ SumFunctionOnSet(Cash, Mine(u)) \in Int
           /\ SumFunctionOnSet(Paid, Mine(u)) - SumFunctionOnSet(Cash, Mine(u))
              = SumFunctionOnSet(Debits, Mine(u)) - SumFunctionOnSet(Surpluses, Mine(u))
  <1> DEFINE N == [t \in Ticket |-> ticket[t].paid - book[t].cash]
  <1>1. TypeOK /\ BooksBacked
    BY DEF IInv
  <1>2. IsFiniteSet(Mine(u)) /\ Mine(u) \in SUBSET Ticket
    BY FiniteGroups
  <1>3. \A t \in Ticket : /\ Paid[t] \in Int /\ Cash[t] \in Int
                          /\ Debits[t] \in Int /\ Surpluses[t] \in Int
                          /\ Paid[t] = Debits[t] + Cash[t] - Surpluses[t]
                          /\ N[t] = Paid[t] - Cash[t]
    BY <1>1, Columns DEF BooksBacked
  <1> HIDE DEF N
  <1>4. \A t \in Ticket : N[t] = Debits[t] - Surpluses[t]
    BY <1>3
  <1>5. SumFunctionOnSet(N, Mine(u)) = SumFunctionOnSet(Paid, Mine(u)) - SumFunctionOnSet(Cash, Mine(u))
    BY <1>2, <1>3, SumMinus
  <1>6. SumFunctionOnSet(N, Mine(u))
        = SumFunctionOnSet(Debits, Mine(u)) - SumFunctionOnSet(Surpluses, Mine(u))
    BY <1>2, <1>3, <1>4, SumMinus
  <1>7. SumFunctionOnSet(Paid, Mine(u)) \in Int /\ SumFunctionOnSet(Cash, Mine(u)) \in Int
    BY <1>2, <1>3, SumType
  <1> QED BY <1>5, <1>6, <1>7

\* No interleaving of settlements, payments, refunds and receipts creates or
\* loses money: a user's credit and what the user's tickets have received is what
\* came in.
THEOREM NoMoneyIsLost == Spec => []MoneyConserved
  <1>1. IInv /\ CInv => MoneyConserved
    <2> SUFFICES ASSUME IInv, CInv, NEW u \in User
                 PROVE  balance[u] + SumFunctionOnSet(Paid, Mine(u))
                        = SumFunctionOnSet(Amounts, PaidIn(u)) + ledger[u].adjust
                          + SumFunctionOnSet(Cash, Mine(u))
      BY DEF MoneyConserved, Paid, Mine, Amounts, PaidIn, Cash
    <2>1. /\ ledger[u].topup = SumFunctionOnSet(Amounts, PaidIn(u))
          /\ ledger[u].debit = SumFunctionOnSet(Debits, Mine(u))
          /\ ledger[u].surplus = SumFunctionOnSet(Surpluses, Mine(u))
      BY DEF CInv, RowsAgree
    <2>2. balance[u] = ledger[u].topup + ledger[u].adjust + ledger[u].surplus
                       - ledger[u].debit
      BY DEF IInv, BalanceBacked
    <2>3. /\ ledger[u].topup \in Nat /\ ledger[u].adjust \in Int
          /\ ledger[u].debit \in Nat /\ ledger[u].surplus \in Nat
      BY Columns DEF IInv
    <2> DEFINE P == SumFunctionOnSet(Paid, Mine(u))
               C == SumFunctionOnSet(Cash, Mine(u))
    <2>4. P \in Int /\ C \in Int /\ P - C = ledger[u].debit - ledger[u].surplus
      BY <2>1, TicketsAddUp
    <2> HIDE DEF P, C
    <2>5. balance[u] + P = ledger[u].topup + ledger[u].adjust + C
      <3> DEFINE b == balance[u]
                 i == ledger[u].topup
                 a == ledger[u].adjust
                 d == ledger[u].debit
                 x == ledger[u].surplus
      <3>1. /\ b = i + a + x - d /\ P - C = d - x /\ P \in Int /\ C \in Int
            /\ i \in Int /\ a \in Int /\ d \in Int /\ x \in Int
        BY <2>2, <2>3, <2>4
      <3> HIDE DEF b, i, a, d, x
      <3>2. b + P = i + a + C
        BY <3>1
      <3> QED BY <3>2 DEF b, i, a
    <2> QED BY <2>1, <2>5 DEF P, C
  <1> QED BY <1>1, ConservationInvariant, PTL

-----------------------------------------------------------------------------
\* Decisions about top-ups.

\* The sum of verified top-ups of the ledger is written by the commit of a
\* verification only.
LEMMA LedgerOfTopups ==
    ASSUME IInv, [Next]_vars, NEW u \in User
    PROVE  \/ ledger'[u].topup = ledger[u].topup
           \/ \E r \in Request : SettleCommit(r)
  <1>0. ledger \in [User -> Ledger]
    BY DEF IInv, TypeOK
  <1>1. ASSUME NEW r \in Request, Call(r)
        PROVE  ledger' = ledger
    BY <1>1 DEF Call, Topup_, VerifyTopup, RejectTopup, AdjustWallet,
           SettleTicketsForUser, PayTicketFromWallet, FinalizeRemainder, RepriceTicket,
           ReconcilePayment, UpdateCharge, UpdateStatus, DispatchDelivery, BulkArchive,
           BulkRestore, tables
  <1>2. ASSUME NEW r \in Request, Step(r), ~SettleCommit(r)
        PROVE  ledger'[u].topup = ledger[u].topup
    <2>1. CASE LockUser(r) \/ SettleTicket(r)
      BY <2>1 DEF LockUser, SettleTicket, tables
    <2>2. CASE ReconcileCommit(r) \/ UpdateChargeWrite(r) \/ UpdateStatusWrite(r)
      BY <2>2 DEF ReconcileCommit, UpdateChargeWrite, UpdateStatusWrite
    <2>3. CASE PayCommit(r)
      BY <1>0, <2>3 DEF PayCommit, tables, Ledger
    <2>4. CASE FinalizeCommit(r)
      BY <1>0, <2>4 DEF FinalizeCommit, CreditSurplus, tables, Ledger
    <2>5. CASE RepriceCommit(r)
      BY <1>0, <2>5 DEF RepriceCommit, CreditSurplus, tables, Ledger
    <2> QED BY <1>2, <2>1, <2>2, <2>3, <2>4, <2>5 DEF Step
  <1>3. ASSUME NEW r \in Request, Abort(r)
        PROVE  ledger' = ledger
    BY <1>3 DEF Abort, tables
  <1>4. CASE UNCHANGED vars
    BY <1>4 DEF vars
  <1> QED BY <1>1, <1>2, <1>3, <1>4 DEF Next, Fail, BreakDeadlock

\* A commit that writes u's sum of top-ups verifies a pending row of u's, of that
\* amount.
LEMMA CommitVerifies ==
    ASSUME IInv, CInv, NEW r \in Request, SettleCommit(r)
    PROVE  /\ \A u \in User :
                \/ ledger'[u].topup = ledger[u].topup
                \/ \E w \in Topup : Verifies(w) /\ topup[w].user = u
           /\ \A w \in Topup : Verifies(w) =>
                /\ topup[w].status = "PENDING_VERIFICATION"
                /\ topup[w].user \in User
                /\ ledger'[topup[w].user].topup
                     = ledger[topup[w].user].topup + topup[w].amount
  <1>0. TypeOK /\ RequestInv(r) /\ TopupsOwned
    BY DEF IInv, LockDiscipline
  <1> DEFINE q == req[r]
             before == ledger[q.user]
  <1>1. q.pc = "settle" /\ q.user \in User
    BY <1>0 DEF SettleCommit, RequestInv
  <1>2. ledger' = [ledger EXCEPT ![q.user] =
             [topup   |-> before.topup
                          + (IF q.op = "verifyTopup" THEN q.amt ELSE 0),
              adjust  |-> before.adjust
                          + (IF q.op = "adjustWallet" THEN q.amt ELSE 0),
              surplus |-> before.surplus,
              debit   |-> before.debit + q.spent]]
    BY DEF SettleCommit
  <1>3. /\ \A u \in User : u # q.user => ledger'[u] = ledger[u]
        /\ ledger'[q.user].topup = before.topup
                                   + (IF q.op = "verifyTopup" THEN q.amt ELSE 0)
    BY <1>0, <1>1, <1>2 DEF TypeOK
  <1>4. CASE q.op = "verifyTopup"
    <2>1. /\ q.topup \in Topup
          /\ topup[q.topup].status = "PENDING_VERIFICATION"
          /\ q.amt = topup[q.topup].amount
      BY <1>0, <1>4 DEF RequestInv
    <2>2. topup' = [topup EXCEPT ![q.topup].status = "VERIFIED"]
      BY <1>4 DEF SettleCommit
    <2>3. \A w \in Topup : Verifies(w) <=> w = q.topup
      BY <1>0, <2>1, <2>2 DEF Verifies, TypeOK, TopupRow
    <2>4. topup[q.topup].user = q.user
      BY <1>4 DEF CInv, VerifiesOwn
    <2> QED BY <1>1, <1>3, <1>4, <2>1, <2>3, <2>4
  <1>5. CASE q.op # "verifyTopup"
    <2>1. topup' = topup
      BY <1>5 DEF SettleCommit
    <2>2. \A w \in Topup : ~Verifies(w)
      BY <2>1 DEF Verifies
    <2>3. before.topup \in Nat
      BY <1>0, <1>1 DEF TypeOK, Ledger
    <2>4. ledger'[q.user].topup = ledger[q.user].topup
      BY <1>3, <1>5, <2>3
    <2> QED BY <1>3, <2>2, <2>4
  <1> QED BY <1>4, <1>5

\* No other step verifies a row.
LEMMA OnlyCommitsVerify ==
    ASSUME IInv, [Next]_vars, NEW w \in Topup, Verifies(w)
    PROVE  \E r \in Request : SettleCommit(r)
  <1>1. topup' # topup
    BY DEF Verifies
  <1>2. ASSUME NEW r \in Request, NEW v \in Topup, NEW u \in User, NEW a \in Amount,
               Topup_(r, v, u, a)
        PROVE  FALSE
    BY <1>2 DEF Topup_, Verifies, IInv, TypeOK
  <1>3. ASSUME NEW r \in Request, NEW v \in Topup, RejectTopup(r, v)
        PROVE  FALSE
    BY <1>3 DEF RejectTopup, Verifies, IInv, TypeOK, TopupRow
  <1>4. ASSUME NEW r \in Request, Abort(r)
        PROVE  UNCHANGED topup
    BY <1>4 DEF Abort, tables
  <1>5. UNCHANGED vars => UNCHANGED topup
    BY DEF vars
  <1>6. ASSUME NEW r \in Request, Call(r)
        PROVE  FALSE
    <2>1. TypeOK
      BY DEF IInv
    <2> QED BY <1>1, <1>2, <1>3, <1>6, <2>1, QuietCalls DEF Verifies
  <1>7. ASSUME NEW r \in Request, Step(r)
        PROVE  SettleCommit(r)
    BY <1>7, QuietSteps DEF Verifies
  <1>8. ASSUME NEW r \in Request, Abort(r)
        PROVE  FALSE
    BY <1>4, <1>8 DEF Verifies
  <1>9. ~UNCHANGED vars
    BY <1>1, <1>5 DEF Verifies
  <1> QED BY <1>6, <1>7, <1>8, <1>9 DEF Next, Fail, BreakDeadlock

\* The wallet's own figures say what the ledger says.
LEMMA ToppedUpIsLedger ==
    ASSUME IInv, NEW u \in User
    PROVE  toppedUp(u) = ledger[u].topup /\ ledger[u].topup \in Nat
  <1>1. /\ balance[u] = ledger[u].topup + ledger[u].adjust + ledger[u].surplus
                        - ledger[u].debit
        /\ ledger[u] \in Ledger
    BY DEF IInv, BalanceBacked, TypeOK
  <1>2. /\ ledger[u].topup \in Nat /\ ledger[u].adjust \in Int
        /\ ledger[u].surplus \in Nat /\ ledger[u].debit \in Nat
    BY <1>1 DEF Ledger
  <1> QED BY <1>1, <1>2 DEF toppedUp

\* What a step does to the top-ups and to the money they bring.
DecidesOnce ==
    /\ \A w \in Topup : topup[w].status \in {"VERIFIED", "REJECTED"}
                        => topup'[w] = topup[w]
    /\ \A w \in Topup : Verifies(w) =>
         /\ topup[w].status = "PENDING_VERIFICATION"
         /\ \E u \in User : /\ u = topup[w].user
                            /\ toppedUp(u)' = toppedUp(u) + topup[w].amount
    /\ \A u \in User : toppedUp(u)' # toppedUp(u) =>
         \E w \in Topup : Verifies(w) /\ topup[w].user = u

LEMMA DecidingStep ==
    ASSUME IInv, CInv, [Next]_vars
    PROVE  DecidesOnce
  <1>1. IInv'
    BY NextInv
  <1>2. \A u \in User : toppedUp(u) = ledger[u].topup
    BY ToppedUpIsLedger
  <1>3. \A u \in User : toppedUp(u)' = ledger'[u].topup
    <2>1. \A u \in User : /\ balance'[u] = ledger'[u].topup + ledger'[u].adjust
                                            + ledger'[u].surplus - ledger'[u].debit
                         /\ ledger'[u] \in Ledger
      BY <1>1 DEF IInv, BalanceBacked, TypeOK
    <2> QED BY <2>1 DEF toppedUp, Ledger
  <1>4. ASSUME NEW w \in Topup, Verifies(w)
        PROVE  /\ topup[w].status = "PENDING_VERIFICATION"
               /\ \E u \in User : /\ u = topup[w].user
                                  /\ toppedUp(u)' = toppedUp(u) + topup[w].amount
    <2>1. PICK r \in Request : SettleCommit(r)
      BY <1>4, OnlyCommitsVerify
    <2>2. /\ topup[w].status = "PENDING_VERIFICATION"
          /\ topup[w].user \in User
          /\ ledger'[topup[w].user].topup
               = ledger[topup[w].user].topup + topup[w].amount
      BY <1>4, <2>1, CommitVerifies
    <2> QED BY <1>2, <1>3, <2>2
  <1>5. ASSUME NEW u \in User, toppedUp(u)' # toppedUp(u)
        PROVE  \E w \in Topup : Verifies(w) /\ topup[w].user = u
    <2>1. ledger'[u].topup # ledger[u].topup
      BY <1>2, <1>3, <1>5
    <2>2. PICK r \in Request : SettleCommit(r)
      BY <2>1, LedgerOfTopups
    <2> QED BY <2>1, <2>2, CommitVerifies
  <1> QED BY <1>4, <1>5, DecisionStep DEF DecidesOnce

\* However verifyTopup and rejectTopup race, a top-up is decided once and credited
\* at most once, by the step that verifies it.
THEOREM TopupsDecidedOnce == Spec => DecisionIsFinal
  <1>1. IInv /\ CInv /\ [Next]_vars => [DecidesOnce]_vars
    BY DecidingStep
  <1> QED BY <1>1, ConservationInvariant, PTL DEF Spec, DecisionIsFinal, DecidesOnce

-----------------------------------------------------------------------------
\* The sum that MoneyAccounts uses is the sum used here.
LEMMA SameSum == \A v, S : Accounts!SumFunctionOnSet(v, S) = SumFunctionOnSet(v, S)
  BY Zenon DEF Accounts!SumFunctionOnSet, SumFunctionOnSet, Accounts!FoldFunctionOnSet,
     FoldFunctionOnSet, Accounts!MapThenFoldSet, MapThenFoldSet

-----------------------------------------------------------------------------
\* The refinement, movement by movement.  Credit given to a user from outside:
Inflow == [u \in User |-> ledger[u].topup + ledger[u].adjust]

\* A step that shows no money moving.
LEMMA Stutters ==
    ASSUME UNCHANGED <<balance, ledger>>, Paid' = Paid, Cash' = Cash
    PROVE  UNCHANGED Accounts!accounts
  BY DEF Accounts!accounts, Paid, Cash

\* The wallet of u pays tickets of u.
LEMMA IsSettle ==
    ASSUME NEW u \in User,
           \A o \in User \ {u} : balance'[o] = balance[o] /\ Inflow'[o] = Inflow[o],
           \A t \in Ticket : Consumer[t] # u => Paid'[t] = Paid[t],
           \A t \in Ticket : Paid'[t] >= Paid[t],
           balance'[u] >= 0,
           balance'[u] + SumFunctionOnSet([t \in Ticket |-> Paid'[t] - Paid[t]], Ticket)
             = balance[u] + Inflow'[u] - Inflow[u],
           Cash' = Cash
    PROVE  Accounts!Movement
  <1>1. Accounts!Touches(u)
    BY DEF Accounts!Touches, Paid, Inflow
  <1>2. /\ \A t \in Ticket : ([x \in Ticket |-> ticket[x].paid])'[t]
                             >= [x \in Ticket |-> ticket[x].paid][t]
    BY DEF Paid
  <1>3. Accounts!Settle(u)
    BY <1>1, <1>2, SameSum DEF Accounts!Settle, Paid, Inflow, Cash
  <1> QED BY <1>3 DEF Accounts!Movement

\* Ticket t gives a surplus back to its consumer.
LEMMA IsRefund ==
    ASSUME NEW t \in Ticket, Consumer[t] \in User,
           \A o \in User \ {Consumer[t]} : balance'[o] = balance[o],
           \A x \in Ticket \ {t} : Paid'[x] = Paid[x],
           0 <= Paid'[t], Paid'[t] <= Paid[t],
           balance'[Consumer[t]] = balance[Consumer[t]] + Paid[t] - Paid'[t],
           Inflow' = Inflow, Cash' = Cash
    PROVE  Accounts!Movement
  <1>1. Accounts!Touches(Consumer[t])
    BY DEF Accounts!Touches, Paid, Inflow
  <1>2. Accounts!Refund(t)
    BY <1>1 DEF Accounts!Refund, Paid, Inflow, Cash
  <1> QED BY <1>2 DEF Accounts!Movement

\* A payment is handed in for ticket t.
LEMMA IsReceive ==
    ASSUME NEW t \in Ticket,
           \A x \in Ticket \ {t} : Paid'[x] = Paid[x] /\ Cash'[x] = Cash[x],
           Cash'[t] > Cash[t], Paid'[t] = Paid[t] + Cash'[t] - Cash[t],
           UNCHANGED balance, Inflow' = Inflow
    PROVE  Accounts!Movement
  <1>1. Accounts!Receive(t)
    BY DEF Accounts!Receive, Paid, Inflow, Cash
  <1> QED BY <1>1 DEF Accounts!Movement

LEMMA OpensAccounts == Init => Accounts!Open
  <1> SUFFICES ASSUME Init PROVE Accounts!Open
    OBVIOUS
  <1>1. \A t \in Ticket : ticket[t].paid = 0 /\ book[t].cash = 0
    BY DEF Init
  <1>2. \A u \in User : ledger[u].topup + ledger[u].adjust = 0
    BY DEF Init
  <1>3. balance = [u \in User |-> 0]
    BY DEF Init
  <1> QED BY <1>1, <1>2, <1>3 DEF Accounts!Open

LEMMA SettleCommitMoves ==
    ASSUME IInv, CInv, NEW r \in Request, SettleCommit(r)
    PROVE  Accounts!Movement
  <1> DEFINE q == req[r]
             u == q.user
             i == IF q.op = "verifyTopup" THEN q.amt ELSE 0
             a == IF q.op = "adjustWallet" THEN q.amt ELSE 0
             L == [topup   |-> ledger[u].topup + i, adjust  |-> ledger[u].adjust + a,
                   surplus |-> ledger[u].surplus, debit   |-> ledger[u].debit + q.spent]
             F == [t \in Ticket |-> Paid'[t] - Paid[t]]
  <1>1. /\ TypeOK /\ u \in User /\ q.spent \in Nat /\ q.ded \in [Ticket -> Nat]
        /\ \A t \in Ticket : Consumer[t] # u => q.ded[t] = 0
        /\ q.spent = SumFunctionOnSet(q.ded, Ticket)
    BY SettleFacts
  <1>2. ledger' = [ledger EXCEPT ![u] = L] /\ balance' = [balance EXCEPT ![u] = q.bal]
    BY DEF SettleCommit
  <1>3. L.topup = ledger[u].topup + i /\ L.adjust = ledger[u].adjust + a
    OBVIOUS
  <1> HIDE DEF L
  <1>4. /\ q.bal \in Nat /\ q.amt \in Int /\ q.bal + q.spent = balance[u] + q.amt
        /\ q.op \in {"verifyTopup", "settleTicketsForUser", "adjustWallet"}
        /\ q.op = "settleTicketsForUser" => q.amt = 0
    BY DEF IInv, TypeOK, LockDiscipline, RequestInv, RequestRow, SettleCommit
  <1>5. i + a = q.amt /\ i \in Int /\ a \in Int
    BY <1>4
  <1>6. /\ balance \in [User -> Nat] /\ ledger \in [User -> Ledger] /\ balance[u] \in Nat
        /\ ledger[u].topup \in Nat /\ ledger[u].adjust \in Int
    BY <1>1, Columns DEF TypeOK
  <1>7. \A t \in Ticket : Paid'[t] = Paid[t] + q.ded[t]
    <2> SUFFICES ASSUME NEW t \in Ticket PROVE ticket'[t].paid = ticket[t].paid + q.ded[t]
      BY DEF Paid
    <2>1. ticket[t] \in TicketRow /\ ticket[t].paid \in Nat /\ q.ded[t] \in Nat
      BY <1>1 DEF TypeOK, TicketRow
    <2>2. ticket'[t] = IF q.ded[t] > 0 THEN applyPaymentToTicket(ticket[t], q.ded[t])
                       ELSE ticket[t]
      BY DEF SettleCommit
    <2>3. CASE q.ded[t] > 0
      BY <2>1, <2>2, <2>3, PaidColumns
    <2>4. CASE q.ded[t] = 0
      BY <2>1, <2>2, <2>4
    <2> QED BY <2>1, <2>3, <2>4
  <1>8. Cash' = Cash
    BY DEF SettleCommit, Cash
  <1> HIDE DEF q, u, i, a
  <1>9. \A t \in Ticket : Paid[t] \in Nat /\ q.ded[t] \in Nat
    BY <1>1, Columns
  <1>10. SumFunctionOnSet(F, Ticket) = q.spent
    <2>1. \A t \in Ticket : F[t] = q.ded[t] /\ q.ded[t] \in Int
      BY <1>7, <1>9
    <2> HIDE DEF F
    <2> QED BY <1>1, <2>1, LedgerAssumption, SumSame
  <1>11. /\ \A o \in User \ {u} : balance'[o] = balance[o] /\ Inflow'[o] = Inflow[o]
         /\ balance'[u] = q.bal
         /\ Inflow'[u] = ledger[u].topup + i + (ledger[u].adjust + a)
         /\ Inflow[u] = ledger[u].topup + ledger[u].adjust
    BY <1>1, <1>2, <1>3, <1>6 DEF Inflow
  <1>12. balance'[u] + SumFunctionOnSet(F, Ticket) = balance[u] + Inflow'[u] - Inflow[u]
    <2>1. balance'[u] + SumFunctionOnSet(F, Ticket) = balance[u] + q.amt
      BY <1>4, <1>10, <1>11
    <2>2. Inflow'[u] - Inflow[u] = q.amt
      BY <1>5, <1>6, <1>11
    <2>3. Inflow'[u] \in Int /\ Inflow[u] \in Int
      BY <1>5, <1>6, <1>11
    <2> QED BY <1>4, <1>6, <2>1, <2>2, <2>3
  <1>13. \A t \in Ticket : /\ Consumer[t] # u => Paid'[t] = Paid[t]
                           /\ Paid'[t] >= Paid[t]
    BY <1>1, <1>7, <1>9
  <1>14. balance'[u] >= 0
    BY <1>4, <1>11
  <1> QED BY <1>1, <1>8, <1>11, <1>12, <1>13, <1>14, IsSettle DEF F

LEMMA PayCommitMoves ==
    ASSUME IInv, NEW r \in Request, PayCommit(r)
    PROVE  [Accounts!Movement]_(Accounts!accounts)
  <1> DEFINE q == req[r]
             u == q.user
             t == q.ticket
             a == Least(q.bal, dueNow(t))
             refused == \/ ticket[t].archived
                        \/ Consumer[t] # u
                        \/ ticket[t].total <= 0
                        \/ dueNow(t) <= 0
                        \/ q.bal <= 0
             F == [x \in Ticket |-> Paid'[x] - Paid[x]]
             Z == [x \in Ticket |-> 0]
  <1>1. AtTicket(r, "payTicketFromWallet")
    BY DEF PayCommit
  <1>2. /\ TypeOK /\ RequestInv(r) /\ q \in RequestRow /\ u \in User /\ t \in Ticket
        /\ ticket[t] \in TicketRow
    BY <1>1, AtTicketFacts
  <1>3. CASE refused
    <2>1. UNCHANGED <<balance, ledger>> /\ ticket' = ticket /\ book' = book
      BY <1>3 DEF PayCommit, tables
    <2> QED BY <2>1, Stutters DEF Paid, Cash
  <1>4. CASE ~refused
    <2>1. /\ balance' = [balance EXCEPT ![u] = q.bal - a]
          /\ ticket' = [ticket EXCEPT ![t] = applyPaymentToTicket(ticket[t], a)]
          /\ ledger' = [ledger EXCEPT ![u].debit = ledger[u].debit + a]
          /\ book' = [book EXCEPT ![t].debit = book[t].debit + a]
          /\ Consumer[t] = u
      BY <1>4 DEF PayCommit
    <2>2. a \in Nat /\ a <= q.bal /\ q.bal \in Nat
      <3>1. q.bal \in Nat /\ dueNow(t) \in Int /\ dueNow(t) > 0
        BY <1>2, <1>4 DEF RequestRow, dueNow, TicketRow
      <3> QED BY <3>1 DEF Least
    <2>3. q.bal = balance[u]
      BY <1>1, <1>2 DEF AtTicket, RequestInv
    <2> HIDE DEF a, q, u, t
    <2>4. /\ balance \in [User -> Nat] /\ ticket \in [Ticket -> TicketRow]
          /\ ledger \in [User -> Ledger] /\ book \in [Ticket -> Book]
      BY <1>2 DEF TypeOK
    <2>5. /\ Paid'[t] = Paid[t] + a
          /\ \A x \in Ticket \ {t} : Paid'[x] = Paid[x]
          /\ \A x \in Ticket : Paid[x] \in Nat
      BY <1>2, <2>1, <2>2, <2>4, PaidColumns, Columns DEF Paid
    <2>6. Cash' = Cash
      BY <2>1, <2>4 DEF Cash, Book
    <2>7. \A o \in User : Inflow'[o] = Inflow[o] /\ Inflow[o] \in Int
      BY <2>1, <2>4 DEF Inflow, Ledger
    <2>8. SumFunctionOnSet(F, Ticket) = a
      <3>1. /\ \A x \in Ticket : F[x] \in Int /\ Z[x] = 0
            /\ F[t] = a /\ \A x \in Ticket \ {t} : F[x] = Z[x]
        BY <1>2, <2>2, <2>5
      <3> HIDE DEF F, Z
      <3>2. IsFiniteSet(Ticket)
        BY LedgerAssumption
      <3>3. SumFunctionOnSet(Z, Ticket) = 0
        BY <3>1, <3>2, SumZero
      <3>4. SumFunctionOnSet(F, Ticket) = SumFunctionOnSet(Z, Ticket) + F[t] - Z[t]
        BY <1>2, <3>1, <3>2, SumChange
      <3> QED BY <1>2, <2>2, <3>1, <3>3, <3>4
    <2>9. /\ balance'[u] = balance[u] - a /\ balance[u] \in Nat /\ a <= balance[u]
          /\ \A o \in User \ {u} : balance'[o] = balance[o]
      BY <1>2, <2>1, <2>2, <2>3, <2>4
    <2>10. balance'[u] >= 0
      BY <2>2, <2>9
    <2>11. balance'[u] + SumFunctionOnSet(F, Ticket) = balance[u] + Inflow'[u] - Inflow[u]
      BY <1>2, <2>2, <2>7, <2>8, <2>9
    <2>12. \A x \in Ticket : /\ Consumer[x] # u => Paid'[x] = Paid[x]
                             /\ Paid'[x] >= Paid[x]
      BY <1>2, <2>1, <2>2, <2>5
    <2> QED BY <1>2, <2>6, <2>7, <2>9, <2>10, <2>11, <2>12, IsSettle DEF F
  <1> QED BY <1>3, <1>4

LEMMA RefundMoves ==
    ASSUME IInv, CInv, NEW r \in Request, FinalizeCommit(r) \/ RepriceCommit(r)
    PROVE  [Accounts!Movement]_(Accounts!accounts)
  <1> DEFINE u == req[r].user
             t == req[r].ticket
             n == req[r].price.total
             s == surplusOver(t, n)
  <1>1. \E op \in {"finalizeRemainder", "repriceTicket"} : AtTicket(r, op)
    BY DEF FinalizeCommit, RepriceCommit
  <1>2. TypeOK /\ u \in User /\ t \in Ticket /\ n \in Nat /\ ticket[t] \in TicketRow
    BY <1>1, AtTicketFacts
  <1>3. Consumer[t] = u
    <2>1. req[r].op \in {"finalizeRemainder", "repriceTicket"} /\ Tally(req[r])
      BY <1>1 DEF AtTicket, CInv
    <2> QED BY <2>1 DEF Tally
  <1>4. CASE FinalizeCommit(r) /\ ~canFinalize(t)
    <2>1. UNCHANGED <<balance, ledger>> /\ ticket' = ticket /\ book' = book
      BY <1>4 DEF FinalizeCommit, tables
    <2> QED BY <2>1, Stutters DEF Paid, Cash
  <1>5. CASE RepriceCommit(r) \/ (FinalizeCommit(r) /\ canFinalize(t))
    <2>1. /\ balance' = [balance EXCEPT ![u] = balance[u] + s]
          /\ ledger' = [ledger EXCEPT ![u].surplus = ledger[u].surplus + s]
          /\ book' = [book EXCEPT ![t].surplus = book[t].surplus + s]
      BY <1>5 DEF RepriceCommit, FinalizeCommit, CreditSurplus
    <2>2. s \in Nat /\ s <= ticket[t].paid /\ ticket[t].paid \in Nat
      BY <1>2 DEF surplusOver, TicketRow
    <2>3. \/ ticket' = [ticket EXCEPT ![t].total = n, ![t].paid = ticket[t].paid - s,
                                      ![t].finalized = TRUE]
          \/ ticket' = [ticket EXCEPT ![t].service = req[r].price.service, ![t].total = n,
                                      ![t].paid = ticket[t].paid - s]
      BY <1>5 DEF RepriceCommit, FinalizeCommit
    <2> HIDE DEF s, n, u, t
    <2>4. /\ balance \in [User -> Nat] /\ ticket \in [Ticket -> TicketRow]
          /\ ledger \in [User -> Ledger] /\ book \in [Ticket -> Book]
      BY <1>2 DEF TypeOK
    <2>5. /\ Paid'[t] = Paid[t] - s /\ Paid[t] = ticket[t].paid
          /\ \A x \in Ticket \ {t} : Paid'[x] = Paid[x]
      BY <1>2, <2>2, <2>3, <2>4 DEF Paid, TicketRow
    <2>6. Cash' = Cash
      BY <2>1, <2>4 DEF Cash, Book
    <2>7. Inflow' = Inflow
      BY <2>1, <2>4 DEF Inflow, Ledger
    <2>8. /\ balance'[u] = balance[u] + s /\ balance[u] \in Nat
          /\ \A o \in User \ {u} : balance'[o] = balance[o]
      BY <1>2, <2>1, <2>4
    <2>9. /\ 0 <= Paid'[t] /\ Paid'[t] <= Paid[t]
          /\ balance'[u] = balance[u] + Paid[t] - Paid'[t]
      BY <2>2, <2>5, <2>8
    <2> QED BY <1>2, <1>3, <2>5, <2>6, <2>7, <2>8, <2>9, IsRefund
  <1> QED BY <1>4, <1>5

LEMMA ReconcileCommitMoves ==
    ASSUME IInv, NEW r \in Request, ReconcileCommit(r)
    PROVE  [Accounts!Movement]_(Accounts!accounts)
  <1> DEFINE t == req[r].ticket
             a == req[r].amt
  <1>1. t \in Ticket /\ a \in Nat
    BY DEF ReconcileCommit, IInv, LockDiscipline, RequestInv
  <1>2. /\ ticket' = [ticket EXCEPT ![t] = applyPaymentToTicket(ticket[t], a)]
        /\ book' = [book EXCEPT ![t].cash = book[t].cash + a]
        /\ UNCHANGED <<balance, ledger>>
    BY DEF ReconcileCommit
  <1> HIDE DEF t, a
  <1>3. TypeOK /\ ticket \in [Ticket -> TicketRow] /\ book \in [Ticket -> Book]
    BY DEF IInv, TypeOK
  <1>4. /\ Paid'[t] = Paid[t] + a
        /\ \A x \in Ticket \ {t} : Paid'[x] = Paid[x]
    BY <1>1, <1>2, <1>3, PaidColumns DEF Paid
  <1>5. /\ Cash'[t] = Cash[t] + a
        /\ \A x \in Ticket \ {t} : Cash'[x] = Cash[x]
    BY <1>1, <1>2, <1>3 DEF Cash, Book
  <1>6. Paid[t] \in Nat /\ Cash[t] \in Nat
    BY <1>1, <1>3, Columns
  <1>7. Inflow' = Inflow
    BY <1>2 DEF Inflow
  <1>8. CASE a = 0
    <2>1. \A x \in Ticket : Paid'[x] = Paid[x] /\ Cash'[x] = Cash[x]
      BY <1>4, <1>5, <1>6, <1>8
    <2>2. Paid' = Paid /\ Cash' = Cash
      BY <2>1 DEF Paid, Cash
    <2> QED BY <1>2, <2>2, Stutters
  <1>9. CASE a > 0
    <2>1. Cash'[t] > Cash[t] /\ Paid'[t] = Paid[t] + Cash'[t] - Cash[t]
      BY <1>1, <1>4, <1>5, <1>6, <1>9
    <2> QED BY <1>1, <1>2, <1>4, <1>5, <1>7, <2>1, IsReceive
  <1> QED BY <1>1, <1>8, <1>9

\* A call only reads, or writes what no account shows.
LEMMA CallStutters ==
    ASSUME IInv, NEW r \in Request, Call(r)
    PROVE  UNCHANGED Accounts!accounts
  <1>1. Paid' = Paid
    BY QuietCalls DEF IInv, Paid
  <1>2. UNCHANGED <<balance, ledger>> /\ book' = book
    BY DEF Call, Topup_, VerifyTopup, RejectTopup, AdjustWallet, SettleTicketsForUser,
           PayTicketFromWallet, FinalizeRemainder, RepriceTicket, ReconcilePayment,
           UpdateCharge, UpdateStatus, DispatchDelivery, BulkArchive, BulkRestore, tables
  <1> QED BY <1>1, <1>2, Stutters DEF Cash

LEMMA StepMoves ==
    ASSUME IInv, CInv, [Next]_vars
    PROVE  [Accounts!Movement]_(Accounts!accounts)
  <1>1. ASSUME NEW r \in Request, Step(r)
        PROVE  [Accounts!Movement]_(Accounts!accounts)
    <2>1. CASE LockUser(r) \/ SettleTicket(r)
      <3>1. UNCHANGED <<balance, ledger>> /\ ticket' = ticket /\ book' = book
        BY <2>1 DEF LockUser, SettleTicket, tables
      <3> QED BY <3>1, Stutters DEF Paid, Cash
    <2>2. CASE UpdateChargeWrite(r) \/ UpdateStatusWrite(r)
      <3>1. UNCHANGED <<balance, ledger>> /\ book' = book
        BY <2>2 DEF UpdateChargeWrite, UpdateStatusWrite
      <3>2. \A t \in Ticket : ticket'[t].paid = ticket[t].paid
        <4>1. ticket \in [Ticket -> TicketRow]
          BY DEF IInv, TypeOK
        <4>2. CASE UpdateChargeWrite(r)
          BY <4>1, <4>2 DEF UpdateChargeWrite, TicketRow
        <4>3. CASE UpdateStatusWrite(r)
          BY <4>1, <4>3 DEF UpdateStatusWrite, TicketRow
        <4> QED BY <2>2, <4>2, <4>3
      <3>3. Paid' = Paid /\ Cash' = Cash
        BY <3>1, <3>2 DEF Paid, Cash
      <3> QED BY <3>1, <3>3, Stutters
    <2> QED BY <1>1, <2>1, <2>2, SettleCommitMoves, PayCommitMoves, RefundMoves,
               ReconcileCommitMoves DEF Step
  <1>2. ASSUME NEW r \in Request, Abort(r)
        PROVE  UNCHANGED Accounts!accounts
    <2>1. UNCHANGED <<balance, ledger>> /\ ticket' = ticket /\ book' = book
      BY <1>2 DEF Abort, tables
    <2> QED BY <2>1, Stutters DEF Paid, Cash
  <1>3. CASE UNCHANGED vars
    <2>1. UNCHANGED <<balance, ledger>> /\ ticket' = ticket /\ book' = book
      BY <1>3 DEF vars
    <2> QED BY <2>1, Stutters DEF Paid, Cash
  <1> QED BY <1>1, <1>2, <1>3, CallStutters DEF Next, Fail, BreakDeadlock

\* The requests, with their locks, stale reads, failures and deadlocks, implement
\* the indivisible movements of MoneyAccounts.
THEOREM RequestsMoveMoneyAtomically == Spec => MovesMoneyAtomically
  <1>1. Init => Accounts!Open
    BY OpensAccounts
  <1>2. IInv /\ CInv /\ [Next]_vars => [Accounts!Movement]_(Accounts!accounts)
    BY StepMoves
  <1> QED BY <1>1, <1>2, ConservationInvariant, PTL
          DEF Spec, MovesMoneyAtomically, Accounts!AccountsSpec
=============================================================================
