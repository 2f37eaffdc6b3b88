--------------------------- MODULE MoneyAccounts ----------------------------
(***************************************************************************)
(* What the wallet promises its users, without requests, locks or rows:    *)
(* every visible change of money is one of four indivisible movements.     *)
(***************************************************************************)
EXTENDS Integers, Functions

CONSTANTS User, Ticket, Consumer

VARIABLES
    credit,     \* prepaid credit of each user
    funds,      \* what each ticket has received
    inflow,     \* net credit given to each user from outside
    cash        \* payments handed in for each ticket outside the wallet

accounts == <<credit, funds, inflow, cash>>

Open ==
    /\ credit = [u \in User |-> 0]
    /\ funds = [t \in Ticket |-> 0]
    /\ inflow = [u \in User |-> 0]
    /\ cash = [t \in Ticket |-> 0]

\* Only user u's credit and inflow, and the funds of u's tickets, change.
Touches(u) ==
    /\ \A o \in User \ {u} : credit'[o] = credit[o] /\ inflow'[o] = inflow[o]
    /\ \A t \in Ticket : Consumer[t] # u => funds'[t] = funds[t]

\* User u is given (or loses) credit from outside and the wallet pays some of
\* u's tickets with it: their funds only grow, and the credit is not overdrawn.
Settle(u) ==
    /\ Touches(u)
    /\ \A t \in Ticket : funds'[t] >= funds[t]
    /\ credit'[u] >= 0
    /\ credit'[u] + SumFunctionOnSet([t \in Ticket |-> funds'[t] - funds[t]], Ticket)
       = credit[u] + inflow'[u] - inflow[u]
    /\ UNCHANGED cash

\* A surplus goes back from one ticket to its consumer's credit.
Refund(t) ==
    /\ Touches(Consumer[t])
    /\ 0 <= funds'[t] /\ funds'[t] <= funds[t]
    /\ \A s \in Ticket \ {t} : funds'[s] = funds[s]
    /\ credit'[Consumer[t]] = credit[Consumer[t]] + funds[t] - funds'[t]
    /\ UNCHANGED <<inflow, cash>>

\* A payment is handed in for one ticket.
Receive(t) ==
    /\ \A s \in Ticket \ {t} : funds'[s] = funds[s] /\ cash'[s] = cash[s]
    /\ cash'[t] > cash[t]
    /\ funds'[t] = funds[t] + cash'[t] - cash[t]
    /\ UNCHANGED <<credit, inflow>>

Movement ==
    \/ \E u \in User : Settle(u)
    \/ \E t \in Ticket : Refund(t)
    \/ \E t \in Ticket : Receive(t)

AccountsSpec == Open /\ [][Movement]_accounts
=============================================================================
