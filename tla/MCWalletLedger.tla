--------------------------- MODULE MCWalletLedger ---------------------------
(***************************************************************************)
(* Small instances of WalletLedger for TLC.                                *)
(***************************************************************************)
EXTENDS WalletLedger, TLC

CONSTANTS u1, u2, t1, t2, t3, r1, r2, r3, r4, r5, w1, w2

\* Requests are interchangeable.
Symmetry == Permutations(Request)

\* Two tickets of one consumer, t1 the older.
OneConsumer == [t \in Ticket |-> u1]
\* The same, and a ticket of another consumer.
TwoConsumers == [t \in Ticket |-> IF t = t3 THEN u2 ELSE u1]
Ages == [t \in Ticket |-> IF t = t1 THEN 1 ELSE IF t = t2 THEN 2 ELSE 3]

\* A base price, the same with charges on top, and a discounted one.
Prices == {[service |-> 1, total |-> 1], [service |-> 1, total |-> 2],
           [service |-> 2, total |-> 1]}
PlainPrices == {[service |-> 1, total |-> 1], [service |-> 1, total |-> 2]}
BasePrices == {[service |-> 1, total |-> 2]}

\* The endpoints of the wallet and of the finance desk.
WalletEndpoints == {"topup", "verifyTopup", "rejectTopup", "adjustWallet",
                    "settleTicketsForUser", "payTicketFromWallet",
                    "reconcilePayment", "archive", "abort"}
\* The endpoints that change prices while money moves.
ChargeEndpoints == {"adjustWallet", "payTicketFromWallet", "reconcilePayment",
                    "updateCharge", "finalizeRemainder", "repriceTicket"}
\* The endpoints around completion and delivery.
DeliveryEndpoints == {"adjustWallet", "finalizeRemainder", "repriceTicket",
                      "updateStatus", "dispatchDelivery", "archive", "restore"}
\* Requests that hold and wait for rows in both orders, on the way to delivery.
LivenessEndpoints == DeliveryEndpoints \cup {"reconcilePayment", "payTicketFromWallet",
                                              "updateCharge"}
=============================================================================
