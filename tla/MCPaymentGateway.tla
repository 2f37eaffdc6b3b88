-------------------------- MODULE MCPaymentGateway --------------------------
(***************************************************************************)
(* Small instances of PaymentGateway for TLC.                              *)
(***************************************************************************)
EXTENDS PaymentGateway, TLC

CONSTANTS p1, p2, p3, r1, r2, r3

\* Payments and requests are interchangeable.
Symmetry == Permutations(Payment) \cup Permutations(Request)
=============================================================================
