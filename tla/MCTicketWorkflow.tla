-------------------------- MODULE MCTicketWorkflow --------------------------
(***************************************************************************)
(* Small instances of TicketWorkflow for TLC.                              *)
(***************************************************************************)
EXTENDS TicketWorkflow, TLC

CONSTANTS r1, r2, r3, r4, r5, c1, c2

\* Requests and representatives are interchangeable.
Symmetry == Permutations(Request) \cup Permutations(Rep)

\* What is left when a run asks about two or three endpoints only.
HandoverEndpoints == {"assign", "acceptAssignment", "rejectAssignment"}
DraftEndpoints == {"saveClerkCharges", "finalizeRemainder"}

\* A flow with printed copies to send, a digital one, and a physical one ordered
\* in USD, whose price is flat.
PhysicalFlow == {[physical |-> TRUE, caps |-> TRUE]}
AllFlows == PhysicalFlow \cup {[physical |-> FALSE, caps |-> FALSE],
                              [physical |-> TRUE, caps |-> FALSE]}
=============================================================================
