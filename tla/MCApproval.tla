----------------------------- MODULE MCApproval -----------------------------
(* A small instance of Approval: three users, one request, one process.     *)
EXTENDS Approval

CONSTANTS p1

\* Every handler runs in the one process.
MCHost == [h \in Handler |-> p1]
=============================================================================
