-------------------------- MODULE ApprovalLifecycle --------------------------
(***************************************************************************)
(* What the approval workflow promises about one request, and nothing      *)
(* about how: a request is opened once, stays pending for a while, and is  *)
(* settled once, for good, in one of four ways.  Approval implements this  *)
(* under the mapping Effective (module Approval).                          *)
(***************************************************************************)
CONSTANT Req

VARIABLE status   \* status[r], the state of the request as everyone may rely on it

Resolution == {"approved", "rejected", "expired", "cancelled"}
Status == {"none", "pending"} \cup Resolution

Init == status = [r \in Req |-> "none"]

\* The only ways one request may move.
Move(from, to) == \/ from = "none"    /\ to = "pending"
                  \/ from = "pending" /\ to \in Resolution

\* Several requests may move at once: one sweep of the expiry worker settles
\* every overdue request.
Next == /\ status' \in [Req -> Status]
        /\ \A r \in Req : status'[r] # status[r] => Move(status[r], status'[r])

Spec == Init /\ [][Next]_status
=============================================================================
