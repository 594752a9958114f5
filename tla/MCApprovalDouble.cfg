\* One process, two handlers and two approvers of two: one handler submits the
\* request while the other takes the decisions.
SPECIFICATION Spec
CONSTANTS
    User = {u1, u2, u3}
    NoUser = NoUser
    Req = {r1}
    NoReq = NoReq
    p1 = p1
    Replica = {p1}
    Handler = {h1, h2}
    NoHandler = NoHandler
    Host <- MCHost
    Required = {2}
    Expiry = 1
    MaxTime = 3
INVARIANT AtMostOneExecution
CHECK_DEADLOCK FALSE
