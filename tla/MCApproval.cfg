\* One process, three handlers at once, thresholds 0, 1 and 2.
SPECIFICATION FairSpec
CONSTANTS
    User = {u1, u2, u3}
    NoUser = NoUser
    Req = {r1}
    NoReq = NoReq
    p1 = p1
    Replica = {p1}
    Handler = {h1, h2, h3}
    NoHandler = NoHandler
    Host <- MCHost
    Required = {0, 1, 2}
    Expiry = 1
    MaxTime = 3
INVARIANT TypeOK
INVARIANT QuorumBacked
INVARIANT ResolverAccountable
PROPERTY DecisionsFinal
PROPERTY ImplementsLifecycle
PROPERTY EventuallyResolved
CHECK_DEADLOCK FALSE
