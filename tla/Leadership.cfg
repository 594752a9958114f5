\* Two replicas; the durations keep the order of 15 s, 10 s + 2 s and the time
\* of a call.
SPECIFICATION FairSpec
CONSTANTS
    Replica = {p1, p2}
    Nobody = Nobody
    LeaseDuration = 4
    Patience = 2
    RenewDeadline = 1
    Lag = 1
INVARIANT TypeOK
INVARIANT OneLeader
INVARIANT OneWorker
PROPERTY Failover
