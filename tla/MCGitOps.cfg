\* Two goroutines on the message of one application, one freeze of one or
\* two ticks, one request and one submit that may fail.
SPECIFICATION Spec
CONSTANTS
    App = {a1}
    Instance <- MCInstance
    Clusters <- MCClusters
    Rules <- MCRules
    Handler = {h1, h2}
    NoTask = NoTask
    Freeze = {f1}
    Duration = {1, 2}
    Req = {r1}
    MaxRetries = 2
    MaxRuns = 2
    MaxFailures = 1
    MaxTime = 2
INVARIANT TypeOK
INVARIANT GatedRunsOnlyOnFailure
INVARIANT WaitingHasRequest
PROPERTY FreezeHoldsOffNewDialogs
SYMMETRY Symmetry
CHECK_DEADLOCK FALSE
