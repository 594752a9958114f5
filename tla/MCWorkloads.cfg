CONSTANTS
    c1 = c1
    c2 = c2
    n1 = n1
    n2 = n2
    deploy = deploy
    app = app
    User = {u}
    Cluster = {c1, c2}
    Namespace = {n1, n2}
    Long = {n2}
    Default = c1
    Pod = pod
    Container = container
    All = All
    None = None
    NoName = NoName
    Handler = {h1, h2}
    Preset = {1, 2}
    ScaleMax = 2
    Release = release
    First = c1
    MaxRevision = 2
    MaxAttempts = 2
CONSTANT Spaces <- MCSpaces
CONSTANT Pages <- MCPages
CONSTANT Workload <- MCWorkload
SYMMETRY MCSymmetry
SPECIFICATION WorkloadsSpec
INVARIANT ActsAsSaid
INVARIANT TrailTells
CHECK_DEADLOCK FALSE
