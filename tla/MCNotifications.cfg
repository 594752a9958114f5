SPECIFICATION MCSpec
CONSTANTS
    User = {u}
    Limit = 2
    Window = 3
    Handler = {h1, h2}
    Cluster = {c}
    Quiet <- MCQuiet
    Hour = {0, 1, 2, 3, 4, 5, 6, 7}
    Off = Off
    NoRow = NoRow
    Process = {p, q}
    Scheduler = {s1, s2}
    Day = 14
    At = 4
    MaxBusy = 6
    Pressure = {"DiskPressure", "MemoryPressure"}
    Restarts = {4, 5, 6}
    Percentage = {50, 79, 80, 89, 90, 120}
    Days = {0, 7, 8, 30, 31, 40}
    Health = {"Healthy", "Degraded"}
    Sync = {"Synced", "OutOfSync"}
    Millis = {4000, 4700, 5001}
    Hard = 6000
SYMMETRY Symmetry
INVARIANTS
    PreferencesTypeOK
    LimitExact
    AlertsMeant
    BriefedOnce
    SeenIsTold
PROPERTIES
    OthersKept
CHECK_DEADLOCK FALSE
