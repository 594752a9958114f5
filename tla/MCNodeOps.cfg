SPECIFICATION Spec
CONSTANTS
    Node <- MCNode
    Pod <- MCPod
    Kind <- MCKind
    Message = {m1}
    About <- MCAbout
    Handler = {h1, h2}
    NoJob = NoJob
    Gated = TRUE
INVARIANT TypeOK
INVARIANT DrainedIsEmpty
INVARIANT ProgressIsLive
PROPERTY DrainEnds
