\* Seven entries through a channel of two and batches of two: the channel
\* fills and drops, a batch fills, the ticker writes a partial one, and Close
\* meets the worker in every state.  The system may stop once it is closed.
SPECIFICATION FairSpec
CONSTANTS
    MaxEntries = 7
    Capacity = 2
    BatchSize = 2
INVARIANT TypeOK
INVARIANT OnceInOrder
INVARIANT CloseIsComplete
INVARIANT BoundedLoss
PROPERTY EventuallyTried
CHECK_DEADLOCK FALSE
