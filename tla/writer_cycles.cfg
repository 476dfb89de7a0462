SPECIFICATION WqFairSpec
CONSTANTS
    Producer = {p1, p2}
    NoMessage = NoMessage
    ringBufferSize = 2
    writerBatchSize = 1
    SendCap = 1
    MaxSends = 1
    MaxLinks = 2
    MayFail = TRUE
INVARIANTS WriteOnce
PROPERTIES WriterStopReturns
CHECK_DEADLOCK FALSE
