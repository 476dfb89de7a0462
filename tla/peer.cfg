SPECIFICATION PeerSpec
CONSTANTS
    Conn = {c1, c2, c3}
    EventCap = 2
    Persistent = FALSE
    LocalWins = TRUE
    StartedBy = {"Start", "StartWithConnection"}
    Responder = TRUE
    Remote = {"CEA", "DWA"}
    MayStop = FALSE
    Timely = FALSE
    MaxInFlight = 1
    None = None
    Producer = {p1, p2}
    NoMessage = NoMessage
    ringBufferSize = 2
    writerBatchSize = 2
    SendCap = 1
    MaxSends = 3
    MaxLinks = 1
    MayFail = FALSE
SYMMETRY MCSymmetry
INVARIANTS TypeOK OpenHasConn NoDualConn IOpenNegotiated WqTypeOK SlotExclusive NoLostWakeup
PROPERTIES SuspectReturns RefinesFifo
CHECK_DEADLOCK FALSE
