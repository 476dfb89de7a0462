SPECIFICATION FairSpec
CONSTANTS
    Conn = {c1}
    EventCap = 2
    Persistent = TRUE
    LocalWins = TRUE
    StartedBy = {"Start"}
    Responder = FALSE
    Remote = {"CEA", "DWA", "DPR"}
    MayStop = TRUE
    Timely = TRUE
    MaxInFlight = 1
    None = None
INVARIANTS SingleAttempt
PROPERTIES SuspectRecovers HandshakeEnds LostConnReleased
CHECK_DEADLOCK FALSE
