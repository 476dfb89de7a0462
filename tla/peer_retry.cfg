SPECIFICATION FairSpec
CONSTANTS
    Conn = {c1}
    EventCap = 1
    Persistent = TRUE
    LocalWins = TRUE
    StartedBy = {"Start"}
    Responder = FALSE
    Remote = {"CEA"}
    MayStop = FALSE
    Timely = TRUE
    MaxInFlight = 1
    None = None
PROPERTIES PersistentPeerRetries
CHECK_DEADLOCK FALSE
