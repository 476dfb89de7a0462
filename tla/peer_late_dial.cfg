SPECIFICATION Spec
CONSTANTS
    Conn = {c1}
    EventCap = 2
    Persistent = TRUE
    LocalWins = TRUE
    StartedBy = {"Start"}
    Responder = FALSE
    Remote = {"CEA", "DWA"}
    MayStop = TRUE
    Timely = FALSE
    MaxInFlight = 1
    None = None
INVARIANTS ClosedNoIConn
CHECK_DEADLOCK FALSE
