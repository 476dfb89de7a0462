SPECIFICATION Spec
CONSTANTS
    Conn = {c1, c2}
    EventCap = 2
    Persistent = TRUE
    LocalWins = TRUE
    StartedBy = {"Start", "StartWithConnection"}
    Responder = TRUE
    Remote = {"CEA"}
    MayStop = FALSE
    Timely = FALSE
    MaxInFlight = 1
    None = None
SYMMETRY ConnSymmetry
INVARIANTS WaitIsTimed ElectionHasCER
CHECK_DEADLOCK FALSE
