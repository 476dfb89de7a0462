SPECIFICATION ServerSpec
CONSTANTS
    Obj = {o1, o2}
    Outbound = {o1}
    Identity = {a, b}
    None = None
    Persistent = TRUE
    MayStop = TRUE
    s1 = s1
    s2 = s2
    id1 = id1
    a1 = a1
    a2 = a2
    Session = {s1, s2}
    SessionID = {id1}
    App = {a1, a2}
    IdOf <- MCIdOf
    AppOf <- MCAppOf
    Thread = {t1, t2}
    MaxRegs <- MCMaxRegs
    MaxArms = 2
    Handled = {s2}
    LateCallback = FALSE
    NoSession = NoSession
INVARIANTS TypeOK NoDanglingPeer CloseOnce
PROPERTIES ServerStopReturns InboundEnds CallsReturn Expires
CHECK_DEADLOCK FALSE
