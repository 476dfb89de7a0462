SPECIFICATION LayerSpec
CONSTANTS
    e1 = e1
    e2 = e2
    e3 = e3
    Ext = {e1, e2, e3}
    CanStop = {e1, e2}
    CanReconf = {e1}
    Owned = {e1, e2}
    Config = {c1}
    Admin = {g1, g2}
    Srv = Srv
    Worker = {w1}
    MaxOps = 5
    Quiesce = TRUE
    None = None
    p1 = p1
    p2 = p2
    q1 = q1
    q2 = q2
    g1 = g1
    g2 = g2
    a1 = a1
    a2 = a2
    k1 = k1
    k2 = k2
    k3 = k3
    MaxNow = 3
    Partner = {p1, p2}
    Alias = {a1, a2}
    Masker = {g1, g2}
    MaxEntriesOf <- MCMaxEntriesOf
    MaxEntriesOption = 3
    Ttl = 2
    MaxPseudonyms = 5
    NoMask = NoMask
    Unit = 2
    Arrival <- MCArrival
    Rules <- MCRules
    IdleTTL = 2
    MaxLag = 1
    Limited = {g1, g2}
    MaxAllowed = 4
    NoCall = NoCall
    Key = {k1, k2, k3}
    Peer = {q1, q2}
    Serving = {{q1}, {q1, q2}}
    score <- MCScore
    scoreBoost = 1
    maxSize = 2
    BindTtl = 1
    Attempt = {g1, g2}
    NoPeer = NoPeer
SYMMETRY MCSymmetry
INVARIANTS InitStopAlternate QuietStop ReverseOrder StoreAgrees RateBound SessionKept
PROPERTIES NoisyPays
CHECK_DEADLOCK FALSE
