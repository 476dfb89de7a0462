SPECIFICATION FairSpec
CONSTANTS
    c = c
    s = s
    t = t
    home = home
    far = far
    a0 = a0
    a1 = a1
    a2 = a2
    oc = oc
    os = os
    ot = ot
    None = None
    self = self
    Self = self
    Identity = {self, c, s, t}
    Realm = {home, far}
    App = {a1, a2}
    hostRoutes <- MCHostRoutes
    realmRoutes <- MCRealmRoutes
    appRoutes <- MCAppRoutes
    defaultRealm = None
    dynamicRealmPeers = FALSE
    RealmOf <- MCRealmOf
    Obj = {oc, os}
    IdOf <- MCIdOf
    Outbound = {os}
    MaxOpens = 2
    Req = {1, 2, 3}
    Dest <- MCDest
    From <- MCFrom
    AnswerDest <- MCAnswerDest
    LocalRealm = home
    Served = {a2}
    AppCommon = a0
    RelayEnabled = TRUE
    IDSpace = 2
    Loads <- MCLoads
    eregRules <- MCEregRules
INVARIANTS AnswerToOrigin AtMostOnce OnlyUnservedForgotten
PROPERTIES RelayEnds
CHECK_DEADLOCK FALSE
