SPECIFICATION Spec
CONSTANTS
    NoName = NoName
    None = NoName
    Identity <- MCIdentity
    Realm <- MCRealm
    App = {1, 2}
    hostRoutes <- MCHostRoutes
    realmRoutes <- MCRealmRoutes
    appRoutes <- MCAppRoutes
    defaultRealm = NoName
    dynamicRealmPeers = TRUE
    RealmOf <- MCRealmOf
    RawConfig <- MCRawConfig
    Obj = {o1, o2, o3}
    Cer <- MCCer
    Requests <- MCRequests
    Answers <- MCAnswers
    Alias <- MCAlias
    Ours <- MCOurs
    MaxReq = 2
    Reconnect = TRUE
INVARIANTS AllHidden
SYMMETRY ObjSymmetry
CHECK_DEADLOCK FALSE
