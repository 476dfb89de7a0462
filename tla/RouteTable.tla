----------------------------- MODULE RouteTable -----------------------------
(***************************************************************************)
(* The routing decision of pkg/core/routing: which peers a message may be  *)
(* sent to, and which of them is chosen.  A list of candidates is a set of *)
(* (peer, score) pairs: its order decides nothing but a tie, and ties are  *)
(* broken at random.                                                       *)
(***************************************************************************)
EXTENDS Integers, Sequences, FiniteSets, FiniteSetsExt

CONSTANTS
    Identity,            \* Diameter identities of peers and destinations
    Realm,               \* realms
    App,                 \* application identifiers
    None,                \* an absent AVP, or no route
    hostRoutes,          \* [Identity -> Identity \cup {None}]
    realmRoutes,         \* [Realm -> SUBSET Identity], after setupRouting
    appRoutes,           \* [App -> Seq(Identity)]
    defaultRealm,        \* Realm, or None
    dynamicRealmPeers,   \* BOOLEAN
    RealmOf              \* [Identity -> Realm]: the realm a peer presents

ASSUME RouteAssumption ==
    /\ hostRoutes \in [Identity -> Identity \cup {None}] /\ realmRoutes \in [Realm -> SUBSET Identity]
    /\ appRoutes \in [App -> Seq(Identity)] /\ defaultRealm \in Realm \cup {None}

\* What buildCandidates reads of a message.
Destination == [host : Identity \cup {None}, realm : Realm \cup {None}, app : App]

Route(S, score) == {[peer |-> i, score |-> score] : i \in S}

\* AddRealmRoute.
AddRealmRoute(routes, realm, S) == [routes EXCEPT ![realm] = @ \cup S]

\* setupRouting: the configured realm routes, and every configured peer in its realm.
SetupRealmRoutes(configured, peers) ==
    FoldSet(LAMBDA i, routes : AddRealmRoute(routes, RealmOf[i], {i}), configured, peers)

\* buildCandidates.  `connected' is what the server enumerates.
BuildCandidates(msg, connected) ==
    LET realm  == IF msg.realm # None THEN msg.realm ELSE defaultRealm
        static == IF realm = None THEN {} ELSE realmRoutes[realm]
        host   == {msg.host} \ {None}
        live   == IF dynamicRealmPeers /\ realm # None
                  THEN {i \in connected : RealmOf[i] = realm} ELSE {}
        apps   == appRoutes[msg.app]
    IN  IF msg.host # None /\ hostRoutes[msg.host] # None
        THEN Route({hostRoutes[msg.host]}, 1000)
        ELSE Route(host, 500) \cup Route(static, 100)
               \cup Route(live \ (host \cup static), 90)
               \cup UNION {Route({apps[k]}, 201 - k) : k \in DOMAIN apps}

Top(candidates) == {c \in candidates : \A d \in candidates : d.score <= c.score}

\* RouteOutWithExclusion: the best score among the peers that are not excluded.
BestTier(candidates, exclude) ==
    {c.peer : c \in Top({c \in candidates : c.peer \notin exclude})}

-----------------------------------------------------------------------------
(* The handlers of the routing extensions.  A handler may have a choice: it is *)
(* the set of the candidate lists it can return.                           *)

Boost(S, n) == {[c EXCEPT !.score = @ + n] : c \in S}

\* rt_ereg: each rule whose pattern matches adds its score to its server.
Ereg(candidates, matching) ==
    {[c EXCEPT !.score = @ + MapThenSumSet(LAMBDA r : r.score,
                                           {r \in matching : r.server = c.peer})] : c \in candidates}

\* rt_load_balance: one more for one of the best that has the fewest pending requests.
LoadBalance(candidates, load) ==
    LET top   == Top(candidates)
        least == {c \in top : \A d \in top : load[c.peer] <= load[d.peer]}
    IN  IF Cardinality(candidates) <= 1 THEN {candidates}
        ELSE {(candidates \ {c}) \cup Boost({c}, 1) : c \in least}

\* rt_randomize: one more or nothing for each of several best.
Randomize(candidates) ==
    LET top == Top(candidates)
    IN  IF Cardinality(top) <= 1 THEN {candidates}
        ELSE {(candidates \ S) \cup Boost(S, 1) : S \in SUBSET top}

\* The handlers that are loaded, by priority.
OutHandlers(candidates, loaded, matching, load) ==
    LET scored   == IF "rt_ereg" \in loaded THEN Ereg(candidates, matching) ELSE candidates
        balanced == IF "rt_load_balance" \in loaded THEN LoadBalance(scored, load) ELSE {scored}
    IN  UNION {IF "rt_randomize" \in loaded THEN Randomize(cs) ELSE {cs} : cs \in balanced}

=============================================================================
