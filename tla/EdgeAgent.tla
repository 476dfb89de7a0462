----------------------------- MODULE EdgeAgent ------------------------------
(***************************************************************************)
(* The Diameter Edge Agent put together: connections are admitted, listed, *)
(* bound to a partner and lost, while RouteIn takes a request through      *)
(* screening, pseudonym restoration, routing, partner routing and topology *)
(* hiding, and its answer back.  One message is routed at a time (module   *)
(* RelayRouter has the interleavings of RouteIn); connections come and go  *)
(* between its steps.                                                      *)
(***************************************************************************)
EXTENDS EdgePolicy, RouteTable

CONSTANTS
    RawConfig,       \* configurations as they are read from the file
    Obj,             \* Peer objects
    Cer,             \* what a peer may present: [zone, host, cert]
    Requests,        \* [Identity -> set of requests the node with that name may send]
    Answers,         \* [Identity -> set of answers]
    Alias,           \* pseudonyms newPseudonym can draw
    Ours,            \* the operator's own hosts
    MaxReq,          \* bound on the requests routed
    Reconnect        \* BOOLEAN: may a peer have a second connection?

ASSUME NamesAgree == None = NoName
ASSUME AliasAssumption == Alias \subseteq Identity

Config == {c \in {ApplyEdgeDefaults(raw) : raw \in RawConfig} : ValidateEdge(c)}
ASSUME SomeConfig == Config # {}
ASSUME HostAssumption ==
    /\ None \notin Identity /\ \A cer \in Cer : cer.host \in Identity
    /\ \A c \in Config : /\ \A pc \in Elems(c.peers) : pc.identity \in Identity
                        /\ \A p \in Elems(c.partners) :
                              /\ p.edgeIdentity \in Identity
                              /\ \A pp \in Elems(p.peers) : pp.identity \in Identity
ASSUME NameAssumption ==
    /\ Realm \subseteq Seq(STRING) /\ RealmOf \in [Identity -> Realm]
    /\ \A c \in Config : /\ c.partners \in Seq(Elems(c.partners))
                        /\ \A p \in Elems(c.partners) : \A pat \in p.realms : pat.name \in Seq(STRING)
ASSUME KindAssumption ==
    \A i \in Identity : /\ \A m \in Requests[i] : m.kind = "req"
                        /\ \A a \in Answers[i] : a.kind = "ans"
ASSUME RuleNames == \A k \in DOMAIN RuleOrder : RuleOrder[k] # NoName
ASSUME ScreeningAssumption ==
    \A c \in Config : \A p \in Elems(c.partners) : p.screening \in BOOLEAN \cup {NoName}

\* The AVPs of a message that the edge agent reads, and where it is to go.
Fields == {"kind", "oh", "or", "dh", "dr", "app", "cmd", "plmn", "imsi", "avps", "nested", "rr",
           "proxy", "erh"}
Target(m) == [host |-> m.dh, realm |-> m.dr, app |-> m.app]
ASSUME MessageAssumption ==
    \A i \in Identity : \A m \in Requests[i] \cup Answers[i] :
       DOMAIN m = Fields /\ Target(m) \in Destination /\ m.oh \in Identity \cup {None}

VARIABLES
    cfg,             \* the configuration in force
    conn,            \* the Peer objects: state, zone, host and partner
    bound,           \* Registry.boundPeers
    peers,           \* Server.peers
    job,             \* the message in RouteIn
    txn,             \* requests to answer, with their relay transactions: [out, orig]
    store,           \* pseudonyms: [alias, host]
    used,            \* pseudonyms drawn so far
    nreq,            \* requests received so far
    last             \* the message just handed to a connection, if any: from, was, msg and at
                     \* of its job, the connection, and whether it is an answer going back

connVars == <<conn, bound, peers>>
vars == <<cfg, connVars, job, txn, store, used, nreq, last>>

Nobody == [st |-> "new", zone |-> None, host |-> None, partner |-> None]
\* `at' is the connection the next hop led to when the message was hidden for it.
Idle == [pc |-> "idle", from |-> None, was |-> None, msg |-> None, excl |-> {}, next |-> None,
         at |-> None]

Init ==
    /\ cfg \in Config
    /\ conn = [o \in Obj |-> Nobody] /\ bound = [i \in Identity |-> None]
    /\ peers = [i \in Identity |-> None] /\ job = Idle
    /\ txn = {} /\ store = {} /\ used = {} /\ nreq = 0 /\ last = {}

-----------------------------------------------------------------------------
(* Connections                                                             *)

Fresh(o, host) ==
    conn[o].st = "new" /\ (Reconnect \/ \A x \in Obj : conn[x].host # host)

\* The accept policy of handleConnection: admitPeer, SetZone and BindPeer.
Accept(o, cer) ==
    LET zone == CHOOSE z \in Elems(EffectiveZones(cfg)) : z.name = cer.zone
        res  == AdmitPeer(cfg, bound, zone, cer.cert, cer.host, RealmOf[cer.host])
    IN  /\ Fresh(o, cer.host) /\ \E z \in Elems(EffectiveZones(cfg)) : z.name = cer.zone
        /\ res.ok
        /\ conn' = [conn EXCEPT ![o] = [st |-> "admitted", zone |-> cer.zone, host |-> cer.host,
                                        partner |-> res.partner]]
        /\ bound' = BindPeer(cfg, bound, cer.host, res.partner)
        /\ last' = {} /\ UNCHANGED <<cfg, peers, job, txn, store, used, nreq>>

\* connectToPeer: zone and partner come from the registry.
ConnectToPeer(o, pc) ==
    /\ Fresh(o, pc.identity)
    /\ conn' = [conn EXCEPT ![o] =
          [st |-> "admitted", zone |-> Default(pc.zone, ZoneNameForPeer(cfg, pc.identity)),
           host |-> pc.identity, partner |-> PartnerForPeer(cfg, bound, pc.identity)]]
    /\ last' = {} /\ UNCHANGED <<cfg, bound, peers, job, txn, store, used, nreq>>

\* The callback enters the open object in the table.
Open(o) ==
    /\ conn[o].st = "admitted"
    /\ conn' = [conn EXCEPT ![o].st = "open"] /\ peers' = [peers EXCEPT ![conn[o].host] = o]
    /\ last' = {} /\ UNCHANGED <<cfg, bound, job, txn, store, used, nreq>>

\* It takes the entry of its identity out, and then unbinds it.
Lose(o) ==
    /\ conn[o].st = "open" /\ job.from # o
    /\ conn' = [conn EXCEPT ![o].st = "lost"] /\ peers' = [peers EXCEPT ![conn[o].host] = None]
    /\ last' = {} /\ UNCHANGED <<cfg, bound, job, txn, store, used, nreq>>

Unbind(o) ==
    /\ conn[o].st = "lost" /\ conn' = [conn EXCEPT ![o].st = "gone"]
    /\ bound' = UnbindPeer(bound, conn[o].host)
    /\ last' = {} /\ UNCHANGED <<cfg, peers, job, txn, store, used, nreq>>

-----------------------------------------------------------------------------
(* RouteIn for a request                                                   *)

RcvRequest(o, m) ==
    /\ conn[o].st = "open" /\ job = Idle /\ nreq < MaxReq
    /\ m \in Requests[conn[o].host]
    /\ nreq' = nreq + 1 /\ last' = {}
    /\ job' = [Idle EXCEPT !.pc = "screen", !.from = o, !.was = m, !.msg = m]
    /\ UNCHANGED <<cfg, connVars, txn, store, used>>

\* restoreDestinationHost.
Restore(m) ==
    LET hit == {x \in store : x.alias = m.dh}
    IN  IF hit = {} \/ ~Configured(cfg) THEN m ELSE [m EXCEPT !.dh = (CHOOSE x \in hit : TRUE).host]

\* Proxy-Info of this node, which a relayed request carries and its answer brings back.
AddProxyInfo(m) == [m EXCEPT !.proxy = @ \cup {cfg.identity}]
RemoveLocalProxyInfo(m) == [m EXCEPT !.proxy = @ \ {cfg.identity}]

\* The incoming handlers; then Route-Record and Proxy-Info.  A request for this node
\* is dispatched, and one that has been here is refused.
ScreenRequest ==
    /\ job.pc = "screen"
    /\ LET m == Restore(job.msg) IN
       job' = IF \/ Screen(cfg, bound, conn[job.from], job.msg) # "pass"
                 \/ m.dh = cfg.identity \/ cfg.identity \in m.rr
              THEN Idle
              ELSE [job EXCEPT !.pc = "route",
                               !.msg = AddProxyInfo([m EXCEPT !.rr = @ \cup {cfg.identity}])]
    /\ UNCHANGED <<cfg, connVars, txn, store, used, nreq, last>>

\* The next hops RouteOutWithExclusion may return: no candidate, no handler.
NextHops(m, excl) ==
    LET cands == BuildCandidates(Target(m), {i \in Identity : peers[i] # None})
    IN  IF cands = {} THEN {}
        ELSE UNION {BestTier(cs, excl) : cs \in DeaRoute(cfg, bound, m, cands, 300)}

\* mask: what the Origin-Host may become: the edge identity, or the host's pseudonym,
\* drawn when there is none yet.  Without random bytes it is the edge identity again.
Aliases(p, host) ==
    LET known == {x.alias : x \in {x \in store : x.host = host}}
    IN  IF ~MustMask(cfg, p, host) THEN {host}
        ELSE IF p.mode # "stateful" THEN {p.edgeIdentity}
        ELSE IF known # {} THEN known ELSE (Alias \ used) \cup {p.edgeIdentity}

\* PutPseudonym, for one that was drawn just now.
Remember(alias, host) ==
    IF alias \in Alias \ used /\ alias # host
    THEN store' = store \cup {[alias |-> alias, host |-> host]} /\ used' = used \cup {alias}
    ELSE UNCHANGED <<store, used>>

\* The job goes on as j, its message hidden by the policy of the named partner.
HideFor(name, j) ==
    IF name = None \/ ~Configured(cfg) THEN job' = j /\ UNCHANGED <<store, used>>
    ELSE LET p == Partner(cfg, name) IN
         IF p.mode = "none" THEN job' = j /\ UNCHANGED <<store, used>>
         ELSE \E a \in Aliases(p, j.msg.oh) :
                 job' = [j EXCEPT !.msg = Hide(cfg, p, j.msg, a)] /\ Remember(a, j.msg.oh)

\* handlePostRoute: for a request, the partner of the peer that was selected, if its
\* zone is external.
PostRoutePartner(m, n) ==
    LET p == PartnerForPeer(cfg, bound, n)
    IN  IF m.kind # "req" \/ p = None THEN None
        ELSE IF IsExternalZone(cfg, Partner(cfg, p).zone) THEN p ELSE None

\* Choose the next hop and hide for it, before it is looked up.
ChooseHop ==
    /\ job.pc = "route"
    /\ \E n \in NextHops(job.msg, job.excl) :
          HideFor(PostRoutePartner(job.msg, n),
                  [job EXCEPT !.pc = "send", !.next = n, !.at = peers[n]])
    /\ UNCHANGED <<cfg, connVars, txn, nreq, last>>

\* DIAMETER_UNABLE_TO_DELIVER.
NoHop ==
    /\ job.pc = "route" /\ NextHops(job.msg, job.excl) = {} /\ job' = Idle
    /\ UNCHANGED <<cfg, connVars, txn, store, used, nreq, last>>

Sent(o, m, back) ==
    last' = {[from |-> job.from, to |-> o, was |-> job.was, msg |-> m, at |-> job.at, back |-> back]}

\* Only a request is entered in the peer's pending table, so that an answer may find the
\* transaction that was stored.
SendRequest ==
    LET t == peers[job.next] IN
    /\ job.pc = "send" /\ t # None
    /\ Sent(t, job.msg, FALSE) /\ job' = Idle
    /\ txn' = IF job.msg.kind = "req"
              THEN txn \cup {[out |-> job.next, orig |-> conn[job.from].host]} ELSE txn
    /\ UNCHANGED <<cfg, connVars, store, used, nreq>>

\* The next hop is not connected or does not take the message.
SendFails ==
    /\ job.pc = "send"
    /\ job' = [job EXCEPT !.pc = "route", !.excl = @ \cup {job.next}]
    /\ UNCHANGED <<cfg, connVars, txn, store, used, nreq, last>>

-----------------------------------------------------------------------------
(* RouteIn for an answer                                                   *)

MutAnswerPartner(t) == PartnerForPeer(cfg, bound, t.out)

\* answerPartner: RelayOrigin says where the answer is going.
AnswerPartner(t) == PartnerForPeer(cfg, bound, t.orig)

\* What a look at a transaction finds: FailoverPeer and sweepExpired may have taken it out.
Found(orig) == {orig, None}

\* The connection the table has for a previous hop, if it is known and connected.
Previous(i) == IF i = None THEN None ELSE peers[i]

\* An answer to a pending request, hidden for the previous hop that RelayOrigin found.
RcvAnswer(o, t, a) ==
    /\ conn[o].st = "open" /\ job = Idle /\ t \in txn /\ t.out = conn[o].host
    /\ a \in Answers[conn[o].host]
    /\ txn' = txn \ {t} /\ last' = {}
    /\ \E i \in Found(t.orig) :
          HideFor(AnswerPartner([t EXCEPT !.orig = i]),
                  [Idle EXCEPT !.pc = "back", !.from = o, !.was = a, !.msg = a, !.next = i,
                               !.at = Previous(i)])
    /\ UNCHANGED <<cfg, connVars, nreq>>

\* To the previous hop that LoadAndDelete finds, less the Proxy-Info of this node; one
\* that does not take the answer does not get it.  Without a previous hop the answer goes
\* on as a request does: it is for this node or looks for a next hop.
SendBack ==
    \E i \in Found(job.next) :
       LET t == Previous(i)
           m == IF i = None THEN job.msg ELSE RemoveLocalProxyInfo(job.msg)
       IN  /\ job.pc = "back"
           /\ \/ t # None /\ job' = Idle /\ Sent(t, m, TRUE)
              \/ (t # None \/ m.dh = cfg.identity) /\ job' = Idle /\ last' = last
              \/ /\ t = None /\ m.dh # cfg.identity /\ last' = last
                 /\ job' = [job EXCEPT !.pc = "route", !.msg = [m EXCEPT !.rr = @ \cup {cfg.identity}]]
           /\ UNCHANGED <<cfg, connVars, txn, store, used, nreq>>

\* The store may drop an entry at any time: its time is up, or others need the room.
Forget(x) ==
    /\ x \in store /\ store' = store \ {x} /\ last' = {}
    /\ UNCHANGED <<cfg, connVars, job, txn, used, nreq>>

RouteIn ==
    ScreenRequest \/ ChooseHop \/ NoHop \/ SendRequest \/ SendFails \/ SendBack

Next ==
    \/ \E o \in Obj :
          \/ \E cer \in Cer : Accept(o, cer)
          \/ \E pc \in Elems(cfg.peers) : ConnectToPeer(o, pc)
          \/ Open(o) \/ Lose(o) \/ Unbind(o)
          \/ \E m \in Requests[conn[o].host] : RcvRequest(o, m)
          \/ \E t \in txn : \E a \in Answers[conn[o].host] : RcvAnswer(o, t, a)
    \/ RouteIn
    \/ \E x \in store : Forget(x)

Spec == Init /\ [][Next]_vars

-----------------------------------------------------------------------------
(* Properties                                                              *)

External(o) == IsExternalZone(cfg, conn[o].zone)
PartnerOf(o) == Partner(cfg, conn[o].partner)

\* A connection whose identity is part of the configuration, not only of the traffic.
Listed(o) ==
    \/ StaticPartner(cfg, conn[o].host) # None
    \/ \E pc \in Elems(cfg.peers) : pc.identity = conn[o].host

\* Screening that refuses what breaks any of its rules.
Enforced(p) ==
    /\ p.screening # FALSE /\ p.action # "log" /\ Optional \subseteq p.checks
    /\ \A r \in DOMAIN p.ruleActions : p.ruleActions[r] # "log"

\* What RightPartner and Hidden need of a configuration and of the peers: partners are
\* outside, and every other peer of the configuration is inside and stays there.
PartnersOutside ==
    \A c \in Config :
       /\ \A p \in Elems(c.partners) : IsExternalZone(c, p.zone)
       /\ \A pc \in Elems(c.peers) :
             IF StaticPartner(c, pc.identity) # NoName
             THEN IsExternalZone(c, Default(pc.zone, ZoneNameForPeer(c, pc.identity)))
             ELSE /\ ~IsExternalZone(c, Default(pc.zone, ZoneNameForPeer(c, pc.identity)))
                  /\ \A cer \in Cer : cer.host = pc.identity => ~IsExternalZone(c, cer.zone)

\* What RightPartner needs of the realms: a request that keeps to the realms of one
\* partner is not, by its origin, one of another partner or of the operator.
RealmsApart ==
    \A c \in Config : \A p \in Elems(c.partners) : \A i \in Identity : \A m \in Requests[i] :
       RealmMatches(m.or, p.realms) /\ HostInRealm(m.oh, m.or) =>
          /\ PartnerForRealm(c, m.or) = p.name /\ StaticPartner(c, m.oh) \in {NoName, p.name}
          /\ PartnerForRealm(c, RealmOf[m.oh]) \in {NoName, p.name} /\ ~IsInternalHost(c, m.oh)

\* What Hidden needs: the registry knows the operator's hosts, no pseudonym is one of
\* them, and the partners that hide see one outward realm.
OursInside ==
    /\ Alias \cap Ours = {}
    /\ \A c \in Config :
          /\ \A h \in Ours : IsInternalHost(c, h)
          /\ \A p, q \in Elems(c.partners) : p.mode # "none" /\ q.mode # "none" =>
                p.hideOriginRealm = q.hideOriginRealm /\ p.pseudonymRealm = q.pseudonymRealm

\* dea_screening.go:182: "On an external zone only the peer identity is trusted": a
\* request that gets through comes from a partner, namely the one its connection was
\* admitted as, and keeps to that partner's realms and applications.
Judged ==
    \A d \in last : d.was.kind = "req" /\ External(d.from) =>
        /\ conn[d.from].partner # None
        /\ LET p == PartnerOf(d.from) IN
           Enforced(p) => /\ RealmMatches(d.was.or, p.realms) /\ HostInRealm(d.was.oh, d.was.or)
                          /\ p.apps = {} \/ d.was.app \in p.apps

\* What Judged needs of a configuration and of the peers: a peer comes to one zone, and
\* a configured peer whose zone is external belongs to a partner.  validateEdge asks the
\* second of a peer that names its zone, not of one that falls to the default zone.
OneZone ==
    /\ \A c1, c2 \in Cer : c1.host = c2.host => c1.zone = c2.zone
    /\ \A c \in Config : \A pc \in Elems(c.peers) :
          IsExternalZone(c, Default(pc.zone, ZoneNameForPeer(c, pc.identity)))
             => StaticPartner(c, pc.identity) # NoName

\* The destination of m is one of partner q: its realm, or a host that q lists or that
\* was admitted by its realm.
Owns(q, m) ==
    \/ RealmMatches(m.dr, q.realms)
    \/ \E pp \in Elems(q.peers) : pp.identity = m.dh
    \/ m.dh # None /\ RealmMatches(RealmOf[m.dh], q.realms)

\* dea-reference.md:349-353: a message from one partner is never handed to another
\* without allow_transit, and an external peer never receives one it does not own the
\* destination of; here for the peers the configuration lists.
RightPartner ==
    \A d \in last : d.was.kind = "req" /\ External(d.to) /\ Listed(d.to) =>
        /\ conn[d.to].partner # None
        /\ LET q == PartnerOf(d.to) IN
           /\ Owns(q, d.msg)
           /\ External(d.from) /\ conn[d.from].partner # q.name /\ Enforced(PartnerOf(d.from))
                 => PartnerOf(d.from).allowTransit

\* What a message says of the network it comes from, as far as q asks to have it hidden.
Disclosed(q, m) ==
    {m.oh} \cup (IF q.hideErrorHost THEN {m.erh} ELSE {})
           \cup (IF q.hideRouteRecords THEN m.rr ELSE {})
           \cup (IF q.hideProxyInfo THEN m.proxy ELSE {})

\* What Hidden needs: an answer says nothing of where it is to go.
PlainAnswers == \A i \in Identity : \A a \in Answers[i] : a.dh = None /\ a.dr = None

\* What a partner that has topology hiding receives names no internal host but the
\* edge identity, and no internal realm; an answer that goes back inside is left as it was.
Conceals(d) ==
    IF External(d.to)
    THEN LET q == PartnerOf(d.to) IN
         conn[d.to].partner # None /\ q.mode # "none" =>
            /\ Disclosed(q, d.msg) \cap Ours \subseteq {q.edgeIdentity}
            /\ d.msg.oh # d.was.oh /\ q.hideOriginRealm => d.msg.or \in {None, q.pseudonymRealm}
    ELSE d.back => d.msg.oh = d.was.oh /\ d.msg.erh = d.was.erh

\* dea-reference.md:321: "On egress to a partner the extension masks `Origin-Host`".  The
\* code contradicts it for a peer admitted by its realm: what counts is the binding of its
\* host when the hop is chosen.  The peer may be admitted after that and before the hop is
\* looked up, or the late callback of an earlier connection may take the binding away.
AllHidden == \A d \in last : Conceals(d)

\* The only connection its host has had.
Sole(o) == \A x \in Obj \ {o} : conn[x].host # conn[o].host

\* What does hold: it conceals from the peers the configuration lists, and from those
\* admitted by their realm, as long as they were connected when the hop was chosen, or
\* the answer received, and have not been connected before or since.
Hidden ==
    \A d \in last : Listed(d.to) \/ (External(d.to) /\ Sole(d.to) /\ d.at = d.to) => Conceals(d)

=============================================================================
