----------------------------- MODULE EdgePolicy -----------------------------
(***************************************************************************)
(* The decisions of the edge agent, as operators of the configuration:     *)
(* admission of a peer (pkg/core/server/zones.go), ingress screening       *)
(* (dea_screening), partner routing (dea_route) and topology hiding        *)
(* (dea_topohide).                                                         *)
(*                                                                         *)
(* A message is a record of the AVPs they read; a PLMN and an IMSI are     *)
(* sequences of digits, and an AVP is its selector.                        *)
(***************************************************************************)
EXTENDS EdgeRegistry

-----------------------------------------------------------------------------
(* Admission                                                               *)

\* certIdentityMatches: `cert' holds the CN and the DNS SANs, empty without a certificate.
CertIdentityMatches(cert, host) == \E id \in cert : PatternMatches(host, id)

AllowedByZonePolicy(zone, host) == zone.allowUnknown \/ host \in zone.allowIdentities

\* admitPeer: whether a peer may connect on a zone, and as which partner.
AdmitPeer(c, bound, zone, cert, host, realm) ==
    LET owner   == PartnerForPeer(c, bound, host)
        claims  == PartnerForRealm(c, realm)
        entries == {pc \in Elems(c.peers) : pc.identity = host}
        no      == [ok |-> FALSE, partner |-> NoName]
        yes(p)  == [ok |-> TRUE, partner |-> p]
    IN  CASE zone.requireCert /\ ~CertIdentityMatches(cert, host) -> no
          [] OTHER ->
             IF owner # NoName
             THEN IF Partner(c, owner).zone = zone.name /\ RealmMatches(realm, Partner(c, owner).realms)
                  THEN yes(owner) ELSE no
             ELSE IF zone.role = "external" /\ claims # NoName /\ Partner(c, claims).zone = zone.name
             THEN yes(claims)
             ELSE IF AllowedByZonePolicy(zone, host) THEN yes(NoName)
             ELSE IF zone.role # "external"
                       /\ \E pc \in entries : pc.zone \in {NoName, zone.name} /\ pc.realm \in {NoName, realm}
             THEN yes(NoName) ELSE no

-----------------------------------------------------------------------------
(* Screening                                                               *)

RuleOrder == <<"origin_realm", "origin_host", "peer_identity", "destination_realm", "application",
               "command", "plmn", "avp_denied", "avp_not_allowed", "route_records">>

\* The rules a partner's check_* options turn off one by one.
Optional == {"origin_realm", "origin_host", "peer_identity", "destination_realm", "application",
             "command", "plmn"}

\* plmnMatches: a two-digit MNC equals the three-digit one with a leading zero.
Wide(plmn) == IF Len(plmn) = 5 THEN SubSeq(plmn, 1, 3) \o <<0>> \o SubSeq(plmn, 4, 5) ELSE plmn
PlmnMatches(plmn, plmns) == \E p \in plmns : Wide(p) = Wide(plmn)
ImsiMatches(imsi, plmns) == \E p \in plmns : IsPrefix(p, imsi)

Violates(c, p, id, m, rule) ==
    CASE rule = "origin_realm"      -> ~RealmMatches(m.or, p.realms)
      [] rule = "origin_host"       -> m.oh = NoName \/ (m.or # NoName /\ ~HostInRealm(m.oh, m.or))
      [] rule = "peer_identity"     -> m.oh \notin {NoName, id} /\ ~RealmMatches(m.or, p.realms)
      [] rule = "destination_realm" -> ~p.allowTransit /\ ~ServesRealm(c, m.dr)
      [] rule = "application"       -> p.apps # {} /\ m.app \notin p.apps
      [] rule = "command"           -> p.cmds # {} /\ m.cmd \notin p.cmds
      [] rule = "plmn"              -> /\ p.plmns # {}
                                       /\ \/ m.plmn # NoName /\ ~PlmnMatches(m.plmn, p.plmns)
                                          \/ m.imsi # NoName /\ ~ImsiMatches(m.imsi, p.plmns)
      [] rule = "avp_denied"        -> p.deny \cap (m.avps \cup m.nested) # {}
      [] rule = "avp_not_allowed"   -> p.allow # {} /\ ~(m.avps \subseteq p.allow)
      [] rule = "route_records"     -> p.maxRouteRecords > 0 /\ Cardinality(m.rr) > p.maxRouteRecords

\* evaluate: the first rule that is violated.
Evaluate(c, p, id, m) ==
    LET bad == {k \in DOMAIN RuleOrder :
                   /\ RuleOrder[k] \in Optional => RuleOrder[k] \in p.checks
                   /\ Violates(c, p, id, m, RuleOrder[k])}
    IN  IF bad = {} THEN NoName ELSE RuleOrder[CHOOSE k \in bad : \A j \in bad : k <= j]

\* violate and enforce: what becomes of the message.
Enforce(p, rule) ==
    IF rule = NoName THEN "pass"
    ELSE LET action == IF rule \in DOMAIN p.ruleActions THEN p.ruleActions[rule] ELSE p.action
         IN  IF action = "log" THEN "pass" ELSE action

MutPartnerFor(c, bound, o, m) ==
    LET r == PartnerForRealm(c, m.or)
    IN  IF r # NoName THEN r ELSE IF o.partner \in Partners(c) THEN o.partner
        ELSE PartnerForPeer(c, bound, o.host)

\* partnerFor: the partner whose policy judges a request; on an external zone the
\* message's own claims do not count.
PartnerFor(c, bound, o, m) ==
    IF o.partner \in Partners(c) THEN o.partner
    ELSE IF PartnerForPeer(c, bound, o.host) # NoName THEN PartnerForPeer(c, bound, o.host)
    ELSE IF IsExternalZone(c, o.zone) THEN NoName ELSE PartnerForRealm(c, m.or)

\* ScreeningEnabled: unless the partner says, external zones are screened.
ScreeningEnabled(p, external) == Default(p.screening, external)

\* handleRouting of dea_screening, for a request that came on connection o.
Screen(c, bound, o, m) ==
    LET name == PartnerFor(c, bound, o, m)
        p    == Partner(c, name)
    IN  IF name = NoName THEN (IF IsExternalZone(c, o.zone) THEN "reject" ELSE "pass")
        ELSE IF ~ScreeningEnabled(p, IsExternalZone(c, o.zone)) THEN "pass"
        ELSE Enforce(p, Evaluate(c, p, o.host, m))

-----------------------------------------------------------------------------
(* Partner routing                                                         *)

\* destinationPartner and originPartnerOf.
OwnerOf(c, bound, host, realm) ==
    IF PartnerForPeer(c, bound, host) # NoName THEN PartnerForPeer(c, bound, host)
    ELSE PartnerForRealm(c, realm)

MutDropForeignExternal(c, bound, cands, dest) == cands

\* dropForeignExternal.
DropForeignExternal(c, bound, cands, dest) ==
    {x \in cands : LET p == PartnerForPeer(c, bound, x.peer)
                   IN  ~(p # NoName /\ IsExternalZone(c, Partner(c, p).zone) /\ p # dest)}

\* applyPartnerPeers: a score by priority, and one more for the winner of each tier.
Priorities(p) == {pp.priority : pp \in Elems(p.peers)}
Winners(p) ==
    {w \in [Priorities(p) -> {pp.identity : pp \in Elems(p.peers)}] :
        \A pp \in Priorities(p) : \E q \in Elems(p.peers) : q.identity = w[pp] /\ q.priority = pp}
PartnerRoutes(p, w, baseScore) ==
    {[peer  |-> pp.identity,
      score |-> baseScore - 10 * pp.priority + (IF w[pp.priority] = pp.identity THEN 1 ELSE 0)] :
         pp \in Elems(p.peers)}

\* handleRouting of dea_route: the candidate sets it may return.
DeaRoute(c, bound, m, cands, baseScore) ==
    LET dest   == OwnerOf(c, bound, m.dh, m.dr)
        origin == OwnerOf(c, bound, m.oh, m.or)
        kept   == DropForeignExternal(c, bound, cands, dest)
    IN  IF ~Configured(c) THEN {cands}
        ELSE IF origin # NoName /\ dest # NoName /\ origin # dest /\ ~Partner(c, origin).allowTransit
        THEN {{}}
        ELSE IF dest = NoName THEN {kept}
        ELSE IF Partner(c, dest).peers = <<>> THEN {kept}
        ELSE {kept \cup PartnerRoutes(Partner(c, dest), w, baseScore) : w \in Winners(Partner(c, dest))}

-----------------------------------------------------------------------------
(* Topology hiding                                                         *)

\* mustMask.
MustMask(c, p, host) == host \notin {NoName, p.edgeIdentity} /\ IsInternalHost(c, host)

\* hide; `alias' is what mask() returns for the Origin-Host, and the flags are the hide_*
\* options.  Host-IP-Address, Origin-State-Id and the other scrubbed AVPs are `scrub'.
Hide(c, p, m, alias) ==
    LET masked == MustMask(c, p, m.oh)
        rr     == IF p.hideRouteRecords THEN {h \in m.rr : ~MustMask(c, p, h)} ELSE m.rr
    IN  [m EXCEPT
          !.oh   = IF masked THEN alias ELSE @,
          !.or   = IF masked /\ p.hideOriginRealm /\ @ # NoName THEN p.pseudonymRealm ELSE @,
          !.erh  = IF p.hideErrorHost /\ MustMask(c, p, @) THEN p.edgeIdentity ELSE @,
          !.proxy = IF p.hideProxyInfo THEN {h \in @ : ~MustMask(c, p, h)} ELSE @,
          !.avps = @ \ p.scrub,
          !.rr   = IF p.hideRouteRecords /\ m.kind = "req" THEN rr \cup {p.edgeIdentity} ELSE rr]

=============================================================================
