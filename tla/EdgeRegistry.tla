---------------------------- MODULE EdgeRegistry ----------------------------
(***************************************************************************)
(* The edge model of pkg/core/config/edge.go and the index pkg/core/edge   *)
(* builds from it: zones, roaming partners, who owns a peer or a realm and *)
(* what the operator's own network is.                                     *)
(*                                                                         *)
(* A name is the sequence of its labels from the right ("a.b.com" is       *)
(* <<com, b, a>>), in the normal form of normalize(): a suffix of the text *)
(* is a prefix here.  A realm pattern "*.b.com" is [wild |-> TRUE, name].  *)
(* A configuration is a record; None is an option that is not set.         *)
(***************************************************************************)
EXTENDS Integers, Sequences, FiniteSets, SequencesExt

CONSTANT NoName      \* an option, a partner or a name that is absent

Elems(s) == {s[k] : k \in DOMAIN s}
Default(v, d) == IF v = NoName THEN d ELSE v

-----------------------------------------------------------------------------
(* Names and realms                                                        *)

\* RealmMatches for one pattern: "*." matches strict subdomains only.
PatternMatches(realm, pat) ==
    IF pat.wild THEN IsStrictPrefix(pat.name, realm) ELSE realm = pat.name

RealmMatches(realm, patterns) ==
    realm # NoName /\ \E pat \in patterns : PatternMatches(realm, pat)

HostInRealm(host, realm) == host # NoName /\ realm # NoName /\ IsPrefix(realm, host)

\* hostRealm: all but the first label.
HostRealm(host) == IF Len(host) > 1 THEN Front(host) ELSE host

-----------------------------------------------------------------------------
(* Configuration: defaults and validation                                  *)

\* The zone a configuration without zones gets.
ImplicitZone(c) ==
    [name |-> "default", role |-> "internal", realms |-> {}, requireCert |-> FALSE,
     tls |-> FALSE, verifyPeer |-> FALSE, caFile |-> FALSE, allowUnknown |-> c.allowUnknown,
     allowIdentities |-> c.allowIdentities]

EffectiveZones(c) == IF c.zones # <<>> THEN c.zones ELSE <<ImplicitZone(c)>>

\* applyEdgeDefaults.
ZoneDefaults(z) == [z EXCEPT !.role = Default(@, "internal")]
PartnerDefaults(c, p) ==
    [p EXCEPT !.peers = [k \in DOMAIN @ |-> [@[k] EXCEPT !.weight = IF @ = 0 THEN 1 ELSE @]],
              !.action = Default(@, "reject"), !.mode = Default(@, "none"),
              !.edgeIdentity = Default(@, c.identity), !.pseudonymRealm = Default(@, c.realm)]
ApplyEdgeDefaults(c) ==
    [c EXCEPT !.zones = [k \in DOMAIN @ |-> ZoneDefaults(@[k])],
              !.partners = [k \in DOMAIN @ |-> PartnerDefaults(c, @[k])]]

Distinct(s) == \A j, k \in DOMAIN s : s[j] = s[k] => j = k
Action == {"reject", "drop", "log"}

ValidZone(z) ==
    /\ z.role \in {"internal", "external"}
    /\ z.requireCert => z.tls /\ z.verifyPeer
    /\ z.tls /\ z.verifyPeer => z.caFile
    /\ ~(z.role = "external" /\ z.allowUnknown)

ValidPartner(c, p) ==
    /\ \E z \in Elems(c.zones) : z.name = p.zone
    /\ p.realms # {}
    /\ \A pp \in Elems(p.peers) : pp.weight >= 0
    /\ p.action \in Action /\ \A r \in DOMAIN p.ruleActions : p.ruleActions[r] \in Action
    /\ p.maxRouteRecords >= 0 /\ p.mode \in {"none", "static", "stateful"}

\* peerOwner: the partners that list a peer, and that none is listed twice.
Owners(c, id) == {p \in Elems(c.partners) : \E pp \in Elems(p.peers) : pp.identity = id}
OnceListed(c) ==
    \A j, k \in DOMAIN c.partners :
       \A x \in DOMAIN c.partners[j].peers, y \in DOMAIN c.partners[k].peers :
          c.partners[j].peers[x].identity = c.partners[k].peers[y].identity => j = k /\ x = y

\* A configured peer on an external zone has to belong to a partner.
ValidPeer(c, pc) ==
    pc.zone # NoName =>
        \E z \in Elems(c.zones) :
            z.name = pc.zone /\ (z.role = "external" => Owners(c, pc.identity) # {})

ValidateEdge(c) ==
    /\ Distinct([k \in DOMAIN c.zones |-> c.zones[k].name])
    /\ Distinct([k \in DOMAIN c.partners |-> c.partners[k].name])
    /\ OnceListed(c)
    /\ \A z \in Elems(c.zones) : ValidZone(z)
    /\ \A p \in Elems(c.partners) : ValidPartner(c, p)
    /\ \A pc \in Elems(c.peers) : ValidPeer(c, pc)

-----------------------------------------------------------------------------
(* The registry of a valid configuration                                   *)

IsExternalZone(c, name) == \E z \in Elems(EffectiveZones(c)) : z.name = name /\ z.role = "external"

\* The first internal zone, or else the first zone.
DefaultZone(c) ==
    LET zs == SelectSeq(EffectiveZones(c), LAMBDA z : z.role # "external")
    IN  IF zs # <<>> THEN zs[1].name ELSE EffectiveZones(c)[1].name

Configured(c) == c.zones # <<>> \/ c.partners # <<>>

Partners(c) == {c.partners[k].name : k \in DOMAIN c.partners}
Partner(c, name) == CHOOSE p \in Elems(c.partners) : p.name = name

\* partnerByPeer.
StaticPartner(c, id) ==
    IF Owners(c, id) = {} THEN NoName ELSE (CHOOSE p \in Owners(c, id) : TRUE).name

\* peerZone, where the zone of the peer's own entry overrides that of its partner.
PeerZone(c, id) ==
    LET own == {pc \in Elems(c.peers) : pc.identity = id}
        set == {pc.zone : pc \in own} \ {NoName}
        p   == StaticPartner(c, id)
    IN  CASE set # {} -> CHOOSE z \in set : TRUE
          [] set = {} /\ p # NoName -> Partner(c, p).zone
          [] set = {} /\ p = NoName /\ own # {} -> DefaultZone(c)
          [] OTHER -> NoName

ZoneNameForPeer(c, id) == Default(PeerZone(c, id), DefaultZone(c))

\* PartnerForPeer; `bound' are the partners of the peers admitted by their realm.
PartnerForPeer(c, bound, id) ==
    IF id = NoName THEN NoName
    ELSE IF StaticPartner(c, id) # NoName THEN StaticPartner(c, id)
    ELSE IF bound[id] \in Partners(c) THEN bound[id] ELSE NoName

BindPeer(c, bound, id, partner) ==
    IF partner = NoName \/ StaticPartner(c, id) # NoName THEN bound
    ELSE [bound EXCEPT ![id] = partner]
UnbindPeer(bound, id) == [bound EXCEPT ![id] = NoName]

\* The realm patterns of the partners, with their owners.
Owned(c) == {[owner |-> k, pat |-> pat] : k \in DOMAIN c.partners,
                                         pat \in UNION {p.realms : p \in Elems(c.partners)}}
OwnedPatterns(c) == {x \in Owned(c) : x.pat \in c.partners[x.owner].realms}

\* Exact realms first, where the last partner that lists one has it; then the
\* longest suffix, and the first partner that lists that.
PartnerForRealm(c, realm) ==
    LET fits  == {x \in OwnedPatterns(c) : realm # NoName /\ PatternMatches(realm, x.pat)}
        exact == {x.owner : x \in {y \in fits : ~y.pat.wild}}
        best  == {x.owner : x \in {y \in fits : \A z \in fits : Len(z.pat.name) <= Len(y.pat.name)}}
    IN  CASE exact # {} -> c.partners[CHOOSE k \in exact : \A j \in exact : j <= k].name
          [] exact = {} /\ fits # {} -> c.partners[CHOOSE k \in best : \A j \in best : k <= j].name
          [] OTHER -> NoName

\* internalPeer in rebuildServedLocked.
InternalPeer(c, id) ==
    StaticPartner(c, id) = NoName /\ ~IsExternalZone(c, PeerZone(c, id))

\* rebuildServedLocked: the realms this agent terminates, as patterns.
Served(c) ==
    LET exact(S) == {[wild |-> FALSE, name |-> r] : r \in S \ {NoName}}
    IN  exact({c.realm})
          \cup UNION {z.realms : z \in {z \in Elems(c.zones) : z.role # "external"}}
          \cup exact({pc.realm : pc \in {pc \in Elems(c.peers) : InternalPeer(c, pc.identity)}})
          \cup exact({r \in DOMAIN c.realmRoutes :
                         /\ c.realmRoutes[r] # {}
                         /\ \A hop \in c.realmRoutes[r] : InternalPeer(c, hop)})

ServesRealm(c, realm) == RealmMatches(realm, Served(c))

\* IsInternalHost: what topology hiding masks.
IsInternalHost(c, host) ==
    /\ host # NoName
    /\ \/ host = c.identity
       \/ /\ StaticPartner(c, host) = NoName
          /\ \/ PeerZone(c, host) # NoName /\ ~IsExternalZone(c, PeerZone(c, host))
             \/ /\ PeerZone(c, host) = NoName
                /\ \A x \in OwnedPatterns(c) :
                      IF x.pat.wild THEN ~IsStrictPrefix(x.pat.name, host)
                      ELSE HostRealm(host) # x.pat.name
                /\ \E pat \in Served(c) :
                      IF pat.wild THEN IsStrictPrefix(pat.name, host)
                      ELSE HostInRealm(host, pat.name)

=============================================================================
