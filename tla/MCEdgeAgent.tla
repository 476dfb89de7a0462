---------------------------- MODULE MCEdgeAgent -----------------------------
(* An edge agent with two partners, for TLC.                               *)
EXTENDS EdgeAgent

\* op.net is the agent's realm, core.net is behind it; pa.com and pb.com are partners.
dea  == <<"net", "op", "dea">>
edge == <<"net", "op", "edge">>
hss  == <<"net", "core", "hss">>
mme  == <<"net", "core", "x", "mme">>
draA == <<"com", "pa", "dra">>
gwA  == <<"com", "pa", "gw">>
draB == <<"com", "pb", "dra">>
lone == <<"com", "pb", "lone">>
th1  == <<"net", "op", "th1">>
op == <<"net", "op">>
core == <<"net", "core">>
pa == <<"com", "pa">>
pb == <<"com", "pb">>

Zone(name, role, realms, ids) ==
    [name |-> name, role |-> role, realms |-> realms, requireCert |-> role = "external",
     tls |-> TRUE, verifyPeer |-> TRUE, caFile |-> TRUE, allowUnknown |-> FALSE,
     allowIdentities |-> ids]
PartnerNamed(name, realm, peer, mode, transit, apps) ==
    [name |-> name, zone |-> "ext", realms |-> {[wild |-> w, name |-> realm] : w \in BOOLEAN},
     peers |-> <<[identity |-> peer, priority |-> 0, weight |-> 0]>>, plmns |-> {<<0, 0, 1, 0, 1>>},
     apps |-> apps, cmds |-> {}, allowTransit |-> transit, screening |-> NoName,
     checks |-> Optional, ruleActions |-> <<>>, action |-> NoName, deny |-> {"bad"}, allow |-> {},
     maxRouteRecords |-> 2, mode |-> mode, edgeIdentity |-> edge, pseudonymRealm |-> NoName,
     hideOriginRealm |-> TRUE, hideRouteRecords |-> TRUE, hideErrorHost |-> ~transit,
     hideProxyInfo |-> TRUE, scrub |-> {"ip"}]
Base(transit) ==
    [identity |-> dea, realm |-> op, allowUnknown |-> FALSE, allowIdentities |-> {},
     zones |-> <<Zone("int", NoName, {[wild |-> FALSE, name |-> core]}, {}),
                 Zone("ext", "external", {}, {lone})>>,
     partners |-> <<PartnerNamed("pa", pa, draA, "stateful", transit, {1}),
                    PartnerNamed("pb", pb, draB, "static", FALSE, {})>>,
     peers |-> <<[identity |-> hss, zone |-> "int", realm |-> core]>>,
     realmRoutes |-> (core :> {hss})]

\* The third has a peer on the external zone that belongs to no partner; it is refused.
MCRawConfig == {Base(FALSE), Base(TRUE),
                [Base(FALSE) EXCEPT !.peers = Append(@, [identity |-> lone, zone |-> "ext", realm |-> core])]}

MCIdentity == {dea, edge, hss, mme, draA, gwA, draB, lone, th1}
MCRealm == {op, core, pa, pb}
MCRealmOf == [i \in MCIdentity |-> CASE i \in {draA, gwA} -> pa [] i = draB -> pb [] i = lone -> core
                                     [] i \in {hss, mme} -> core [] OTHER -> op]
MCHostRoutes == [i \in MCIdentity |-> NoName]
MCRealmRoutes == [r \in MCRealm |-> CASE r = core -> {hss, lone} [] r = pa -> {draA} [] OTHER -> {}]
MCAppRoutes == [a \in {1, 2} |-> IF a = 2 THEN <<draB, lone>> ELSE <<hss>>]

MCCer == {[zone |-> "ext", host |-> h, cert |-> {[wild |-> TRUE, name |-> HostRealm(h)]}] : h \in {draA, gwA, draB, lone}}

Message(kind, oh, or, dh, dr, app) ==
    [kind |-> kind, oh |-> oh, or |-> or, dh |-> dh, dr |-> dr, app |-> app, cmd |-> 1,
     plmn |-> NoName, imsi |-> NoName, avps |-> {"ip"}, nested |-> {}, rr |-> {}, proxy |-> {}, erh |-> NoName]
Ans(oh, or, app) == [Message("ans", oh, or, NoName, NoName, app) EXCEPT !.erh = oh, !.proxy = {dea}]

MCRequests == [i \in MCIdentity \cup {NoName} |->
    CASE i = draA -> {Message("req", draA, pa, NoName, core, 1), Message("req", draA, pa, th1, core, 1),
                      Message("req", draA, pa, NoName, pb, 1), Message("req", draA, pb, NoName, core, 1)}
      [] i = gwA  -> {Message("req", gwA, pa, NoName, core, 1)}
      [] i = lone -> {Message("req", lone, pb, NoName, core, 1)}
      [] i = hss  -> {Message("req", mme, core, NoName, pa, 1), Message("req", hss, core, gwA, pa, 1),
                      Message("req", hss, core, NoName, pa, 2), Message("req", hss, core, NoName, pb, 1),
                      Message("req", hss, core, gwA, pb, 1)}
      [] OTHER -> {}]
MCAnswers == [i \in MCIdentity \cup {NoName} |->
    CASE i = hss -> {Ans(mme, core, 1)} [] i \in {draA, gwA} -> {Ans(i, pa, 2)} [] i = draB -> {Ans(i, pb, 1)} [] OTHER -> {}]
MCOurs == {dea, edge, hss, mme}
MCAlias == {th1}
\* The preconditions of Judged, RightPartner and Hidden.
ASSUME PeersHaveOneZone == OneZone
ASSUME PartnersAreOutside == PartnersOutside
ASSUME RealmsAreApart == RealmsApart
ASSUME OursAreInside == OursInside
ASSUME AnswersArePlain == PlainAnswers
ObjSymmetry == Permutations(Obj)
=============================================================================
