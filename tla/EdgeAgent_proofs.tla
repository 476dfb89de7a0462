-------------------------- MODULE EdgeAgent_proofs --------------------------
(* Theorems about the edge agent, for every valid configuration, every set of *)
(* peers and every message they send.                                        *)
EXTENDS EdgeAgent, WellFoundedInduction, NaturalsInduction, TLAPS

-----------------------------------------------------------------------------
(* The registry.                                                             *)

\* The owner of a peer, or nobody.
LEMMA OwnerKnown ==
    ASSUME NEW c, NEW b, NEW id
    PROVE  PartnerForPeer(c, b, id) \in Partners(c) \cup {NoName}
<1>1. StaticPartner(c, id) \in Partners(c) \cup {NoName}
  <2>1. CASE Owners(c, id) = {}
    BY <2>1 DEF StaticPartner
  <2>2. CASE Owners(c, id) # {}
    <3>1. PICK p \in Owners(c, id) : p = CHOOSE x \in Owners(c, id) : TRUE
      BY <2>2
    <3>2. StaticPartner(c, id) = p.name
      BY <2>2, <3>1 DEF StaticPartner
    <3>3. p \in Elems(c.partners)
      BY DEF Owners
    <3> QED  BY <3>2, <3>3 DEF Elems, Partners
  <2> QED  BY <2>1, <2>2
<1> QED  BY <1>1 DEF PartnerForPeer

\* A named partner of the configuration is one of its partners.
LEMMA PartnerKnown ==
    ASSUME NEW c, NEW name \in Partners(c)
    PROVE  Partner(c, name) \in Elems(c.partners) /\ Partner(c, name).name = name
  BY DEF Partners, Partner, Elems

\* The zone a peer was accepted on, found by its name, has the role of the name.
LEMMA ZoneRole ==
    ASSUME NEW c, ValidateEdge(c), NEW n, NEW zone,
           zone = CHOOSE z \in Elems(EffectiveZones(c)) : z.name = n,
           \E z \in Elems(EffectiveZones(c)) : z.name = n
    PROVE  zone.name = n /\ (IsExternalZone(c, n) <=> zone.role = "external")
<1>1. zone \in Elems(EffectiveZones(c)) /\ zone.name = n
  OBVIOUS
<1>2. zone.role = "external" => IsExternalZone(c, n)
  BY <1>1 DEF IsExternalZone
<1>3. ASSUME IsExternalZone(c, n) PROVE zone.role = "external"
  <2>1. PICK y \in Elems(EffectiveZones(c)) : y.name = n /\ y.role = "external"
    BY <1>3 DEF IsExternalZone
  <2>2. CASE c.zones # <<>>
    <3>1. PICK j \in DOMAIN c.zones : y = c.zones[j]
      BY <2>1, <2>2 DEF Elems, EffectiveZones
    <3>2. PICK k \in DOMAIN c.zones : zone = c.zones[k]
      BY <1>1, <2>2 DEF Elems, EffectiveZones
    <3>3. PICK names : names = [i \in DOMAIN c.zones |-> c.zones[i].name]
      OBVIOUS
    <3>4. Distinct(names)
      BY <3>3 DEF ValidateEdge
    <3>5. names[j] = n /\ names[k] = n /\ j \in DOMAIN names /\ k \in DOMAIN names
      BY <3>1, <3>2, <3>3, <2>1, <1>1
    <3>6. j = k
      BY <3>4, <3>5 DEF Distinct
    <3> QED  BY <3>1, <3>2, <3>6, <2>1
  <2>3. CASE c.zones = <<>>
    <3>1. y = ImplicitZone(c)
      BY <2>1, <2>3 DEF Elems, EffectiveZones
    <3> QED  BY <3>1, <2>1 DEF ImplicitZone
  <2> QED  BY <2>2, <2>3
<1> QED  BY <1>1, <1>2, <1>3

\* A set of numbers has a least one, and a bounded one has a greatest.
LEMMA LeastOf ==
    ASSUME NEW I, I \subseteq Nat, I # {} PROVE \E x \in I : \A y \in I : x <= y
<1> DEFINE R == {ss \in Nat \X Nat : ss[1] < ss[2]}
<1>1. IsWellFoundedOn(R, Nat)
  BY NatLessThanWellFounded DEF OpToRel
<1>2. \E x \in I : \A y \in I : ~ (<<y, x>> \in R)
  <2> HIDE DEF R
  <2> QED  BY <1>1, WFMin
<1>3. \A x, y \in Nat : y < x => <<y, x>> \in R
  OBVIOUS
<1>4. \A x, y \in Nat : ~(y < x) => x <= y
  OBVIOUS
<1> HIDE DEF R
<1> QED  BY <1>2, <1>3, <1>4

LEMMA GreatestOf ==
    ASSUME NEW n \in Nat, NEW I, I \subseteq 0 .. n, I # {} PROVE \E x \in I : \A y \in I : y <= x
<1>1. PICK J : J = {n - i : i \in I}
  OBVIOUS
<1>2. J \subseteq Nat /\ J # {}
  <2>1. \A i \in I : n - i \in Nat
    OBVIOUS
  <2>2. PICK i : i \in I
    OBVIOUS
  <2>3. n - i \in J
    BY <1>1, <2>2
  <2> QED  BY <1>1, <2>1, <2>3
<1>3. PICK x \in J : \A y \in J : x <= y
  BY <1>2, LeastOf
<1>4. PICK i \in I : x = n - i
  BY <1>1, <1>3
<1>5. \A y \in I : y <= i
  BY <1>1, <1>3, <1>4
<1> QED  BY <1>5

\* The name of a partner stands for that partner alone.
LEMMA NamedPartner ==
    ASSUME NEW c, ValidateEdge(c), NEW p \in Elems(c.partners)
    PROVE  Partner(c, p.name) = p /\ p.name \in Partners(c)
<1>1. p.name \in Partners(c)
  BY DEF Partners, Elems
<1>2. PICK q : q = Partner(c, p.name)
  OBVIOUS
<1>3. q \in Elems(c.partners) /\ q.name = p.name
  BY <1>1, <1>2, PartnerKnown
<1>4. PICK j, k : j \in DOMAIN c.partners /\ k \in DOMAIN c.partners /\ p = c.partners[j] /\ q = c.partners[k]
  BY <1>3 DEF Elems
<1>5. PICK names : names = [i \in DOMAIN c.partners |-> c.partners[i].name]
  OBVIOUS
<1>6. Distinct(names)
  BY <1>5 DEF ValidateEdge
<1>7. names[j] = names[k] /\ j \in DOMAIN names /\ k \in DOMAIN names
  BY <1>3, <1>4, <1>5
<1>8. j = k
  BY <1>6, <1>7 DEF Distinct
<1> QED  BY <1>1, <1>2, <1>4, <1>8

\* The partner that lists a peer is the one the registry names, and no other lists it.
LEMMA StaticOwner ==
    ASSUME NEW c, ValidateEdge(c), NEW id
    PROVE  /\ StaticPartner(c, id) # NoName =>
                 /\ Partner(c, StaticPartner(c, id)) \in Owners(c, id)
                 /\ StaticPartner(c, id) \in Partners(c)
           /\ \A p \in Owners(c, id) : StaticPartner(c, id) = p.name
<1>1. ASSUME Owners(c, id) # {}
      PROVE  \E p \in Owners(c, id) : StaticPartner(c, id) = p.name
  <2>1. PICK p \in Owners(c, id) : p = CHOOSE x \in Owners(c, id) : TRUE
    BY <1>1
  <2> QED  BY <1>1, <2>1 DEF StaticPartner
<1>2. ASSUME NEW p \in Owners(c, id), NEW q \in Owners(c, id) PROVE p = q
  <2>1. PICK j, k : /\ j \in DOMAIN c.partners /\ p = c.partners[j]
                    /\ k \in DOMAIN c.partners /\ q = c.partners[k]
    BY DEF Owners, Elems
  <2>2. PICK x, y : /\ x \in DOMAIN p.peers /\ p.peers[x].identity = id
                    /\ y \in DOMAIN q.peers /\ q.peers[y].identity = id
    BY DEF Owners, Elems
  <2>3. OnceListed(c)
    BY DEF ValidateEdge
  <2>4. j = k
    BY <2>1, <2>2, <2>3 DEF OnceListed
  <2> QED  BY <2>1, <2>4
<1>3. ASSUME StaticPartner(c, id) # NoName
      PROVE  Partner(c, StaticPartner(c, id)) \in Owners(c, id) /\ StaticPartner(c, id) \in Partners(c)
  <2>1. Owners(c, id) # {}
    BY <1>3 DEF StaticPartner
  <2>2. PICK p \in Owners(c, id) : StaticPartner(c, id) = p.name
    BY <1>1, <2>1
  <2>3. p \in Elems(c.partners)
    BY DEF Owners
  <2> QED  BY <2>2, <2>3, NamedPartner
<1>4. ASSUME NEW p \in Owners(c, id) PROVE StaticPartner(c, id) = p.name
  BY <1>1, <1>2
<1> QED  BY <1>3, <1>4

\* The partner that owns a realm has a pattern that matches it.
LEMMA RealmOwner ==
    ASSUME NEW c \in Config, NEW r \in Realm \cup {None}, PartnerForRealm(c, r) # NoName
    PROVE  /\ PartnerForRealm(c, r) \in Partners(c)
           /\ RealmMatches(r, Partner(c, PartnerForRealm(c, r)).realms)
<1>1. PICK fits : fits = {x \in OwnedPatterns(c) : r # NoName /\ PatternMatches(r, x.pat)}
  OBVIOUS
<1>2. PICK exact : exact = {x.owner : x \in {y \in fits : ~y.pat.wild}}
  OBVIOUS
<1>3. PICK best : best = {x.owner : x \in {y \in fits : \A z \in fits : Len(z.pat.name) <= Len(y.pat.name)}}
  OBVIOUS
<1>4. PartnerForRealm(c, r) =
        CASE exact # {} -> c.partners[CHOOSE k \in exact : \A j \in exact : j <= k].name
          [] exact = {} /\ fits # {} -> c.partners[CHOOSE k \in best : \A j \in best : k <= j].name
          [] OTHER -> NoName
  BY <1>1, <1>2, <1>3 DEF PartnerForRealm
<1>5. ValidateEdge(c)
  BY DEF Config
<1>6. PICK n \in Nat : DOMAIN c.partners = 1 .. n
  BY NameAssumption
<1>7. ASSUME NEW x \in fits
      PROVE  /\ x.owner \in 1 .. n /\ x.pat \in c.partners[x.owner].realms
             /\ r # NoName /\ PatternMatches(r, x.pat)
  BY <1>1, <1>6, <1>7 DEF OwnedPatterns, Owned
<1>8. ASSUME NEW k \in 1 .. n, \E x \in fits : x.owner = k, PartnerForRealm(c, r) = c.partners[k].name
      PROVE  /\ PartnerForRealm(c, r) \in Partners(c)
             /\ RealmMatches(r, Partner(c, PartnerForRealm(c, r)).realms)
  <2>1. PICK x \in fits : x.owner = k
    BY <1>8
  <2>2. c.partners[k] \in Elems(c.partners)
    BY <1>6 DEF Elems
  <2>3. Partner(c, c.partners[k].name) = c.partners[k] /\ c.partners[k].name \in Partners(c)
    BY <1>5, <2>2, NamedPartner
  <2> QED  BY <1>7, <1>8, <2>1, <2>3 DEF RealmMatches
<1>9. CASE exact # {}
  <2>1. exact \subseteq 0 .. n
    BY <1>2, <1>7
  <2>2. \E k \in exact : \A j \in exact : j <= k
    BY <1>9, <2>1, GreatestOf
  <2>3. PICK k \in exact : k = CHOOSE i \in exact : \A j \in exact : j <= i
    BY <2>2
  <2>4. k \in 1 .. n /\ \E x \in fits : x.owner = k
    BY <1>2, <1>7
  <2>5. PartnerForRealm(c, r) = c.partners[k].name
    BY <1>4, <1>9, <2>3
  <2> QED  BY <1>8, <2>4, <2>5
<1>10. CASE exact = {} /\ fits # {}
  <2>1. ASSUME NEW x \in fits PROVE Len(x.pat.name) \in 0 .. Len(r) /\ Len(r) \in Nat
    <3>1. x.pat.wild
      BY <1>2, <1>10
    <3>2. r \in Seq(STRING)
      BY <1>7, NameAssumption, NamesAgree
    <3>3. x.pat.name \in Seq(STRING)
      <4>1. c.partners[x.owner] \in Elems(c.partners)
        BY <1>6, <1>7 DEF Elems
      <4> QED  BY <1>7, <4>1, NameAssumption
    <3>4. Len(x.pat.name) <= Len(r)
      BY <1>7, <3>1 DEF PatternMatches, IsStrictPrefix, IsPrefix
    <3> QED  BY <3>2, <3>3, <3>4
  <2>2. PICK lens : lens = {Len(x.pat.name) : x \in fits}
    OBVIOUS
  <2>3. lens \subseteq 0 .. Len(r) /\ lens # {} /\ Len(r) \in Nat
    BY <1>10, <2>1, <2>2
  <2>4. PICK l \in lens : \A j \in lens : j <= l
    BY <2>3, GreatestOf
  <2>5. PICK x \in fits : \A z \in fits : Len(z.pat.name) <= Len(x.pat.name)
    BY <2>2, <2>4
  <2>6. x.owner \in best
    BY <1>3, <2>5
  <2>7. best \subseteq 1 .. n /\ \A k \in best : \E y \in fits : y.owner = k
    BY <1>3, <1>7
  <2>8. \E k \in best : \A j \in best : k <= j
    <3>1. best \subseteq Nat
      BY <2>7
    <3> QED  BY <2>6, <3>1, LeastOf
  <2>9. PICK k \in best : k = CHOOSE i \in best : \A j \in best : i <= j
    BY <2>8
  <2>10. PartnerForRealm(c, r) = c.partners[k].name
    BY <1>4, <1>10, <2>9
  <2> QED  BY <1>8, <2>7, <2>10
<1>11. CASE exact = {} /\ fits = {}
  BY <1>4, <1>11
<1> QED  BY <1>9, <1>10, <1>11

-----------------------------------------------------------------------------
(* Screening.                                                                *)

\* A set of rules has a first one.
LEMMA FirstRule ==
    ASSUME NEW S, S \subseteq 1..10, S # {}
    PROVE  \E k \in S : \A j \in S : k <= j
<1> SUFFICES ASSUME \A k \in S : \E j \in S : ~(k <= j) PROVE FALSE
  OBVIOUS
<1>1. 1 \notin S  OBVIOUS
<1>2. 2 \notin S  BY <1>1
<1>3. 3 \notin S  BY <1>1, <1>2
<1>4. 4 \notin S  BY <1>1, <1>2, <1>3
<1>5. 5 \notin S  BY <1>1, <1>2, <1>3, <1>4
<1>6. 6 \notin S  BY <1>1, <1>2, <1>3, <1>4, <1>5
<1>7. 7 \notin S  BY <1>1, <1>2, <1>3, <1>4, <1>5, <1>6
<1>8. 8 \notin S  BY <1>1, <1>2, <1>3, <1>4, <1>5, <1>6, <1>7
<1>9. 9 \notin S  BY <1>1, <1>2, <1>3, <1>4, <1>5, <1>6, <1>7, <1>8
<1>10. S \subseteq {10}
  BY <1>1, <1>2, <1>3, <1>4, <1>5, <1>6, <1>7, <1>8, <1>9
<1>11. PICK k \in S, j \in S : ~(k <= j)
  OBVIOUS
<1> QED  BY <1>10, <1>11

\* A request within the realms and the applications of a partner.
KeepsTo(p, m) ==
    /\ RealmMatches(m.or, p.realms) /\ HostInRealm(m.oh, m.or)
    /\ p.apps = {} \/ m.app \in p.apps

\* A partner's request that passes Evaluate keeps to the partner's realms and applications.
LEMMA EvaluatePasses ==
    ASSUME NEW c, NEW p, NEW id, NEW m, Evaluate(c, p, id, m) = NoName, Optional \subseteq p.checks
    PROVE  KeepsTo(p, m)
<1>1. PICK bad : bad = {k \in DOMAIN RuleOrder :
                          /\ RuleOrder[k] \in Optional => RuleOrder[k] \in p.checks
                          /\ Violates(c, p, id, m, RuleOrder[k])}
  OBVIOUS
<1>2. DOMAIN RuleOrder = 1..10
  BY DEF RuleOrder
<1>3. bad = {}
  <2> SUFFICES ASSUME bad # {} PROVE FALSE
    OBVIOUS
  <2>1. \E k \in bad : \A j \in bad : k <= j
    BY <1>1, <1>2, FirstRule
  <2>2. PICK f \in bad : f = CHOOSE k \in bad : \A j \in bad : k <= j
    BY <2>1
  <2>3. RuleOrder[f] = NoName
    BY <1>1, <2>2 DEF Evaluate
  <2> QED  BY <1>1, <2>2, <2>3, RuleNames
<1>4. ASSUME NEW k \in 1..10, RuleOrder[k] \in Optional PROVE ~Violates(c, p, id, m, RuleOrder[k])
  BY <1>1, <1>2, <1>3, <1>4
<1>5. RuleOrder[1] = "origin_realm" /\ RuleOrder[2] = "origin_host" /\ RuleOrder[5] = "application"
  BY DEF RuleOrder
<1>6. ~Violates(c, p, id, m, "origin_realm")
  <2>1. "origin_realm" \in Optional  BY DEF Optional
  <2> QED  BY <1>4, <1>5, <2>1
<1>7. ~Violates(c, p, id, m, "origin_host")
  <2>1. "origin_host" \in Optional  BY DEF Optional
  <2> QED  BY <1>4, <1>5, <2>1
<1>8. ~Violates(c, p, id, m, "application")
  <2>1. "application" \in Optional  BY DEF Optional
  <2> QED  BY <1>4, <1>5, <2>1
<1>9. RealmMatches(m.or, p.realms)
  BY <1>6 DEF Violates
<1>10. HostInRealm(m.oh, m.or)
  <2>1. m.or # NoName
    BY <1>9 DEF RealmMatches
  <2> QED  BY <1>7, <2>1 DEF Violates
<1>11. p.apps = {} \/ m.app \in p.apps
  BY <1>8 DEF Violates
<1> QED  BY <1>9, <1>10, <1>11 DEF KeepsTo

\* What Judged says of a request m that came on a connection.
Passed(o, m) ==
    External(o) => /\ conn[o].partner # None
                   /\ Enforced(PartnerOf(o)) => KeepsTo(PartnerOf(o), m)

\* Screening lets through what it has judged by the connection's own partner, provided
\* that a connection without one cannot borrow it from another of the same host.
LEMMA ScreenPasses ==
    ASSUME cfg \in Config, NEW o, NEW m, Screen(cfg, bound, conn[o], m) = "pass",
           External(o) => \/ conn[o].partner \in Partners(cfg)
                          \/ PartnerForPeer(cfg, bound, conn[o].host) = NoName
    PROVE  Passed(o, m)
<1> SUFFICES ASSUME External(o)
             PROVE  conn[o].partner # None /\ (Enforced(PartnerOf(o)) => KeepsTo(PartnerOf(o), m))
  BY DEF Passed
<1>1. PICK name : name = PartnerFor(cfg, bound, conn[o], m)
  OBVIOUS
<1>2. PICK e : e = IsExternalZone(cfg, conn[o].zone)
  OBVIOUS
<1>3. e = TRUE
  BY <1>2 DEF External, IsExternalZone
<1>4. name # NoName
  BY <1>1, <1>2, <1>3 DEF Screen
<1>5. name = conn[o].partner /\ name \in Partners(cfg)
  BY <1>1, <1>4 DEF PartnerFor, External
<1>6. conn[o].partner # None
  BY <1>4, <1>5, NamesAgree
<1>7. PICK p : p = PartnerOf(o)
  OBVIOUS
<1>8. p \in Elems(cfg.partners) /\ Partner(cfg, name) = p
  BY <1>5, <1>7, PartnerKnown DEF PartnerOf
<1>9. ASSUME Enforced(p) PROVE KeepsTo(p, m)
  <2>1. ScreeningEnabled(p, TRUE) = TRUE
    BY <1>8, <1>9, ScreeningAssumption DEF Enforced, ScreeningEnabled, Default
  <2>2. Enforce(p, Evaluate(cfg, p, conn[o].host, m)) = "pass"
    BY <1>1, <1>2, <1>3, <1>4, <1>8, <2>1 DEF Screen
  <2>3. ValidPartner(cfg, p)
    BY <1>8 DEF Config, ValidateEdge
  <2>4. PICK rule : rule = Evaluate(cfg, p, conn[o].host, m)
    OBVIOUS
  <2>5. rule = NoName
    <3> SUFFICES ASSUME rule # NoName PROVE FALSE
      OBVIOUS
    <3>1. PICK action : action = IF rule \in DOMAIN p.ruleActions THEN p.ruleActions[rule] ELSE p.action
      OBVIOUS
    <3>2. action \in Action /\ action # "log"
      BY <1>9, <2>3, <3>1 DEF Enforced, ValidPartner
    <3>3. Enforce(p, rule) = action
      BY <3>1, <3>2 DEF Enforce
    <3> QED  BY <2>2, <2>4, <3>2, <3>3 DEF Action
  <2>6. Optional \subseteq p.checks
    BY <1>9 DEF Enforced
  <2> QED  BY <2>4, <2>5, <2>6, EvaluatePasses
<1> QED  BY <1>6, <1>7, <1>9

-----------------------------------------------------------------------------
(* The inductive invariant.                                                  *)

\* A host that the registry may come to bind to the partner that owns its realm.
Claimable(h) ==
    /\ PartnerForRealm(cfg, RealmOf[h]) \in Partners(cfg) \ {NoName}
    /\ \E cer \in Cer : cer.host = h /\ Partner(cfg, PartnerForRealm(cfg, RealmOf[h])).zone = cer.zone

\* The shape of the state; a connection that was made has a host.
Shape ==
    /\ cfg \in Config /\ conn = [o \in Obj |-> conn[o]] /\ bound = [i \in Identity |-> bound[i]]
    /\ \A o \in Obj :
          /\ conn[o] = [st |-> conn[o].st, zone |-> conn[o].zone, host |-> conn[o].host,
                        partner |-> conn[o].partner]
          /\ conn[o].st # "new" => conn[o].host \in Identity
    /\ job = [pc |-> job.pc, from |-> job.from, was |-> job.was, msg |-> job.msg, excl |-> job.excl,
              next |-> job.next, at |-> job.at]

\* Only a host that can claim a partner is ever bound to one.
Bindings == \A h \in Identity : bound[h] \in Partners(cfg) \ {NoName} => Claimable(h)

\* An external connection has a partner, or its host can never be bound to one.
Assigned ==
    \A o \in Obj : conn[o].st # "new" /\ External(o) =>
        \/ conn[o].partner \in Partners(cfg)
        \/ StaticPartner(cfg, conn[o].host) = NoName /\ ~Claimable(conn[o].host)

Made(o) == o \in Obj /\ conn[o].st # "new"

\* How far the message in RouteIn has come.
JobJudged ==
    /\ job.pc \in {"screen", "route", "send", "back"} => Made(job.from)
    /\ job.pc = "screen" => job.msg = job.was /\ job.was.kind = "req"
    /\ job.pc \in {"route", "send"} /\ job.was.kind = "req" => Passed(job.from, job.was)
    /\ job.pc = "back" => job.was.kind = "ans"

LastJudged == \A d \in last : d.was.kind = "req" => Made(d.from) /\ Passed(d.from, d.was)

EdgeInv == Shape /\ Bindings /\ Assigned /\ JobJudged /\ LastJudged

\* A connection that was made keeps its zone, its host and its partner.
Kept ==
    /\ cfg' = cfg
    /\ \A o \in Obj : conn[o].st # "new" =>
          /\ conn'[o].st # "new" /\ conn'[o].zone = conn[o].zone
          /\ conn'[o].host = conn[o].host /\ conn'[o].partner = conn[o].partner

\* So what was judged stays judged.
LEMMA PassedStays ==
    ASSUME Kept, NEW o, Made(o), NEW m, Passed(o, m)
    PROVE  Made(o)' /\ Passed(o, m)'
<1>1. conn'[o].zone = conn[o].zone /\ conn'[o].partner = conn[o].partner /\ conn'[o].st # "new" /\ cfg' = cfg
  BY DEF Kept, Made
<1>2. External(o)' = External(o) /\ PartnerOf(o)' = PartnerOf(o)
  BY <1>1 DEF External, PartnerOf
<1> QED  BY <1>1, <1>2 DEF Passed, Made

\* A step that leaves the message and the last delivery alone.
LEMMA JudgedStays ==
    ASSUME Kept, JobJudged, LastJudged, job' = job, last' \subseteq last
    PROVE  JobJudged' /\ LastJudged'
<1>1. job.pc \in {"screen", "route", "send", "back"} => Made(job.from)'
  BY DEF JobJudged, Made, Kept
<1>2. ASSUME job.pc \in {"route", "send"}, job.was.kind = "req" PROVE Passed(job.from, job.was)'
  BY <1>2, PassedStays DEF JobJudged
<1>3. ASSUME NEW d \in last', d.was.kind = "req" PROVE Made(d.from)' /\ Passed(d.from, d.was)'
  BY <1>3, PassedStays DEF LastJudged
<1> QED  BY <1>1, <1>2, <1>3 DEF JobJudged, LastJudged

\* What a message that is hidden on its way keeps.
LEMMA HideKeeps ==
    ASSUME NEW name, NEW j, HideFor(name, j),
           j = [pc |-> j.pc, from |-> j.from, was |-> j.was, msg |-> j.msg, excl |-> j.excl, next |-> j.next, at |-> j.at]
    PROVE  /\ job' = [pc |-> job.pc, from |-> job.from, was |-> job.was, msg |-> job.msg,
                      excl |-> job.excl, next |-> job.next, at |-> job.at]'
           /\ job'.pc = j.pc /\ job'.from = j.from /\ job'.was = j.was
<1>1. job' = j \/ \E x : job' = [j EXCEPT !.msg = x]
  BY ZenonT(60) DEF HideFor
<1>2. ASSUME NEW x, job' = [j EXCEPT !.msg = x]
      PROVE  job' = [pc |-> j.pc, from |-> j.from, was |-> j.was, msg |-> x, excl |-> j.excl, next |-> j.next, at |-> j.at]
  BY <1>2
<1>3. CASE job' = j
  BY <1>3
<1>4. CASE \E x : job' = [j EXCEPT !.msg = x]
  BY <1>2, <1>4
<1> QED  BY <1>1, <1>3, <1>4

LEMMA EdgeInit == Init => EdgeInv
<1> SUFFICES ASSUME Init PROVE EdgeInv
  OBVIOUS
<1>1. Shape
  BY DEF Init, Shape, Nobody, Idle
<1>2. Bindings
  BY NamesAgree DEF Init, Bindings
<1>3. Assigned
  BY DEF Init, Assigned, Nobody
<1>4. JobJudged /\ LastJudged
  BY DEF Init, JobJudged, LastJudged, Idle
<1> QED  BY <1>1, <1>2, <1>3, <1>4 DEF EdgeInv

\* A registry that binds only what can be claimed owns a host by the file or by a claim.
LEMMA OwnedOrClaimed ==
    ASSUME Bindings, NEW h \in Identity, PartnerForPeer(cfg, bound, h) # NoName
    PROVE  StaticPartner(cfg, h) # NoName \/ Claimable(h)
  BY DEF PartnerForPeer, Bindings

\* The partner AdmitPeer lets a peer in as: the one that owns it, the one that claims
\* its realm on this zone, or none.
LEMMA AdmittedAs ==
    ASSUME NEW c, NEW b, NEW zone, NEW cert, NEW host, NEW realm,
           AdmitPeer(c, b, zone, cert, host, realm).ok
    PROVE  LET res == AdmitPeer(c, b, zone, cert, host, realm) IN
           \/ /\ res.partner = PartnerForPeer(c, b, host) /\ res.partner # NoName
              /\ Partner(c, res.partner).zone = zone.name
           \/ /\ PartnerForPeer(c, b, host) = NoName /\ res.partner = PartnerForRealm(c, realm)
              /\ zone.role = "external" /\ res.partner # NoName /\ Partner(c, res.partner).zone = zone.name
           \/ /\ PartnerForPeer(c, b, host) = NoName /\ res.partner = NoName
              /\ \/ zone.role # "external" \/ PartnerForRealm(c, realm) = NoName
                 \/ Partner(c, PartnerForRealm(c, realm)).zone # zone.name
<1>1. PICK owner : owner = PartnerForPeer(c, b, host)
  OBVIOUS
<1>2. PICK claims : claims = PartnerForRealm(c, realm)
  OBVIOUS
<1>3. PICK res : res = AdmitPeer(c, b, zone, cert, host, realm)
  OBVIOUS
<1>4. \/ res.partner = owner /\ owner # NoName /\ Partner(c, owner).zone = zone.name
      \/ /\ owner = NoName /\ res.partner = claims /\ zone.role = "external" /\ claims # NoName
         /\ Partner(c, claims).zone = zone.name
      \/ /\ owner = NoName /\ res.partner = NoName
         /\ ~(zone.role = "external" /\ claims # NoName /\ Partner(c, claims).zone = zone.name)
  BY <1>1, <1>2, <1>3 DEF AdmitPeer
<1> QED  BY <1>1, <1>2, <1>3, <1>4

LEMMA AcceptStep ==
    ASSUME EdgeInv, OneZone, NEW o \in Obj, NEW cer \in Cer, Accept(o, cer)
    PROVE  Shape' /\ Kept /\ Bindings' /\ Assigned'
<1>1. PICK zone : zone = CHOOSE z \in Elems(EffectiveZones(cfg)) : z.name = cer.zone
  OBVIOUS
<1>2. PICK h : h = cer.host
  OBVIOUS
<1>3. PICK res : res = AdmitPeer(cfg, bound, zone, cer.cert, h, RealmOf[h])
  OBVIOUS
<1>4. /\ conn[o].st = "new" /\ res.ok /\ cfg' = cfg /\ job' = job
      /\ conn' = [conn EXCEPT ![o] = [st |-> "admitted", zone |-> cer.zone, host |-> h,
                                      partner |-> res.partner]]
      /\ bound' = BindPeer(cfg, bound, h, res.partner)
  BY <1>1, <1>2, <1>3 DEF Accept, Fresh
<1>5. h \in Identity
  BY <1>2, HostAssumption
<1>6. zone.name = cer.zone /\ (IsExternalZone(cfg, cer.zone) <=> zone.role = "external")
  <2>1. ValidateEdge(cfg)
    BY DEF EdgeInv, Shape, Config
  <2>2. \E z \in Elems(EffectiveZones(cfg)) : z.name = cer.zone
    BY DEF Accept
  <2> QED  BY <1>1, <2>1, <2>2, ZoneRole
<1>7. /\ conn'[o] = [st |-> "admitted", zone |-> cer.zone, host |-> h, partner |-> res.partner]
      /\ \A x \in Obj \ {o} : conn'[x] = conn[x]
      /\ conn' = [x \in Obj |-> conn'[x]]
  BY <1>4 DEF EdgeInv, Shape
<1>8. /\ bound' = [i \in Identity |-> bound'[i]]
      /\ \A i \in Identity \ {h} : bound'[i] = bound[i]
      /\ bound'[h] = bound[h] \/ (bound'[h] = res.partner /\ res.partner # NoName)
  BY <1>4, <1>5 DEF EdgeInv, Shape, BindPeer
<1>9. Shape'
  BY <1>4, <1>5, <1>7, <1>8 DEF EdgeInv, Shape
<1>10. Kept
  BY <1>4, <1>7 DEF Kept
<1>11. \A i : Claimable(i)' <=> Claimable(i)
  BY <1>4 DEF Claimable
<1>12. \/ res.partner = PartnerForPeer(cfg, bound, h) /\ res.partner # NoName
       \/ /\ PartnerForPeer(cfg, bound, h) = NoName /\ res.partner = PartnerForRealm(cfg, RealmOf[h])
          /\ zone.role = "external" /\ res.partner # NoName /\ Partner(cfg, res.partner).zone = zone.name
       \/ /\ PartnerForPeer(cfg, bound, h) = NoName /\ res.partner = NoName
          /\ \/ zone.role # "external" \/ PartnerForRealm(cfg, RealmOf[h]) = NoName
             \/ Partner(cfg, PartnerForRealm(cfg, RealmOf[h])).zone # zone.name
  BY <1>3, <1>4, AdmittedAs
<1>13. Bindings'
  <2> SUFFICES ASSUME NEW i \in Identity, bound'[i] \in Partners(cfg) \ {NoName} PROVE Claimable(i)
    BY <1>4, <1>11 DEF Bindings
  <2>1. CASE bound'[i] = bound[i]
    BY <2>1 DEF EdgeInv, Bindings
  <2>2. CASE bound'[i] # bound[i]
    <3>1. i = h /\ bound'[h] = res.partner /\ res.partner \in Partners(cfg) /\ bound' # bound
      BY <2>2, <1>8
    <3>2. StaticPartner(cfg, h) = NoName
      BY <3>1, <1>4 DEF BindPeer
    <3>3. CASE res.partner = PartnerForPeer(cfg, bound, h) /\ res.partner # NoName
      BY <3>1, <3>2, <3>3, <1>5, OwnedOrClaimed DEF EdgeInv
    <3>4. CASE /\ res.partner = PartnerForRealm(cfg, RealmOf[h])
               /\ Partner(cfg, res.partner).zone = zone.name
      BY <3>1, <3>4, <1>2, <1>6 DEF Claimable
    <3>5. res.partner # NoName
      BY <3>1
    <3> QED  BY <1>12, <3>3, <3>4, <3>5
  <2> QED  BY <2>1, <2>2
<1>14. Assigned'
  <2> SUFFICES ASSUME NEW x \in Obj, conn'[x].st # "new", External(x)'
               PROVE  \/ conn'[x].partner \in Partners(cfg)
                      \/ StaticPartner(cfg, conn'[x].host) = NoName /\ ~Claimable(conn'[x].host)
    <3> USE <1>4
    <3>1. \A x \in Obj : Claimable(conn[x].host)' <=> Claimable(conn'[x].host)
      BY DEF Claimable
    <3> QED  BY <3>1 DEF Assigned
  <2>1. CASE x # o
    BY <2>1, <1>4, <1>7 DEF EdgeInv, Assigned, External
  <2>2. CASE x = o
    <3>1. conn'[x].partner = res.partner /\ conn'[x].host = h /\ IsExternalZone(cfg, cer.zone)
      BY <2>2, <1>4, <1>7 DEF External
    <3>2. zone.role = "external"
      BY <3>1, <1>6
    <3>3. CASE res.partner = PartnerForPeer(cfg, bound, h) /\ res.partner # NoName
      BY <3>1, <3>3, OwnerKnown
    <3>4. PartnerForPeer(cfg, bound, h) = NoName => StaticPartner(cfg, h) = NoName
      <4>1. ASSUME PartnerForPeer(cfg, bound, h) = NoName, StaticPartner(cfg, h) # NoName
            PROVE  h = NoName
        BY <4>1 DEF PartnerForPeer
      <4> QED  BY <1>5, <4>1, HostAssumption, NamesAgree
    <3>5. CASE /\ PartnerForPeer(cfg, bound, h) = NoName /\ res.partner = PartnerForRealm(cfg, RealmOf[h])
               /\ zone.role = "external" /\ res.partner # NoName
      BY <3>1, <3>4, <3>5 DEF Claimable
    <3>6. CASE /\ PartnerForPeer(cfg, bound, h) = NoName /\ res.partner = NoName
               /\ \/ PartnerForRealm(cfg, RealmOf[h]) = NoName
                  \/ Partner(cfg, PartnerForRealm(cfg, RealmOf[h])).zone # zone.name
      BY <3>1, <3>4, <3>6, <1>2, <1>6 DEF Claimable, OneZone
    <3> QED  BY <1>12, <3>2, <3>3, <3>5, <3>6
  <2> QED  BY <2>1, <2>2
<1> QED  BY <1>9, <1>10, <1>13, <1>14

\* A step that touches one connection, which was made before, and no binding but to
\* take it away.
LEMMA LeaveStep ==
    ASSUME EdgeInv, NEW o \in Obj, conn[o].st # "new", cfg' = cfg, job' = job,
           NEW st, st # "new", conn' = [conn EXCEPT ![o].st = st],
           \/ bound' = bound
           \/ bound' = UnbindPeer(bound, conn[o].host)
    PROVE  Shape' /\ Kept /\ Bindings' /\ Assigned'
<1>1. PICK r : r = [st |-> st, zone |-> conn[o].zone, host |-> conn[o].host, partner |-> conn[o].partner]
  OBVIOUS
<1>2. [conn[o] EXCEPT !.st = st] = r
  BY <1>1 DEF EdgeInv, Shape
<1>3. conn'[o] = r /\ (\A x \in Obj \ {o} : conn'[x] = conn[x]) /\ conn' = [x \in Obj |-> conn'[x]]
  BY <1>2 DEF EdgeInv, Shape
<1>4. conn[o].host \in Identity
  BY DEF EdgeInv, Shape
<1>5. /\ bound' = [i \in Identity |-> bound'[i]]
      /\ \A i \in Identity : bound'[i] \in {bound[i], NoName}
  BY <1>4 DEF EdgeInv, Shape, UnbindPeer
<1>6. Shape'
  BY <1>1, <1>3, <1>4, <1>5 DEF EdgeInv, Shape
<1>7. Kept
  BY <1>1, <1>3 DEF Kept
<1>8. \A i : Claimable(i)' <=> Claimable(i)
  BY DEF Claimable
<1>9. Bindings'
  BY <1>5, <1>8 DEF EdgeInv, Bindings
<1>10. Assigned'
  <2>1. \A x \in Obj : /\ Claimable(conn[x].host)' <=> Claimable(conn[x].host)
                       /\ conn'[x].host = conn[x].host /\ conn'[x].zone = conn[x].zone
                       /\ conn'[x].partner = conn[x].partner /\ (conn'[x].st # "new" <=> conn[x].st # "new")
    BY <1>1, <1>3 DEF Claimable
  <2> QED  BY <2>1 DEF EdgeInv, Assigned, External
<1> QED  BY <1>6, <1>7, <1>9, <1>10

LEMMA ConnectStep ==
    ASSUME EdgeInv, OneZone, NEW o \in Obj, NEW pc \in Elems(cfg.peers), ConnectToPeer(o, pc)
    PROVE  Shape' /\ Kept /\ Bindings' /\ Assigned'
<1>1. PICK h, z, p : /\ h = pc.identity /\ z = Default(pc.zone, ZoneNameForPeer(cfg, pc.identity))
                     /\ p = PartnerForPeer(cfg, bound, pc.identity)
  OBVIOUS
<1>2. /\ conn[o].st = "new" /\ cfg' = cfg /\ job' = job /\ bound' = bound
      /\ conn' = [conn EXCEPT ![o] = [st |-> "admitted", zone |-> z, host |-> h, partner |-> p]]
  BY <1>1 DEF ConnectToPeer, Fresh
<1>3. h \in Identity
  BY <1>1, HostAssumption DEF EdgeInv, Shape
<1>4. /\ conn'[o] = [st |-> "admitted", zone |-> z, host |-> h, partner |-> p]
      /\ \A x \in Obj \ {o} : conn'[x] = conn[x]
      /\ conn' = [x \in Obj |-> conn'[x]]
  BY <1>2 DEF EdgeInv, Shape
<1>5. Shape'
  BY <1>2, <1>3, <1>4 DEF EdgeInv, Shape
<1>6. Kept
  BY <1>2, <1>4 DEF Kept
<1>7. \A i : Claimable(i)' <=> Claimable(i)
  BY <1>2 DEF Claimable
<1>8. Bindings'
  BY <1>2, <1>7 DEF EdgeInv, Bindings
<1>9. Assigned'
  <2>1. ASSUME External(o)' PROVE p \in Partners(cfg)
    <3>1. IsExternalZone(cfg, z)
      BY <2>1, <1>2, <1>4 DEF External
    <3>2. StaticPartner(cfg, h) # NoName
      BY <3>1, <1>1 DEF OneZone, EdgeInv, Shape
    <3>3. p # NoName
      BY <3>2, <1>1, <1>3, HostAssumption, NamesAgree DEF PartnerForPeer
    <3> QED  BY <3>3, <1>1, OwnerKnown
  <2>2. \A x \in Obj : Claimable(conn[x].host)' <=> Claimable(conn'[x].host)
    BY <1>2 DEF Claimable
  <2>3. ASSUME NEW x \in Obj \ {o}, conn'[x].st # "new", External(x)'
        PROVE  \/ conn'[x].partner \in Partners(cfg)
               \/ StaticPartner(cfg, conn'[x].host) = NoName /\ ~Claimable(conn'[x].host)
    BY <2>3, <1>2, <1>4 DEF EdgeInv, Assigned, External
  <2>4. conn'[o].partner = p
    BY <1>4
  <2> QED  BY <1>2, <2>1, <2>2, <2>3, <2>4 DEF Assigned
<1> QED  BY <1>5, <1>6, <1>8, <1>9

\* A step of RouteIn leaves the connections and the registry alone.
LEMMA RouteStep ==
    ASSUME EdgeInv, UNCHANGED <<cfg, conn, bound>>,
           job' = [pc |-> job.pc, from |-> job.from, was |-> job.was, msg |-> job.msg, excl |-> job.excl,
                   next |-> job.next, at |-> job.at]'
    PROVE  Shape' /\ Kept /\ Bindings' /\ Assigned'
<1>1. Shape'
  BY DEF EdgeInv, Shape
<1>2. Kept
  BY DEF Kept
<1>3. \A i : Claimable(i)' <=> Claimable(i)
  BY DEF Claimable
<1>4. Bindings'
  BY <1>3 DEF EdgeInv, Bindings
<1>5. \A x \in Obj : Claimable(conn[x].host)' <=> Claimable(conn[x].host)
  BY DEF Claimable
<1>6. Assigned'
  BY <1>5 DEF EdgeInv, Assigned, External
<1> QED  BY <1>1, <1>2, <1>4, <1>6

\* A connection without a partner has a host nobody owns.
LEMMA NothingToBorrow ==
    ASSUME EdgeInv, NEW o, Made(o), External(o)
    PROVE  \/ conn[o].partner \in Partners(cfg)
           \/ PartnerForPeer(cfg, bound, conn[o].host) = NoName
<1>1. conn[o].host \in Identity
  BY DEF EdgeInv, Shape, Made
<1> QED  BY <1>1, OwnedOrClaimed DEF EdgeInv, Assigned, Made

LEMMA ScreenStep ==
    ASSUME EdgeInv, ScreenRequest
    PROVE  EdgeInv'
<1>1. PICK f, w : f = job.from /\ w = job.was
  OBVIOUS
<1>2. job.pc = "screen" /\ Made(f) /\ job.msg = w
  BY <1>1 DEF ScreenRequest, EdgeInv, JobJudged
<1>3. UNCHANGED <<cfg, conn, bound>> /\ last' = last
  BY DEF ScreenRequest, connVars
<1>4. \/ job' = Idle
      \/ /\ Screen(cfg, bound, conn[f], w) = "pass"
         /\ \E x : job' = [job EXCEPT !.pc = "route", !.msg = x]
  BY <1>1, <1>2 DEF ScreenRequest
<1>5. PICK x : \/ job' = Idle
               \/ /\ Screen(cfg, bound, conn[f], w) = "pass"
                  /\ job' = [pc |-> "route", from |-> f, was |-> w, msg |-> x, excl |-> job.excl,
                            next |-> job.next, at |-> job.at]
  BY <1>1, <1>4 DEF EdgeInv, Shape
<1>6. Shape' /\ Kept /\ Bindings' /\ Assigned'
  BY <1>3, <1>5, RouteStep DEF Idle
<1>7. Screen(cfg, bound, conn[f], w) = "pass" => Passed(f, w)
  BY <1>2, NothingToBorrow, ScreenPasses DEF EdgeInv, Shape
<1>8. JobJudged'
  <2>1. CASE job' = Idle
    BY <2>1 DEF JobJudged, Idle
  <2>2. CASE job' # Idle
    <3>1. Made(f)' /\ Passed(f, w)'
      BY <1>2, <1>5, <1>6, <1>7, <2>2, PassedStays
    <3> QED  BY <1>5, <2>2, <3>1 DEF JobJudged
  <2> QED  BY <2>1, <2>2
<1>9. ASSUME NEW d \in last, d.was.kind = "req" PROVE Made(d.from)' /\ Passed(d.from, d.was)'
  BY <1>6, <1>9, PassedStays DEF EdgeInv, LastJudged
<1>10. LastJudged'
  BY <1>3, <1>9 DEF LastJudged
<1> QED  BY <1>6, <1>8, <1>10 DEF EdgeInv

\* Choosing a hop, failing to send and sending: a request has passed already.
LEMMA PassedStep ==
    ASSUME EdgeInv, UNCHANGED <<cfg, conn, bound>>, job.pc \in {"route", "send"},
           job' = [pc |-> job.pc, from |-> job.from, was |-> job.was, msg |-> job.msg, excl |-> job.excl,
                   next |-> job.next, at |-> job.at]',
           \/ job' = Idle
           \/ job'.pc \in {"route", "send"} /\ job'.from = job.from /\ job'.was = job.was,
           \A d \in last' : d \in last \/ (d.from = job.from /\ d.was = job.was)
    PROVE  EdgeInv'
<1>1. PICK f, w : f = job.from /\ w = job.was
  OBVIOUS
<1>2. Made(f) /\ (w.kind = "req" => Passed(f, w))
  BY <1>1 DEF EdgeInv, JobJudged
<1>3. Shape' /\ Kept /\ Bindings' /\ Assigned'
  BY RouteStep
<1>4. Made(f)' /\ (w.kind = "req" => Passed(f, w)')
  BY <1>2, <1>3, PassedStays DEF Kept, Made
<1>5. JobJudged'
  BY <1>1, <1>4 DEF JobJudged, Idle
<1>6. ASSUME NEW d \in last', d.was.kind = "req" PROVE Made(d.from)' /\ Passed(d.from, d.was)'
  <2>1. CASE d \in last
    BY <1>3, <1>6, <2>1, PassedStays DEF EdgeInv, LastJudged
  <2>2. CASE d.from = f /\ d.was = w
    BY <1>4, <1>6, <2>2
  <2> QED  BY <1>1, <2>1, <2>2
<1>7. LastJudged'
  BY <1>6 DEF LastJudged
<1> QED  BY <1>3, <1>5, <1>7 DEF EdgeInv

LEMMA EdgeStep ==
    ASSUME EdgeInv, OneZone, [Next]_vars
    PROVE  EdgeInv'
<1> DEFINE Whole(j) == j = [pc |-> j.pc, from |-> j.from, was |-> j.was, msg |-> j.msg,
                            excl |-> j.excl, next |-> j.next, at |-> j.at]
<1>1. ASSUME Shape', Kept, Bindings', Assigned', job' = job, last' \subseteq last PROVE EdgeInv'
  BY <1>1, JudgedStays DEF EdgeInv
<1>2. ASSUME NEW o \in Obj, NEW cer \in Cer, Accept(o, cer) PROVE EdgeInv'
  BY <1>1, <1>2, AcceptStep DEF Accept
<1>3. ASSUME NEW o \in Obj, NEW pc \in Elems(cfg.peers), ConnectToPeer(o, pc) PROVE EdgeInv'
  BY <1>1, <1>3, ConnectStep DEF ConnectToPeer
<1>4. ASSUME NEW o \in Obj, Open(o) PROVE EdgeInv'
  <2>1. Shape' /\ Kept /\ Bindings' /\ Assigned'
    BY <1>4, LeaveStep DEF Open
  <2> QED  BY <1>1, <1>4, <2>1 DEF Open
<1>5. ASSUME NEW o \in Obj, Lose(o) PROVE EdgeInv'
  <2>1. Shape' /\ Kept /\ Bindings' /\ Assigned'
    BY <1>5, LeaveStep DEF Lose
  <2> QED  BY <1>1, <1>5, <2>1 DEF Lose
<1>6. ASSUME NEW o \in Obj, Unbind(o) PROVE EdgeInv'
  <2>1. Shape' /\ Kept /\ Bindings' /\ Assigned'
    BY <1>6, LeaveStep DEF Unbind
  <2> QED  BY <1>1, <1>6, <2>1 DEF Unbind
<1>7. ASSUME NEW o \in Obj, NEW m, RcvRequest(o, m) PROVE EdgeInv'
  <2>1. UNCHANGED <<cfg, conn, bound>> /\ last' = {} /\ Made(o)
    BY <1>7 DEF RcvRequest, connVars, Made
  <2>2. job' = [pc |-> "screen", from |-> o, was |-> m, msg |-> m, excl |-> {}, next |-> None, at |-> None]
    BY <1>7 DEF RcvRequest, Idle
  <2>3. Shape' /\ Kept /\ Bindings' /\ Assigned'
    BY <2>1, <2>2, RouteStep
  <2>4. m.kind = "req"
    <3>1. conn[o].host \in Identity
      BY <2>1 DEF EdgeInv, Shape, Made
    <3> QED  BY <1>7, <3>1, KindAssumption DEF RcvRequest
  <2>5. JobJudged' /\ LastJudged'
    BY <2>1, <2>2, <2>4 DEF JobJudged, LastJudged, Made
  <2> QED  BY <2>3, <2>5 DEF EdgeInv
<1>8. ASSUME NEW o \in Obj, NEW t, NEW a, RcvAnswer(o, t, a) PROVE EdgeInv'
  <2>1. PICK name, j, i : /\ HideFor(name, j)
                          /\ j = [Idle EXCEPT !.pc = "back", !.from = o, !.was = a, !.msg = a,
                                              !.next = i, !.at = Previous(i)]
    BY <1>8 DEF RcvAnswer
  <2>2. j = [pc |-> "back", from |-> o, was |-> a, msg |-> a, excl |-> {}, next |-> i, at |-> Previous(i)]
    BY <2>1 DEF Idle
  <2>3. Whole(job)' /\ job'.pc = "back" /\ job'.from = o /\ job'.was = a
    <3>1. Whole(j) /\ j.pc = "back" /\ j.from = o /\ j.was = a
      BY <2>2
    <3> QED  BY <2>1, <3>1, HideKeeps
  <2>4. UNCHANGED <<cfg, conn, bound>> /\ last' = {} /\ Made(o)
    BY <1>8 DEF RcvAnswer, connVars, Made
  <2>5. a.kind = "ans"
    <3>1. conn[o].host \in Identity
      BY <1>8 DEF RcvAnswer, EdgeInv, Shape
    <3> QED  BY <1>8, <3>1, KindAssumption DEF RcvAnswer
  <2>6. Shape' /\ Kept /\ Bindings' /\ Assigned'
    BY <2>3, <2>4, RouteStep
  <2>7. JobJudged' /\ LastJudged'
    BY <2>3, <2>4, <2>5 DEF JobJudged, LastJudged, Made
  <2> QED  BY <2>6, <2>7 DEF EdgeInv
<1>9. ASSUME ChooseHop PROVE EdgeInv'
  <2>1. PICK name, j, n : HideFor(name, j) /\ j = [job EXCEPT !.pc = "send", !.next = n, !.at = peers[n]]
    BY <1>9 DEF ChooseHop
  <2>2. j = [pc |-> "send", from |-> job.from, was |-> job.was, msg |-> job.msg, excl |-> job.excl,
             next |-> n, at |-> peers[n]]
    BY <2>1 DEF EdgeInv, Shape
  <2>3. Whole(job)' /\ job'.pc = "send" /\ job'.from = job.from /\ job'.was = job.was
    <3>1. Whole(j) /\ j.pc = "send" /\ j.from = job.from /\ j.was = job.was
      BY <2>2
    <3> QED  BY <2>1, <3>1, HideKeeps
  <2>4. UNCHANGED <<cfg, conn, bound>> /\ last' = last /\ job.pc = "route"
    BY <1>9 DEF ChooseHop, connVars
  <2> QED  BY <2>3, <2>4, PassedStep
<1>10. ASSUME NoHop PROVE EdgeInv'
  <2>1. UNCHANGED <<cfg, conn, bound>> /\ last' = last /\ job.pc = "route" /\ job' = Idle
    BY <1>10 DEF NoHop, connVars
  <2>2. Whole(job)'
    BY <2>1 DEF Idle
  <2> QED  BY <2>1, <2>2, PassedStep
<1>11. ASSUME SendRequest PROVE EdgeInv'
  <2>1. UNCHANGED <<cfg, conn, bound>> /\ job.pc = "send" /\ job' = Idle
    BY <1>11 DEF SendRequest, connVars
  <2>2. \A d \in last' : d.from = job.from /\ d.was = job.was
    BY <1>11 DEF SendRequest, Sent
  <2>3. Whole(job)'
    BY <2>1 DEF Idle
  <2> QED  BY <2>1, <2>2, <2>3, PassedStep
<1>12. ASSUME SendFails PROVE EdgeInv'
  <2>1. UNCHANGED <<cfg, conn, bound>> /\ last' = last /\ job.pc = "send"
    BY <1>12 DEF SendFails, connVars
  <2>2. PICK e : job' = [pc |-> "route", from |-> job.from, was |-> job.was, msg |-> job.msg, excl |-> e,
                         next |-> job.next, at |-> job.at]
    BY <1>12 DEF SendFails, EdgeInv, Shape
  <2> QED  BY <2>1, <2>2, PassedStep
<1>13. ASSUME SendBack PROVE EdgeInv'
  <2>1. UNCHANGED <<cfg, conn, bound>> /\ job.pc = "back"
    BY <1>13 DEF SendBack, connVars
  <2>2. \A d \in last' : d \in last \/ d.was = job.was
    BY <1>13 DEF SendBack, Sent
  <2>3. PICK m : \/ job' = Idle
                 \/ job' = [pc |-> "route", from |-> job.from, was |-> job.was, msg |-> m, excl |-> job.excl,
                            next |-> job.next, at |-> job.at]
    <3>1. job' = Idle \/ \E m : job' = [job EXCEPT !.pc = "route", !.msg = m]
      BY <1>13 DEF SendBack
    <3> QED  BY <3>1 DEF EdgeInv, Shape
  <2>4. Shape' /\ Kept /\ Bindings' /\ Assigned'
    BY <2>1, <2>3, RouteStep DEF Idle
  <2>5. job.was.kind = "ans" /\ Made(job.from)
    BY <2>1 DEF EdgeInv, JobJudged
  <2>6. JobJudged'
    BY <2>3, <2>4, <2>5 DEF JobJudged, Idle, Kept, Made
  <2>7. ASSUME NEW d \in last', d.was.kind = "req" PROVE Made(d.from)' /\ Passed(d.from, d.was)'
    BY <2>2, <2>4, <2>5, <2>7, PassedStays DEF EdgeInv, LastJudged
  <2> QED  BY <2>4, <2>6, <2>7 DEF EdgeInv, LastJudged
<1>14. ASSUME UNCHANGED <<cfg, conn, bound, job>>, last' \subseteq last PROVE EdgeInv'
  <2>1. Shape' /\ Kept /\ Bindings' /\ Assigned'
    BY <1>14, RouteStep DEF EdgeInv, Shape
  <2> QED  BY <1>1, <1>14, <2>1
<1>15. ASSUME NEW x, Forget(x) PROVE EdgeInv'
  BY <1>14, <1>15 DEF Forget, connVars
<1>16. CASE UNCHANGED vars
  BY <1>14, <1>16 DEF vars, connVars
<1> QED
  BY <1>2, <1>3, <1>4, <1>5, <1>6, <1>7, <1>8, <1>9, <1>10, <1>11, <1>12, <1>13, <1>15, <1>16,
     ScreenStep DEF Next, RouteIn

\* Judged, for every configuration, however often peers come back: where each peer has
\* its zone, no request from an external connection is relayed that the connection's
\* own partner was not asked about.
THEOREM ExternalIsJudged == OneZone => (Spec => []Judged)
<1> SUFFICES ASSUME OneZone PROVE Spec => []Judged
  OBVIOUS
<1>1. Init => EdgeInv
  BY EdgeInit
<1>2. EdgeInv /\ [Next]_vars => EdgeInv'
  BY EdgeStep
<1>3. EdgeInv => Judged
  BY DEF EdgeInv, LastJudged, Judged, Passed, KeepsTo, Made
<1> QED  BY <1>1, <1>2, <1>3, PTL DEF Spec

-----------------------------------------------------------------------------
(* The site: the table, the registry and what is stored.                     *)

\* What the agent needs of a message on its way, and that a request was sent by a peer.
IsMessage(m) == DOMAIN m = Fields /\ Target(m) \in Destination /\ m.oh \in Identity \cup {None}
Requested(m) == \E i \in Identity : m \in Requests[i]

\* The table leads to open connections of the right host.
Links ==
    /\ peers = [i \in Identity |-> peers[i]]
    /\ \A i \in Identity : peers[i] # None =>
          peers[i] \in Obj /\ conn[peers[i]].st = "open" /\ conn[peers[i]].host = i

\* A host is bound to the partner that owns its realm.
Claims ==
    \A h \in Identity : bound[h] \in Partners(cfg) \ {NoName} => bound[h] = PartnerForRealm(cfg, RealmOf[h])

\* A connection of a peer the configuration lists is external if a partner lists it,
\* and has that partner.
Placed(o) ==
    /\ conn[o].partner \in Partners(cfg) \cup {NoName}
    /\ Listed(o) => /\ External(o) <=> StaticPartner(cfg, conn[o].host) # NoName
                    /\ StaticPartner(cfg, conn[o].host) # NoName =>
                          conn[o].partner = StaticPartner(cfg, conn[o].host)
Places == \A o \in Obj : conn[o].st # "new" => Placed(o)

\* The partner of a connection that was admitted by its realm, and that is the only one its
\* host has had, is the one its host is bound to, until it is lost.
Alive(o) == conn[o].st \in {"admitted", "open"}
BoundTo(o) ==
    /\ conn[o].st = "new" => conn[o].host = None
    /\ Alive(o) /\ Sole(o) /\ StaticPartner(cfg, conn[o].host) = NoName /\ conn[o].partner # NoName
          => bound[conn[o].host] = conn[o].partner
Holds == \A o \in Obj : BoundTo(o)

\* Only pseudonyms and hosts are stored, and a message is whole on its way.
Data ==
    /\ \A t \in txn : t = [out |-> t.out, orig |-> t.orig] /\ t.orig \in Identity
    /\ \A x \in store : x.alias \in Alias /\ x.host \in Identity
    /\ job.pc \in {"screen", "route", "send", "back"} => IsMessage(job.msg)
    /\ job.pc \in {"screen", "route", "send"} /\ job.was.kind = "req" => Requested(job.was)
    /\ job.pc = "send" => job.next \in Identity
    /\ job.pc = "back" => job.next \in Identity \cup {None}

SiteInv == Links /\ Claims /\ Places /\ Holds /\ Data

LEMMA SiteInit == Init => SiteInv
<1> SUFFICES ASSUME Init PROVE SiteInv
  OBVIOUS
<1>1. Links
  BY DEF Init, Links
<1>2. Claims
  BY NamesAgree DEF Init, Claims
<1>3. Places
  BY DEF Init, Places, Nobody
<1>4. Data
  BY DEF Init, Data, Idle
<1>5. Holds
  BY DEF Init, Holds, BoundTo, Alive, Nobody
<1> QED  BY <1>1, <1>2, <1>3, <1>4, <1>5 DEF SiteInv

-----------------------------------------------------------------------------
(* What happens to a message on its way.                                     *)

\* The message r that hide makes of m.
HiddenAs(c, p, m, a, r) ==
    /\ DOMAIN r = Fields /\ r.kind = m.kind /\ r.dh = m.dh /\ r.dr = m.dr /\ r.app = m.app
    /\ r.oh = IF MustMask(c, p, m.oh) THEN a ELSE m.oh
    /\ r.or = IF MustMask(c, p, m.oh) /\ p.hideOriginRealm /\ m.or # NoName THEN p.pseudonymRealm ELSE m.or
    /\ r.erh = IF p.hideErrorHost /\ MustMask(c, p, m.erh) THEN p.edgeIdentity ELSE m.erh
    /\ r.proxy = IF p.hideProxyInfo THEN {h \in m.proxy : ~MustMask(c, p, h)} ELSE m.proxy
    /\ p.hideRouteRecords => r.rr \subseteq {h \in m.rr : ~MustMask(c, p, h)} \cup {p.edgeIdentity}

LEMMA HideFields ==
    ASSUME NEW c, NEW p, NEW m, DOMAIN m = Fields, NEW a
    PROVE  HiddenAs(c, p, m, a, Hide(c, p, m, a))
<1>0. PICK r : r = Hide(c, p, m, a)
  OBVIOUS
<1>1. PICK rr : rr = IF p.hideRouteRecords THEN {h \in m.rr : ~MustMask(c, p, h)} ELSE m.rr
  OBVIOUS
<1>2. PICK oh, or, erh, proxy, avps, rs :
        /\ oh = IF MustMask(c, p, m.oh) THEN a ELSE m.oh
        /\ or = IF MustMask(c, p, m.oh) /\ p.hideOriginRealm /\ m.or # NoName THEN p.pseudonymRealm ELSE m.or
        /\ erh = IF p.hideErrorHost /\ MustMask(c, p, m.erh) THEN p.edgeIdentity ELSE m.erh
        /\ proxy = IF p.hideProxyInfo THEN {h \in m.proxy : ~MustMask(c, p, h)} ELSE m.proxy
        /\ avps = m.avps \ p.scrub
        /\ rs = IF p.hideRouteRecords /\ m.kind = "req" THEN rr \cup {p.edgeIdentity} ELSE rr
  OBVIOUS
<1>3. r = [m EXCEPT !.oh = oh, !.or = or, !.erh = erh, !.proxy = proxy, !.avps = avps, !.rr = rs]
  BY <1>0, <1>1, <1>2 DEF Hide
<1>4. /\ DOMAIN r = Fields /\ r.kind = m.kind /\ r.dh = m.dh /\ r.dr = m.dr /\ r.app = m.app
      /\ r.oh = oh /\ r.or = or /\ r.erh = erh /\ r.proxy = proxy /\ r.rr = rs
  BY <1>3 DEF Fields
<1>5. p.hideRouteRecords => rs \subseteq {h \in m.rr : ~MustMask(c, p, h)} \cup {p.edgeIdentity}
  BY <1>1, <1>2
<1> QED  BY <1>0, <1>2, <1>4, <1>5 DEF HiddenAs

LEMMA RestoreFields ==
    ASSUME Data, NEW m, IsMessage(m), NEW r, r = Restore(m)
    PROVE  /\ IsMessage(r) /\ r.oh = m.oh /\ r.or = m.or /\ r.dr = m.dr /\ r.app = m.app /\ r.kind = m.kind
<1>1. r = m \/ \E h \in Identity : r = [m EXCEPT !.dh = h]
  <2>1. PICK hit : hit = {x \in store : x.alias = m.dh}
    OBVIOUS
  <2>2. CASE hit = {} \/ ~Configured(cfg)
    BY <2>1, <2>2 DEF Restore
  <2>3. CASE ~(hit = {} \/ ~Configured(cfg))
    <3>1. PICK x \in hit : x = CHOOSE y \in hit : TRUE
      BY <2>3
    <3>2. x.host \in Identity
      BY <2>1 DEF Data
    <3>3. r = [m EXCEPT !.dh = x.host]
      BY <2>1, <2>3, <3>1 DEF Restore
    <3> QED  BY <3>2, <3>3
  <2> QED  BY <2>2, <2>3
<1>2. CASE r = m
  BY <1>2
<1>3. ASSUME NEW h \in Identity, r = [m EXCEPT !.dh = h]
      PROVE  /\ IsMessage(r) /\ r.oh = m.oh /\ r.or = m.or /\ r.dr = m.dr /\ r.app = m.app /\ r.kind = m.kind
  <2>1. DOMAIN m = Fields
    BY DEF IsMessage
  <2>2. /\ DOMAIN r = Fields /\ r.oh = m.oh /\ r.or = m.or /\ r.dr = m.dr /\ r.app = m.app
        /\ r.kind = m.kind /\ r.dh = h
    BY <1>3, <2>1 DEF Fields
  <2> QED  BY <2>2 DEF IsMessage, Target, Destination
<1> QED  BY <1>1, <1>2, <1>3

\* The request that leaves the incoming handlers.
LEMMA ScreenedFields ==
    ASSUME Data, NEW m, IsMessage(m), NEW r,
           r = AddProxyInfo([Restore(m) EXCEPT !.rr = @ \cup {cfg.identity}])
    PROVE  /\ IsMessage(r) /\ r.oh = m.oh /\ r.or = m.or /\ r.kind = m.kind
<1>1. PICK x : x = Restore(m)
  OBVIOUS
<1>2. IsMessage(x) /\ x.oh = m.oh /\ x.or = m.or /\ x.kind = m.kind
  BY <1>1, RestoreFields
<1>3. PICK a, b : r = [[x EXCEPT !.rr = a] EXCEPT !.proxy = b]
  BY <1>1 DEF AddProxyInfo
<1>4. DOMAIN x = Fields
  BY <1>2 DEF IsMessage
<1>5. /\ DOMAIN r = Fields /\ r.oh = x.oh /\ r.or = x.or /\ r.dh = x.dh /\ r.dr = x.dr
      /\ r.app = x.app /\ r.kind = x.kind
  BY <1>3, <1>4 DEF Fields
<1> QED  BY <1>2, <1>5 DEF IsMessage, Target, Destination

\* What mask may return.
LEMMA MaskedBy ==
    ASSUME Data, NEW p, NEW h, NEW a \in Aliases(p, h)
    PROVE  IF MustMask(cfg, p, h) THEN a \in Alias \cup {p.edgeIdentity} ELSE a = h
<1>1. PICK known : known = {x.alias : x \in {x \in store : x.host = h}}
  OBVIOUS
<1>2. known \subseteq Alias
  BY <1>1 DEF Data
<1>3. a \in IF ~MustMask(cfg, p, h) THEN {h}
            ELSE IF p.mode # "stateful" THEN {p.edgeIdentity}
            ELSE IF known # {} THEN known ELSE (Alias \ used) \cup {p.edgeIdentity}
  BY <1>1 DEF Aliases
<1> QED  BY <1>2, <1>3

\* A job that is hidden for nobody goes on as it is, any other with a message that was
\* hidden by the policy of the partner.
HidesBy(name) == name # None /\ Configured(cfg) /\ Partner(cfg, name).mode # "none"

LEMMA HideOutcome ==
    ASSUME Data, cfg \in Config, NEW name \in Partners(cfg) \cup {NoName}, NEW j, HideFor(name, j),
           IsMessage(j.msg),
           j = [pc |-> j.pc, from |-> j.from, was |-> j.was, msg |-> j.msg, excl |-> j.excl, next |-> j.next, at |-> j.at]
    PROVE  /\ \E r : /\ job' = [pc |-> j.pc, from |-> j.from, was |-> j.was, msg |-> r, excl |-> j.excl,
                               next |-> j.next, at |-> j.at]
                     /\ IsMessage(r)
                     /\ ~HidesBy(name) => r = j.msg
                     /\ HidesBy(name) => \E a \in Aliases(Partner(cfg, name), j.msg.oh) :
                                            r = Hide(cfg, Partner(cfg, name), j.msg, a)
           /\ \A x \in store' : x.alias \in Alias /\ x.host \in Identity
<1>1. CASE ~HidesBy(name)
  <2>1. job' = j /\ store' = store
    BY <1>1 DEF HideFor, HidesBy
  <2> QED  BY <1>1, <2>1 DEF Data
<1>2. CASE HidesBy(name)
  <2>1. PICK p : p = Partner(cfg, name)
    OBVIOUS
  <2>2. PICK a \in Aliases(p, j.msg.oh) :
          job' = [j EXCEPT !.msg = Hide(cfg, p, j.msg, a)] /\ Remember(a, j.msg.oh)
    BY <1>2, <2>1 DEF HideFor, HidesBy
  <2>3. PICK r : r = Hide(cfg, p, j.msg, a)
    OBVIOUS
  <2>4. job' = [pc |-> j.pc, from |-> j.from, was |-> j.was, msg |-> r, excl |-> j.excl, next |-> j.next, at |-> j.at]
    BY <2>2, <2>3
  <2>5. p.edgeIdentity \in Identity
    <3>1. name \in Partners(cfg)
      BY <1>2, NamesAgree DEF HidesBy
    <3>2. p \in Elems(cfg.partners)
      BY <2>1, <3>1, PartnerKnown
    <3> QED  BY <3>2, HostAssumption
  <2>6. IF MustMask(cfg, p, j.msg.oh) THEN a \in Alias \cup {p.edgeIdentity} ELSE a = j.msg.oh
    BY <2>2, MaskedBy
  <2>7. IsMessage(r)
    <3>1. DOMAIN j.msg = Fields
      BY DEF IsMessage
    <3>2. /\ DOMAIN r = Fields /\ r.dh = j.msg.dh /\ r.dr = j.msg.dr /\ r.app = j.msg.app
          /\ r.oh = IF MustMask(cfg, p, j.msg.oh) THEN a ELSE j.msg.oh
      <4>1. HiddenAs(cfg, p, j.msg, a, r)
        BY <2>3, <3>1, HideFields
      <4> QED  BY <4>1 DEF HiddenAs
    <3>3. r.oh \in Identity \cup {None}
      BY <2>5, <2>6, <3>2, AliasAssumption DEF IsMessage
    <3> QED  BY <3>2, <3>3 DEF IsMessage, Target, Destination
  <2>8. \A x \in store' : x.alias \in Alias /\ x.host \in Identity
    <3>1. CASE a \in Alias \ used /\ a # j.msg.oh
      <4>1. j.msg.oh \in Identity
        BY <2>6, <3>1, NamesAgree DEF MustMask, IsMessage
      <4>2. store' = store \cup {[alias |-> a, host |-> j.msg.oh]}
        BY <2>2, <3>1 DEF Remember
      <4> QED  BY <3>1, <4>1, <4>2 DEF Data
    <3>2. CASE ~(a \in Alias \ used /\ a # j.msg.oh)
      BY <2>2, <3>2 DEF Remember, Data
    <3> QED  BY <3>1, <3>2
  <2> QED  BY <1>2, <2>1, <2>2, <2>3, <2>4, <2>7, <2>8
<1> QED  BY <1>1, <1>2

\* A step after which no connection is new and bindings are taken away at most.
LEMMA SiteStays ==
    ASSUME Claims, Places, Kept, \A o \in Obj : conn'[o].st # "new" => conn[o].st # "new",
           \A i \in Identity : bound'[i] \in {bound[i], NoName}
    PROVE  Claims' /\ Places'
<1>1. cfg' = cfg
  BY DEF Kept
<1>2. Claims'
  BY <1>1 DEF Claims
<1>3. ASSUME NEW o \in Obj, conn'[o].st # "new" PROVE Placed(o)'
  <2>1. /\ Placed(o) /\ conn'[o].zone = conn[o].zone /\ conn'[o].host = conn[o].host
        /\ conn'[o].partner = conn[o].partner
    BY <1>3 DEF Places, Kept
  <2>2. Listed(o)' = Listed(o) /\ External(o)' = External(o)
    BY <1>1, <2>1 DEF Listed, External
  <2> QED  BY <1>1, <2>1, <2>2 DEF Placed
<1> QED  BY <1>2, <1>3 DEF Places

\* So does the table, as long as nobody touches it.
LEMMA LinksStay ==
    ASSUME Links, Kept, peers' = peers, \A o \in Obj : conn[o].st = "open" => conn'[o].st = "open"
    PROVE  Links'
  BY DEF Links, Kept

\* A connection that is not the only one of its host does not become so.
LEMMA SoleStays ==
    ASSUME EdgeInv, Holds, Kept, NEW o, Made(o), Sole(o)'
    PROVE  Sole(o)
<1> SUFFICES ASSUME NEW x \in Obj \ {o}, conn[x].host = conn[o].host PROVE FALSE
  BY DEF Sole
<1>1. conn[o].host \in Identity /\ conn'[o].host = conn[o].host
  BY DEF EdgeInv, Shape, Made, Kept
<1>2. conn[x].st # "new"
  BY <1>1, HostAssumption DEF Holds, BoundTo
<1>3. conn'[x].host = conn'[o].host
  BY <1>1, <1>2 DEF Kept
<1> QED  BY <1>3 DEF Sole

\* What a new connection, or one that leaves, does to the bindings of the others.
LEMMA OthersHold ==
    ASSUME EdgeInv, Holds, Kept, NEW o \in Obj, NEW x \in Obj \ {o}, conn'[x] = conn[x],
           conn'[o].host \in Identity,
           \A i \in Identity : bound'[i] # bound[i] => i = conn'[o].host
    PROVE  BoundTo(x)'
<1>1. cfg' = cfg /\ BoundTo(x)
  BY DEF Kept, Holds
<1>2. CASE conn[x].st = "new"
  BY <1>1, <1>2 DEF BoundTo, Alive
<1>3. CASE conn[x].st # "new"
  <2> SUFFICES ASSUME Alive(x)', Sole(x)', StaticPartner(cfg, conn[x].host) = NoName,
                      conn[x].partner # NoName
               PROVE  bound'[conn[x].host] = conn[x].partner
    BY <1>1, <1>3 DEF BoundTo
  <2>1. Alive(x) /\ Sole(x)
    BY <1>3, SoleStays DEF Alive, Made
  <2>2. bound[conn[x].host] = conn[x].partner
    BY <1>1, <2>1 DEF BoundTo
  <2>3. conn[x].host # conn'[o].host
    BY DEF Sole
  <2>4. conn[x].host \in Identity
    BY <1>3 DEF EdgeInv, Shape
  <2> QED  BY <2>2, <2>3, <2>4
<1> QED  BY <1>2, <1>3

\* A step that leaves the connections and the bindings alone.
LEMMA HoldsStays ==
    ASSUME Holds, UNCHANGED <<cfg, conn, bound>>
    PROVE  Holds'
  BY DEF Holds, BoundTo, Alive, Sole

LEMMA OwnedByList ==
    ASSUME NEW h \in Identity, NEW b
    PROVE  /\ StaticPartner(cfg, h) # NoName => PartnerForPeer(cfg, b, h) = StaticPartner(cfg, h)
           /\ StaticPartner(cfg, h) = NoName =>
                 PartnerForPeer(cfg, b, h) = IF b[h] \in Partners(cfg) THEN b[h] ELSE NoName
  BY HostAssumption, NamesAgree DEF PartnerForPeer

LEMMA AcceptSite ==
    ASSUME EdgeInv, SiteInv, PartnersOutside, OneZone, NEW o \in Obj, NEW cer \in Cer, Accept(o, cer)
    PROVE  Claims' /\ Places' /\ Holds'
<1>1. PICK zone : zone = CHOOSE z \in Elems(EffectiveZones(cfg)) : z.name = cer.zone
  OBVIOUS
<1>2. PICK h : h = cer.host
  OBVIOUS
<1>3. PICK res : res = AdmitPeer(cfg, bound, zone, cer.cert, h, RealmOf[h])
  OBVIOUS
<1>4. /\ conn[o].st = "new" /\ res.ok /\ cfg' = cfg
      /\ conn' = [conn EXCEPT ![o] = [st |-> "admitted", zone |-> cer.zone, host |-> h,
                                      partner |-> res.partner]]
      /\ bound' = BindPeer(cfg, bound, h, res.partner)
  BY <1>1, <1>2, <1>3 DEF Accept, Fresh
<1>5. h \in Identity /\ cfg \in Config /\ ValidateEdge(cfg)
  BY <1>2, HostAssumption DEF EdgeInv, Shape, Config
<1>6. zone.name = cer.zone
  <2>1. \E z \in Elems(EffectiveZones(cfg)) : z.name = cer.zone
    BY DEF Accept
  <2> QED  BY <1>1, <2>1
<1>7. /\ conn'[o] = [st |-> "admitted", zone |-> cer.zone, host |-> h, partner |-> res.partner]
      /\ \A x \in Obj \ {o} : conn'[x] = conn[x]
  BY <1>4 DEF EdgeInv, Shape
<1>8. /\ \A i \in Identity \ {h} : bound'[i] = bound[i]
      /\ \/ bound'[h] = bound[h]
         \/ bound'[h] = res.partner /\ res.partner # NoName /\ StaticPartner(cfg, h) = NoName
  BY <1>4, <1>5 DEF EdgeInv, Shape, BindPeer
<1>9. \/ /\ res.partner = PartnerForPeer(cfg, bound, h) /\ res.partner # NoName
         /\ Partner(cfg, res.partner).zone = zone.name
      \/ PartnerForPeer(cfg, bound, h) = NoName /\ res.partner = PartnerForRealm(cfg, RealmOf[h])
      \/ PartnerForPeer(cfg, bound, h) = NoName /\ res.partner = NoName
  BY <1>3, <1>4, AdmittedAs
<1>10. Claims'
  <2> SUFFICES ASSUME NEW i \in Identity, bound'[i] \in Partners(cfg) \ {NoName}
               PROVE  bound'[i] = PartnerForRealm(cfg, RealmOf[i])
    BY <1>4 DEF Claims
  <2>1. CASE bound'[i] = bound[i]
    BY <2>1 DEF SiteInv, Claims
  <2>2. CASE bound'[i] # bound[i]
    <3>1. i = h /\ bound'[h] = res.partner /\ res.partner # NoName /\ StaticPartner(cfg, h) = NoName
      BY <2>2, <1>8
    <3>2. PartnerForPeer(cfg, bound, h) \in {bound[h], NoName}
      BY <1>5, <3>1, OwnedByList
    <3> QED  BY <1>9, <2>2, <3>1, <3>2
  <2> QED  BY <2>1, <2>2
<1>11. ASSUME NEW x \in Obj \ {o}, conn'[x].st # "new" PROVE Placed(x)'
  <2>1. Placed(x) /\ conn'[x] = conn[x]
    BY <1>7, <1>11 DEF SiteInv, Places
  <2> QED  BY <1>4, <2>1 DEF Placed, Listed, External
<1>12. res.partner \in Partners(cfg) \cup {NoName}
  <2>1. RealmOf[h] \in Realm
    BY <1>5, NameAssumption
  <2>2. PartnerForRealm(cfg, RealmOf[h]) \in Partners(cfg) \cup {NoName}
    BY <1>5, <2>1, RealmOwner
  <2> QED  BY <1>9, <2>2, OwnerKnown
<1>13. ASSUME StaticPartner(cfg, h) # NoName
       PROVE  res.partner = StaticPartner(cfg, h) /\ IsExternalZone(cfg, cer.zone)
  <2>1. res.partner = StaticPartner(cfg, h) /\ Partner(cfg, res.partner).zone = cer.zone
    BY <1>5, <1>6, <1>9, <1>13, OwnedByList
  <2>2. res.partner \in Partners(cfg)
    BY <1>12, <1>13, <2>1
  <2>3. Partner(cfg, res.partner) \in Elems(cfg.partners)
    BY <2>2, PartnerKnown
  <2> QED  BY <1>5, <2>1, <2>3 DEF PartnersOutside
<1>14. ASSUME StaticPartner(cfg, h) = NoName, NEW pc \in Elems(cfg.peers), pc.identity = h
       PROVE  ~IsExternalZone(cfg, cer.zone)
  BY <1>2, <1>5, <1>14 DEF PartnersOutside
<1>15. Placed(o)'
  <2>1. conn'[o].partner = res.partner /\ conn'[o].host = h /\ conn'[o].zone = cer.zone
    BY <1>7
  <2>2. External(o)' = IsExternalZone(cfg, cer.zone)
    BY <1>4, <2>1 DEF External
  <2>3. Listed(o)' => StaticPartner(cfg, h) # NoName \/ \E pc \in Elems(cfg.peers) : pc.identity = h
    BY <1>4, <2>1, NamesAgree DEF Listed
  <2>4. Listed(o)' => (External(o)' <=> StaticPartner(cfg, h) # NoName)
    BY <1>13, <1>14, <2>2, <2>3
  <2> QED  BY <1>4, <1>12, <1>13, <2>1, <2>4 DEF Placed
<1>16. Kept
  BY AcceptStep
<1>17. ASSUME NEW x \in Obj \ {o} PROVE BoundTo(x)'
  BY <1>5, <1>7, <1>8, <1>16, OthersHold DEF SiteInv
<1>18. BoundTo(o)'
  <2> SUFFICES ASSUME StaticPartner(cfg, h) = NoName, res.partner # NoName PROVE bound'[h] = res.partner
    BY <1>4, <1>7 DEF BoundTo
  <2> QED  BY <1>4, <1>5 DEF BindPeer, EdgeInv, Shape
<1> QED  BY <1>10, <1>11, <1>15, <1>17, <1>18 DEF Places, Holds

LEMMA ConnectSite ==
    ASSUME EdgeInv, SiteInv, PartnersOutside, OneZone, NEW o \in Obj, NEW pc \in Elems(cfg.peers),
           ConnectToPeer(o, pc)
    PROVE  Claims' /\ Places' /\ Holds'
<1>1. PICK h, z, p : /\ h = pc.identity /\ z = Default(pc.zone, ZoneNameForPeer(cfg, pc.identity))
                     /\ p = PartnerForPeer(cfg, bound, pc.identity)
  OBVIOUS
<1>2. /\ conn[o].st = "new" /\ cfg' = cfg /\ bound' = bound
      /\ conn' = [conn EXCEPT ![o] = [st |-> "admitted", zone |-> z, host |-> h, partner |-> p]]
  BY <1>1 DEF ConnectToPeer, Fresh
<1>3. h \in Identity /\ cfg \in Config
  BY <1>1, HostAssumption DEF EdgeInv, Shape
<1>4. /\ conn'[o] = [st |-> "admitted", zone |-> z, host |-> h, partner |-> p]
      /\ \A x \in Obj \ {o} : conn'[x] = conn[x]
  BY <1>2 DEF EdgeInv, Shape
<1>5. Claims'
  BY <1>2 DEF SiteInv, Claims
<1>6. ASSUME NEW x \in Obj \ {o}, conn'[x].st # "new" PROVE Placed(x)'
  <2>1. Placed(x) /\ conn'[x] = conn[x]
    BY <1>4, <1>6 DEF SiteInv, Places
  <2> QED  BY <1>2, <2>1 DEF Placed, Listed, External
<1>7. IsExternalZone(cfg, z) <=> StaticPartner(cfg, h) # NoName
  BY <1>1, <1>3 DEF PartnersOutside
<1>8. Placed(o)'
  <2>1. conn'[o].partner = p /\ conn'[o].host = h /\ conn'[o].zone = z
    BY <1>4
  <2>2. External(o)' = IsExternalZone(cfg, z)
    BY <1>2, <2>1 DEF External
  <2>3. p \in Partners(cfg) \cup {NoName}
    BY <1>1, OwnerKnown
  <2>4. StaticPartner(cfg, h) # NoName => p = StaticPartner(cfg, h)
    BY <1>1, <1>3, OwnedByList
  <2> QED  BY <1>2, <1>7, <2>1, <2>2, <2>3, <2>4 DEF Placed
<1>9. Kept
  BY ConnectStep
<1>10. ASSUME NEW x \in Obj \ {o} PROVE BoundTo(x)'
  BY <1>2, <1>3, <1>4, <1>9, OthersHold DEF SiteInv
<1>11. BoundTo(o)'
  <2> SUFFICES ASSUME StaticPartner(cfg, h) = NoName, p # NoName PROVE bound[h] = p
    BY <1>2, <1>4 DEF BoundTo
  <2> QED  BY <1>1, <1>3, OwnedByList
<1> QED  BY <1>5, <1>6, <1>8, <1>10, <1>11 DEF Places, Holds

\* A step of RouteIn leaves the table, the connections and the registry alone.
LEMMA SiteRoutes ==
    ASSUME SiteInv, UNCHANGED <<cfg, conn, bound, peers>>
    PROVE  Links' /\ Claims' /\ Places' /\ Holds'
<1>1. Kept
  BY DEF Kept
<1>2. \A i \in Identity : bound'[i] \in {bound[i], NoName}
  OBVIOUS
<1> QED  BY <1>1, <1>2, SiteStays, LinksStay, HoldsStays DEF SiteInv

LEMMA HostOfMade == ASSUME EdgeInv, NEW o, Made(o) PROVE conn[o].host \in Identity
  BY DEF EdgeInv, Shape, Made

\* The partner that hides for the next hop is one of the configuration.
LEMMA HiderKnown ==
    ASSUME NEW m, NEW n, NEW t
    PROVE  /\ PostRoutePartner(m, n) \in Partners(cfg) \cup {NoName}
           /\ AnswerPartner(t) \in Partners(cfg) \cup {NoName}
<1>1. AnswerPartner(t) \in Partners(cfg) \cup {NoName}
  BY OwnerKnown DEF AnswerPartner
<1>2. PICK p : p = PartnerForPeer(cfg, bound, n)
  OBVIOUS
<1>3. p \in Partners(cfg) \cup {NoName}
  BY <1>2, OwnerKnown
<1>4. PostRoutePartner(m, n) \in {None, p}
  BY <1>2 DEF PostRoutePartner
<1> QED  BY <1>1, <1>3, <1>4, NamesAgree

\* A next hop is somebody: candidates come from the routes, from the message, from the
\* connected peers and from the partners.
LEMMA HopKnown ==
    ASSUME cfg \in Config, NEW m, IsMessage(m), NEW excl, NEW n \in NextHops(m, excl)
    PROVE  n \in Identity
<1>1. PICK live : live = {i \in Identity : peers[i] # None}
  OBVIOUS
<1>2. PICK cands : cands = BuildCandidates(Target(m), live)
  OBVIOUS
<1>3. PICK t : t = Target(m)
  OBVIOUS
<1>4. t.host \in Identity \cup {None} /\ t.realm \in Realm \cup {None} /\ t.app \in App
  BY <1>3 DEF IsMessage, Destination
<1>5. ASSUME NEW x \in cands PROVE x.peer \in Identity
  <2>1. PICK realm : realm = IF t.realm # None THEN t.realm ELSE defaultRealm
    OBVIOUS
  <2>2. realm \in Realm \cup {None}
    BY <1>4, <2>1, RouteAssumption
  <2>3. PICK static : static = IF realm = None THEN {} ELSE realmRoutes[realm]
    OBVIOUS
  <2>4. static \subseteq Identity
    BY <2>2, <2>3, RouteAssumption
  <2>5. PICK now : now = IF dynamicRealmPeers /\ realm # None THEN {i \in live : RealmOf[i] = realm} ELSE {}
    OBVIOUS
  <2>6. now \subseteq Identity
    BY <1>1, <2>5
  <2>7. PICK apps : apps = appRoutes[t.app]
    OBVIOUS
  <2>8. \A k \in DOMAIN apps : apps[k] \in Identity
    <3>1. apps \in Seq(Identity)
      BY <1>4, <2>7, RouteAssumption
    <3> QED  BY <3>1
  <2>9. cands = IF t.host # None /\ hostRoutes[t.host] # None
                THEN Route({hostRoutes[t.host]}, 1000)
                ELSE Route({t.host} \ {None}, 500) \cup Route(static, 100)
                       \cup Route(now \ (({t.host} \ {None}) \cup static), 90)
                       \cup UNION {Route({apps[k]}, 201 - k) : k \in DOMAIN apps}
    BY <1>2, <1>3, <2>1, <2>3, <2>5, <2>7 DEF BuildCandidates
  <2>10. CASE t.host # None /\ hostRoutes[t.host] # None
    <3>1. hostRoutes[t.host] \in Identity
      BY <1>4, <2>10, RouteAssumption
    <3> QED  BY <2>9, <2>10, <3>1 DEF Route
  <2>11. CASE ~(t.host # None /\ hostRoutes[t.host] # None)
    <3>1. PICK y \in Identity : \E k : x \in Route({y}, k)
      <4>1. \/ x \in Route({t.host} \ {None}, 500) \/ x \in Route(static, 100)
            \/ x \in Route(now \ (({t.host} \ {None}) \cup static), 90)
            \/ \E k \in DOMAIN apps : x \in Route({apps[k]}, 201 - k)
        BY <1>5, <2>9, <2>11
      <4> QED  BY <1>4, <2>4, <2>6, <2>8, <4>1 DEF Route
    <3> QED  BY <3>1 DEF Route
  <2> QED  BY <2>10, <2>11
<1>6. PICK cs \in DeaRoute(cfg, bound, m, cands, 300) : n \in BestTier(cs, excl)
  BY <1>1, <1>2 DEF NextHops
<1>7. PICK x \in cs : x.peer = n
  BY <1>6 DEF BestTier, Top
<1>8. PICK dest, kept : /\ dest = OwnerOf(cfg, bound, m.dh, m.dr)
                        /\ kept = DropForeignExternal(cfg, bound, cands, dest)
  OBVIOUS
<1>9. CASE x \in cands
  BY <1>5, <1>7, <1>9
<1>10. CASE x \notin cands
  <2>1. kept \subseteq cands
    BY <1>8 DEF DropForeignExternal
  <2>2. PICK origin : origin = OwnerOf(cfg, bound, m.oh, m.or)
    OBVIOUS
  <2>3. DeaRoute(cfg, bound, m, cands, 300) =
          IF ~Configured(cfg) THEN {cands}
          ELSE IF origin # NoName /\ dest # NoName /\ origin # dest /\ ~Partner(cfg, origin).allowTransit
          THEN {{}}
          ELSE IF dest = NoName THEN {kept}
          ELSE IF Partner(cfg, dest).peers = <<>> THEN {kept}
          ELSE {kept \cup PartnerRoutes(Partner(cfg, dest), w, 300) : w \in Winners(Partner(cfg, dest))}
    BY <1>8, <2>2 DEF DeaRoute
  <2>4. dest # NoName /\ \E w : x \in PartnerRoutes(Partner(cfg, dest), w, 300)
    BY <1>6, <1>7, <1>10, <2>1, <2>3
  <2>5. PICK pp \in Elems(Partner(cfg, dest).peers) : pp.identity = n
    BY <1>7, <2>4 DEF PartnerRoutes
  <2>6. dest \in Partners(cfg)
    <3>1. dest = PartnerForPeer(cfg, bound, m.dh) \/ dest = PartnerForRealm(cfg, m.dr)
      BY <1>8 DEF OwnerOf
    <3>2. m.dr \in Realm \cup {None}
      BY DEF IsMessage, Target, Destination
    <3> QED  BY <2>4, <3>1, <3>2, OwnerKnown, RealmOwner
  <2>7. Partner(cfg, dest) \in Elems(cfg.partners)
    BY <2>6, PartnerKnown
  <2> QED  BY <2>5, <2>7, HostAssumption
<1> QED  BY <1>9, <1>10

\* The choice of one next hop.
Chooses(n) ==
    /\ job.pc = "route" /\ n \in NextHops(job.msg, job.excl)
    /\ HideFor(PostRoutePartner(job.msg, n), [job EXCEPT !.pc = "send", !.next = n, !.at = peers[n]])
    /\ UNCHANGED <<cfg, connVars, txn, nreq, last>>

LEMMA SomeChosen == ChooseHop => \E n : Chooses(n)
  BY DEF ChooseHop, Chooses

\* The message in RouteIn after a next hop was chosen.
LEMMA Chosen ==
    ASSUME EdgeInv, SiteInv, NEW n, Chooses(n)
    PROVE  /\ UNCHANGED <<cfg, conn, bound, peers, txn, last>> /\ job.pc = "route" /\ n \in Identity
           /\ n \in NextHops(job.msg, job.excl) /\ IsMessage(job.msg)
           /\ job.was.kind = "req" => Requested(job.was)
           /\ \A x \in store' : x.alias \in Alias /\ x.host \in Identity
           /\ \E r : /\ job' = [pc |-> "send", from |-> job.from, was |-> job.was, msg |-> r,
                               excl |-> job.excl, next |-> n, at |-> peers[n]]
                     /\ IsMessage(r)
                     /\ ~HidesBy(PostRoutePartner(job.msg, n)) => r = job.msg
                     /\ HidesBy(PostRoutePartner(job.msg, n)) =>
                           \E a \in Aliases(Partner(cfg, PostRoutePartner(job.msg, n)), job.msg.oh) :
                              r = Hide(cfg, Partner(cfg, PostRoutePartner(job.msg, n)), job.msg, a)
<1>1. PICK name, j : /\ name = PostRoutePartner(job.msg, n) /\ HideFor(name, j)
                     /\ j = [job EXCEPT !.pc = "send", !.next = n, !.at = peers[n]]
  BY DEF Chooses
<1>2. j = [pc |-> "send", from |-> job.from, was |-> job.was, msg |-> job.msg, excl |-> job.excl,
           next |-> n, at |-> peers[n]]
  BY <1>1 DEF EdgeInv, Shape
<1>3. /\ job.pc = "route" /\ IsMessage(job.msg) /\ Data /\ cfg \in Config
      /\ job.was.kind = "req" => Requested(job.was)
  BY DEF Chooses, SiteInv, Data, EdgeInv, Shape
<1>4. name \in Partners(cfg) \cup {NoName}
  BY <1>1, HiderKnown
<1>5. /\ \E r : /\ job' = [pc |-> j.pc, from |-> j.from, was |-> j.was, msg |-> r, excl |-> j.excl,
                           next |-> j.next, at |-> j.at]
                /\ IsMessage(r)
                /\ ~HidesBy(name) => r = j.msg
                /\ HidesBy(name) => \E a \in Aliases(Partner(cfg, name), j.msg.oh) :
                                       r = Hide(cfg, Partner(cfg, name), j.msg, a)
      /\ \A x \in store' : x.alias \in Alias /\ x.host \in Identity
  <2>1. IsMessage(j.msg)
    BY <1>2, <1>3
  <2>2. j = [pc |-> j.pc, from |-> j.from, was |-> j.was, msg |-> j.msg, excl |-> j.excl,
             next |-> j.next, at |-> j.at]
    BY <1>2
  <2> QED  BY <1>1, <1>3, <1>4, <2>1, <2>2, HideOutcome
<1>6. /\ j.pc = "send" /\ j.from = job.from /\ j.was = job.was /\ j.msg = job.msg
      /\ j.excl = job.excl /\ j.next = n /\ j.at = peers[n]
  BY <1>2
<1>7. UNCHANGED <<cfg, conn, bound, peers, txn, last>> /\ n \in NextHops(job.msg, job.excl)
  BY DEF Chooses, connVars
<1>8. n \in Identity
  BY <1>3, <1>7, HopKnown
<1> QED  BY <1>1, <1>3, <1>5, <1>6, <1>7, <1>8

\* An answer to a transaction whose previous hop was found to be i.
Receives(o, t, w, i) ==
    /\ conn[o].st = "open" /\ t \in txn /\ w \in Answers[conn[o].host] /\ i \in Found(t.orig)
    /\ txn' = txn \ {t} /\ last' = {}
    /\ HideFor(AnswerPartner([t EXCEPT !.orig = i]),
               [Idle EXCEPT !.pc = "back", !.from = o, !.was = w, !.msg = w, !.next = i, !.at = Previous(i)])
    /\ UNCHANGED <<cfg, connVars, nreq>>

LEMMA SomeReceived ==
    ASSUME NEW o, NEW t, NEW w, RcvAnswer(o, t, w) PROVE \E i : Receives(o, t, w, i)
  BY DEF RcvAnswer, Receives

\* The answer in RouteIn.
LEMMA Answered ==
    ASSUME EdgeInv, SiteInv, NEW o \in Obj, NEW t, NEW w, NEW i, Receives(o, t, w, i),
           NEW name, name = AnswerPartner([t EXCEPT !.orig = i])
    PROVE  /\ UNCHANGED <<cfg, conn, bound, peers>> /\ txn' \subseteq txn /\ last' = {}
           /\ IsMessage(w) /\ w.kind = "ans" /\ w \in Answers[conn[o].host] /\ conn[o].host \in Identity
           /\ i \in Identity \cup {None}
           /\ \A x \in store' : x.alias \in Alias /\ x.host \in Identity
           /\ \E r : /\ job' = [pc |-> "back", from |-> o, was |-> w, msg |-> r, excl |-> {}, next |-> i,
                               at |-> Previous(i)]
                     /\ IsMessage(r)
                     /\ ~HidesBy(name) => r = w
                     /\ HidesBy(name) => \E a \in Aliases(Partner(cfg, name), w.oh) :
                                            r = Hide(cfg, Partner(cfg, name), w, a)
<1>1. PICK j : /\ HideFor(name, j)
               /\ j = [Idle EXCEPT !.pc = "back", !.from = o, !.was = w, !.msg = w, !.next = i,
                                   !.at = Previous(i)]
  BY DEF Receives
<1>2. j = [pc |-> "back", from |-> o, was |-> w, msg |-> w, excl |-> {}, next |-> i, at |-> Previous(i)]
  BY <1>1 DEF Idle
<1>3. Data /\ cfg \in Config /\ i \in Identity \cup {None}
  BY DEF SiteInv, Data, EdgeInv, Shape, Receives, Found
<1>4. IsMessage(w) /\ w.kind = "ans" /\ w \in Answers[conn[o].host] /\ conn[o].host \in Identity
  <2>1. conn[o].host \in Identity /\ w \in Answers[conn[o].host]
    BY HostOfMade DEF Receives, Made
  <2> QED  BY <2>1, MessageAssumption, KindAssumption DEF IsMessage
<1>5. name \in Partners(cfg) \cup {NoName}
  BY HiderKnown
<1>6. /\ \E r : /\ job' = [pc |-> j.pc, from |-> j.from, was |-> j.was, msg |-> r, excl |-> j.excl,
                           next |-> j.next, at |-> j.at]
                /\ IsMessage(r)
                /\ ~HidesBy(name) => r = j.msg
                /\ HidesBy(name) => \E a \in Aliases(Partner(cfg, name), j.msg.oh) :
                                       r = Hide(cfg, Partner(cfg, name), j.msg, a)
      /\ \A x \in store' : x.alias \in Alias /\ x.host \in Identity
  <2>1. IsMessage(j.msg)
    BY <1>2, <1>4
  <2>2. j = [pc |-> j.pc, from |-> j.from, was |-> j.was, msg |-> j.msg, excl |-> j.excl,
             next |-> j.next, at |-> j.at]
    BY <1>2
  <2> QED  BY <1>1, <1>3, <1>5, <2>1, <2>2, HideOutcome
<1>7. /\ j.pc = "back" /\ j.from = o /\ j.was = w /\ j.msg = w /\ j.excl = {} /\ j.next = i
      /\ j.at = Previous(i)
  BY <1>2
<1>8. UNCHANGED <<cfg, conn, bound, peers>> /\ txn' \subseteq txn /\ last' = {}
  BY DEF Receives, connVars
<1> QED  BY <1>3, <1>4, <1>6, <1>7, <1>8

\* An answer that does not find its way back goes on, its routing data as it was.
LEMMA GoesOn ==
    ASSUME EdgeInv, SiteInv, SendBack
    PROVE  /\ UNCHANGED <<cfg, conn, bound, peers, txn, store>> /\ job.pc = "back"
           /\ \/ job' = Idle
              \/ /\ last' = last
                 /\ \E r : /\ job' = [pc |-> "route", from |-> job.from, was |-> job.was, msg |-> r,
                                      excl |-> job.excl, next |-> job.next, at |-> job.at]
                           /\ IsMessage(r) /\ r.oh = job.msg.oh /\ r.or = job.msg.or
                           /\ r.dh = job.msg.dh /\ r.dr = job.msg.dr /\ r.kind = job.msg.kind
<1>1. UNCHANGED <<cfg, conn, bound, peers, txn, store>> /\ job.pc = "back"
  BY DEF SendBack, connVars
<1>2. PICK x : x = job.msg
  OBVIOUS
<1>3. IsMessage(x)
  BY <1>1, <1>2 DEF SiteInv, Data
<1>4. ASSUME job' # Idle
      PROVE  /\ last' = last
             /\ \E m, b : /\ job' = [job EXCEPT !.pc = "route", !.msg = [m EXCEPT !.rr = b]]
                          /\ DOMAIN m = Fields /\ m.oh = x.oh /\ m.or = x.or /\ m.dh = x.dh
                          /\ m.dr = x.dr /\ m.app = x.app /\ m.kind = x.kind
  <2>1. PICK m \in {x, RemoveLocalProxyInfo(x)} :
           last' = last /\ job' = [job EXCEPT !.pc = "route", !.msg = [m EXCEPT !.rr = @ \cup {cfg.identity}]]
    BY <1>2, <1>4 DEF SendBack
  <2>2. DOMAIN x = Fields
    BY <1>3 DEF IsMessage
  <2>3. /\ DOMAIN m = Fields /\ m.oh = x.oh /\ m.or = x.or /\ m.dh = x.dh
        /\ m.dr = x.dr /\ m.app = x.app /\ m.kind = x.kind
    <3>1. CASE m = x
      BY <2>2, <3>1
    <3>2. CASE m = RemoveLocalProxyInfo(x)
      BY <2>2, <3>2 DEF RemoveLocalProxyInfo, Fields
    <3> QED  BY <3>1, <3>2
  <2> QED  BY <2>1, <2>3
<1>5. ASSUME job' # Idle
      PROVE  \E r : /\ job' = [pc |-> "route", from |-> job.from, was |-> job.was, msg |-> r,
                               excl |-> job.excl, next |-> job.next, at |-> job.at]
                    /\ IsMessage(r) /\ r.oh = x.oh /\ r.or = x.or /\ r.dh = x.dh /\ r.dr = x.dr
                    /\ r.kind = x.kind
  <2>1. PICK m, b : /\ job' = [job EXCEPT !.pc = "route", !.msg = [m EXCEPT !.rr = b]]
                    /\ DOMAIN m = Fields /\ m.oh = x.oh /\ m.or = x.or /\ m.dh = x.dh
                    /\ m.dr = x.dr /\ m.app = x.app /\ m.kind = x.kind
    BY <1>4, <1>5
  <2>2. PICK r : r = [m EXCEPT !.rr = b]
    OBVIOUS
  <2>3. /\ DOMAIN r = Fields /\ r.oh = x.oh /\ r.or = x.or /\ r.dh = x.dh /\ r.dr = x.dr
        /\ r.app = x.app /\ r.kind = x.kind
    BY <2>1, <2>2 DEF Fields
  <2>4. IsMessage(r)
    BY <1>3, <2>3 DEF IsMessage, Target, Destination
  <2>5. job' = [pc |-> "route", from |-> job.from, was |-> job.was, msg |-> r,
                excl |-> job.excl, next |-> job.next, at |-> job.at]
    BY <2>1, <2>2 DEF EdgeInv, Shape
  <2> QED  BY <2>3, <2>4, <2>5
<1> QED  BY <1>1, <1>2, <1>4, <1>5

\* The request in RouteIn after the incoming handlers.
LEMMA Screened ==
    ASSUME EdgeInv, SiteInv, ScreenRequest
    PROVE  /\ UNCHANGED <<cfg, conn, bound, peers, txn, store, last>> /\ job.pc = "screen"
           /\ \/ job' = Idle
              \/ \E r : /\ job' = [pc |-> "route", from |-> job.from, was |-> job.was, msg |-> r,
                                   excl |-> job.excl, next |-> job.next, at |-> job.at]
                        /\ IsMessage(r) /\ r.oh = job.was.oh /\ r.or = job.was.or /\ r.kind = "req"
<1>1. /\ job.pc = "screen" /\ job.msg = job.was /\ IsMessage(job.was) /\ Data
      /\ job.was.kind = "req"
  BY DEF ScreenRequest, EdgeInv, JobJudged, SiteInv, Data
<1>2. PICK r : r = AddProxyInfo([Restore(job.msg) EXCEPT !.rr = @ \cup {cfg.identity}])
  OBVIOUS
<1>3. job' = Idle \/ job' = [job EXCEPT !.pc = "route", !.msg = r]
  BY <1>2 DEF ScreenRequest
<1>4. IsMessage(r) /\ r.oh = job.was.oh /\ r.or = job.was.or /\ r.kind = "req"
  BY <1>1, <1>2, ScreenedFields
<1>5. job' = Idle \/ job' = [pc |-> "route", from |-> job.from, was |-> job.was, msg |-> r,
                            excl |-> job.excl, next |-> job.next, at |-> job.at]
  BY <1>3 DEF EdgeInv, Shape
<1>6. UNCHANGED <<cfg, conn, bound, peers, txn, store, last>>
  BY DEF ScreenRequest, connVars
<1> QED  BY <1>1, <1>4, <1>5, <1>6

LEMMA SiteStep ==
    ASSUME EdgeInv, SiteInv, OneZone, PartnersOutside, [Next]_vars
    PROVE  SiteInv'
<1>1. ASSUME UNCHANGED <<job, txn, store>> PROVE Data'
  BY <1>1 DEF SiteInv, Data
<1>2. ASSUME NEW o \in Obj, NEW cer \in Cer, Accept(o, cer) PROVE SiteInv'
  <2>1. Kept
    BY <1>2, AcceptStep
  <2>2. UNCHANGED <<peers, job, txn, store>>
    BY <1>2 DEF Accept
  <2>3. Claims' /\ Places' /\ Holds'
    BY <1>2, AcceptSite
  <2>4. \A x \in Obj : conn[x].st = "open" => conn'[x].st = "open"
    BY <1>2 DEF Accept, Fresh, EdgeInv, Shape
  <2> QED  BY <1>1, <2>1, <2>2, <2>3, <2>4, LinksStay DEF SiteInv
<1>3. ASSUME NEW o \in Obj, NEW pc \in Elems(cfg.peers), ConnectToPeer(o, pc) PROVE SiteInv'
  <2>1. Kept
    BY <1>3, ConnectStep
  <2>2. UNCHANGED <<peers, job, txn, store>>
    BY <1>3 DEF ConnectToPeer
  <2>3. Claims' /\ Places' /\ Holds'
    BY <1>3, ConnectSite
  <2>4. \A x \in Obj : conn[x].st = "open" => conn'[x].st = "open"
    BY <1>3 DEF ConnectToPeer, Fresh, EdgeInv, Shape
  <2> QED  BY <1>1, <2>1, <2>2, <2>3, <2>4, LinksStay DEF SiteInv
<1>4. ASSUME NEW o \in Obj, Made(o), NEW st, conn' = [conn EXCEPT ![o].st = st], cfg' = cfg,
             UNCHANGED <<job, txn, store>>,
             \/ /\ conn[o].st = "admitted" /\ st = "open" /\ bound' = bound
                /\ peers' = [peers EXCEPT ![conn[o].host] = o]
             \/ /\ conn[o].st = "open" /\ st = "lost" /\ bound' = bound
                /\ peers' = [peers EXCEPT ![conn[o].host] = None]
             \/ /\ conn[o].st = "lost" /\ st = "gone" /\ peers' = peers
                /\ bound' = UnbindPeer(bound, conn[o].host)
      PROVE  SiteInv'
  <2>1. Kept
    BY <1>4, LeaveStep DEF Made
  <2>2. PICK h : h = conn[o].host
    OBVIOUS
  <2>3. h \in Identity
    BY <1>4, <2>2, HostOfMade
  <2>4. /\ conn'[o].st = st /\ conn'[o].host = h /\ conn'[o].partner = conn[o].partner
        /\ \A x \in Obj \ {o} : conn'[x] = conn[x]
    BY <1>4, <2>2 DEF EdgeInv, Shape
  <2>5. /\ \A i \in Identity : bound'[i] \in {bound[i], NoName}
        /\ \A i \in Identity : bound'[i] # bound[i] => i = h
    BY <1>4, <2>2, <2>3 DEF EdgeInv, Shape, UnbindPeer
  <2>6. Claims' /\ Places'
    <3>1. \A x \in Obj : conn'[x].st # "new" => conn[x].st # "new"
      BY <1>4, <2>4 DEF Made
    <3> QED  BY <2>1, <2>5, <3>1, SiteStays DEF SiteInv
  <2>7. Holds'
    <3>1. ASSUME NEW x \in Obj \ {o} PROVE BoundTo(x)'
      BY <2>1, <2>3, <2>4, <2>5, OthersHold DEF SiteInv
    <3>2. BoundTo(o)'
      <4>1. CASE st = "open" /\ conn[o].st = "admitted" /\ bound' = bound
        <5> SUFFICES ASSUME Sole(o)', StaticPartner(cfg, h) = NoName, conn[o].partner # NoName
                     PROVE  bound[h] = conn[o].partner
          BY <1>4, <2>4, <4>1 DEF BoundTo
        <5>1. Sole(o)
          BY <1>4, <2>1, SoleStays DEF SiteInv
        <5> QED  BY <2>2, <4>1, <5>1 DEF SiteInv, Holds, BoundTo, Alive
      <4>2. CASE st \in {"lost", "gone"}
        BY <2>4, <4>2 DEF BoundTo, Alive
      <4> QED  BY <1>4, <4>1, <4>2
    <3> QED  BY <3>1, <3>2 DEF Holds
  <2>8. Links'
    <3>1. CASE st = "gone" /\ conn[o].st = "lost" /\ peers' = peers
      <4>1. \A x \in Obj : conn[x].st = "open" => conn'[x].st = "open"
        BY <2>4, <3>1
      <4> QED  BY <2>1, <3>1, <4>1, LinksStay DEF SiteInv
    <3>2. ASSUME NEW e \in {o, None}, peers' = [peers EXCEPT ![h] = e], e = None \/ st = "open" PROVE Links'
      <4>1. /\ peers' = [i \in Identity |-> peers'[i]]
            /\ \A i \in Identity : peers'[i] = IF i = h THEN e ELSE peers[i]
        BY <2>3, <3>2 DEF SiteInv, Links
      <4>2. ASSUME NEW i \in Identity, peers'[i] # None
            PROVE  peers'[i] \in Obj /\ conn'[peers'[i]].st = "open" /\ conn'[peers'[i]].host = i
        <5>1. CASE i = h
          BY <1>4, <2>4, <3>2, <4>1, <4>2, <5>1
        <5>2. CASE i # h
          <6>1. peers'[i] = peers[i] /\ peers[i] \in Obj /\ conn[peers[i]].st = "open" /\ conn[peers[i]].host = i
            BY <4>1, <4>2, <5>2 DEF SiteInv, Links
          <6>2. peers[i] # o
            BY <2>2, <5>2, <6>1
          <6> QED  BY <2>4, <6>1, <6>2
        <5> QED  BY <5>1, <5>2
      <4> QED  BY <4>1, <4>2 DEF Links
    <3> QED  BY <1>4, <2>2, <3>1, <3>2
  <2> QED  BY <1>1, <1>4, <2>6, <2>7, <2>8 DEF SiteInv
<1>5. ASSUME NEW o \in Obj, Open(o) PROVE SiteInv'
  BY <1>4, <1>5 DEF Open, Made
<1>6. ASSUME NEW o \in Obj, Lose(o) PROVE SiteInv'
  BY <1>4, <1>6 DEF Lose, Made
<1>7. ASSUME NEW o \in Obj, Unbind(o) PROVE SiteInv'
  BY <1>4, <1>7 DEF Unbind, Made
<1>8. ASSUME NEW o \in Obj, NEW m, RcvRequest(o, m) PROVE SiteInv'
  <2>1. UNCHANGED <<cfg, conn, bound, peers, txn, store>> /\ Made(o) /\ m \in Requests[conn[o].host]
    BY <1>8 DEF RcvRequest, connVars, Made
  <2>2. job' = [pc |-> "screen", from |-> o, was |-> m, msg |-> m, excl |-> {}, next |-> None, at |-> None]
    BY <1>8 DEF RcvRequest, Idle
  <2>3. IsMessage(m) /\ Requested(m)
    BY <2>1, HostOfMade, MessageAssumption DEF IsMessage, Requested
  <2>4. Data'
    BY <2>1, <2>2, <2>3 DEF SiteInv, Data
  <2> QED  BY <2>1, <2>4, SiteRoutes DEF SiteInv
<1>9. ASSUME NEW o \in Obj, NEW t, NEW w, RcvAnswer(o, t, w) PROVE SiteInv'
  <2>1. PICK i : Receives(o, t, w, i)
    BY <1>9, SomeReceived
  <2>2. /\ UNCHANGED <<cfg, conn, bound, peers>> /\ txn' \subseteq txn /\ i \in Identity \cup {None}
        /\ \A x \in store' : x.alias \in Alias /\ x.host \in Identity
        /\ \E r, u : /\ job' = [pc |-> "back", from |-> o, was |-> w, msg |-> r, excl |-> {}, next |-> i, at |-> u]
                     /\ IsMessage(r)
    <3>1. PICK name : name = AnswerPartner([t EXCEPT !.orig = i])
      OBVIOUS
    <3>2. PICK r : /\ job' = [pc |-> "back", from |-> o, was |-> w, msg |-> r, excl |-> {}, next |-> i,
                              at |-> Previous(i)]
                   /\ IsMessage(r)
      BY <2>1, <3>1, Answered
    <3> QED  BY <2>1, <3>1, <3>2, Answered
  <2>3. Data'
    BY <2>2 DEF SiteInv, Data
  <2> QED  BY <2>2, <2>3, SiteRoutes DEF SiteInv
<1>10. ASSUME ScreenRequest PROVE SiteInv'
  <2>1. UNCHANGED <<cfg, conn, bound, peers, txn, store>> /\ job.pc = "screen"
    BY <1>10, Screened
  <2>2. \/ job' = Idle
        \/ \E r : /\ job' = [pc |-> "route", from |-> job.from, was |-> job.was, msg |-> r,
                             excl |-> job.excl, next |-> job.next, at |-> job.at]
                  /\ IsMessage(r)
    BY <1>10, Screened
  <2>3. Data'
    BY <2>1, <2>2 DEF SiteInv, Data, Idle
  <2> QED  BY <2>1, <2>3, SiteRoutes DEF SiteInv
<1>11. ASSUME ChooseHop PROVE SiteInv'
  <2>1. PICK n : Chooses(n)
    BY <1>11, SomeChosen
  <2>2. /\ UNCHANGED <<cfg, conn, bound, peers, txn>> /\ n \in Identity
        /\ job.was.kind = "req" => Requested(job.was)
        /\ \A x \in store' : x.alias \in Alias /\ x.host \in Identity
        /\ \E r, u : /\ job' = [pc |-> "send", from |-> job.from, was |-> job.was, msg |-> r,
                                excl |-> job.excl, next |-> n, at |-> u]
                     /\ IsMessage(r)
    BY <2>1, Chosen
  <2>3. Data'
    BY <2>2 DEF SiteInv, Data
  <2> QED  BY <2>2, <2>3, SiteRoutes DEF SiteInv
<1>12. ASSUME NoHop PROVE SiteInv'
  <2>1. UNCHANGED <<cfg, conn, bound, peers, txn, store>> /\ job' = Idle
    BY <1>12 DEF NoHop, connVars
  <2>2. Data'
    BY <2>1 DEF SiteInv, Data, Idle
  <2> QED  BY <2>1, <2>2, SiteRoutes DEF SiteInv
<1>13. ASSUME SendRequest PROVE SiteInv'
  <2>1. /\ UNCHANGED <<cfg, conn, bound, peers, store>> /\ job' = Idle
        /\ txn' \in {txn, txn \cup {[out |-> job.next, orig |-> conn[job.from].host]}}
    BY <1>13 DEF SendRequest, connVars
  <2>2. conn[job.from].host \in Identity
    BY <1>13, HostOfMade DEF SendRequest, EdgeInv, JobJudged
  <2>3. Data'
    BY <2>1, <2>2 DEF SiteInv, Data, Idle
  <2> QED  BY <2>1, <2>3, SiteRoutes DEF SiteInv
<1>14. ASSUME SendFails PROVE SiteInv'
  <2>1. UNCHANGED <<cfg, conn, bound, peers, txn, store>> /\ job.pc = "send"
    BY <1>14 DEF SendFails, connVars
  <2>2. PICK e : job' = [pc |-> "route", from |-> job.from, was |-> job.was, msg |-> job.msg, excl |-> e,
                         next |-> job.next, at |-> job.at]
    BY <1>14 DEF SendFails, EdgeInv, Shape
  <2>3. Data'
    BY <2>1, <2>2 DEF SiteInv, Data
  <2> QED  BY <2>1, <2>3, SiteRoutes DEF SiteInv
<1>15. ASSUME SendBack PROVE SiteInv'
  <2>1. /\ UNCHANGED <<cfg, conn, bound, peers, txn, store>> /\ job.pc = "back"
        /\ \/ job' = Idle
           \/ \E r : /\ job' = [pc |-> "route", from |-> job.from, was |-> job.was, msg |-> r,
                                excl |-> job.excl, next |-> job.next, at |-> job.at]
                     /\ IsMessage(r)
    BY <1>15, GoesOn
  <2>2. job.was.kind = "ans"
    BY <2>1 DEF EdgeInv, JobJudged
  <2>3. Data'
    BY <2>1, <2>2 DEF SiteInv, Data, Idle
  <2> QED  BY <2>1, <2>3, SiteRoutes DEF SiteInv
<1>16. ASSUME NEW x, Forget(x) PROVE SiteInv'
  <2>1. UNCHANGED <<cfg, conn, bound, peers, txn, job>> /\ store' \subseteq store
    BY <1>16 DEF Forget, connVars
  <2>2. Data'
    BY <2>1 DEF SiteInv, Data
  <2> QED  BY <2>1, <2>2, SiteRoutes DEF SiteInv
<1>17. CASE UNCHANGED vars
  <2>1. UNCHANGED <<cfg, conn, bound, peers, txn, job, store>>
    BY <1>17 DEF vars, connVars
  <2> QED  BY <1>1, <2>1, SiteRoutes DEF SiteInv
<1> QED
  BY <1>2, <1>3, <1>5, <1>6, <1>7, <1>8, <1>9, <1>10, <1>11, <1>12, <1>13, <1>14, <1>15, <1>16, <1>17
     DEF Next, RouteIn

\* The partner that owns the destination of a message.
LEMMA DestinationOwned ==
    ASSUME EdgeInv, SiteInv, NEW m, IsMessage(m), NEW s, s # NoName, s = OwnerOf(cfg, bound, m.dh, m.dr)
    PROVE  Owns(Partner(cfg, s), m)
<1>1. cfg \in Config /\ ValidateEdge(cfg)
  BY DEF EdgeInv, Shape, Config
<1>2. m.dh \in Identity \cup {None} /\ m.dr \in Realm \cup {None}
  BY DEF IsMessage, Target, Destination
<1>3. CASE PartnerForPeer(cfg, bound, m.dh) = NoName
  <2>1. s = PartnerForRealm(cfg, m.dr)
    BY <1>3 DEF OwnerOf
  <2> QED  BY <1>1, <1>2, <2>1, RealmOwner DEF Owns
<1>4. CASE PartnerForPeer(cfg, bound, m.dh) # NoName
  <2>1. s = PartnerForPeer(cfg, bound, m.dh)
    BY <1>4 DEF OwnerOf
  <2>2. m.dh \in Identity
    BY <1>2, <1>4, NamesAgree DEF PartnerForPeer
  <2>3. CASE StaticPartner(cfg, m.dh) # NoName
    <3>1. s = StaticPartner(cfg, m.dh)
      BY <2>1, <2>2, <2>3, OwnedByList
    <3>2. Partner(cfg, s) \in Owners(cfg, m.dh)
      BY <1>1, <2>3, <3>1, StaticOwner
    <3> QED  BY <3>2 DEF Owners, Owns
  <2>4. CASE StaticPartner(cfg, m.dh) = NoName
    <3>1. s = bound[m.dh] /\ s \in Partners(cfg)
      BY <1>4, <2>1, <2>2, <2>4, OwnedByList
    <3>2. s = PartnerForRealm(cfg, RealmOf[m.dh])
      BY <2>2, <3>1 DEF SiteInv, Claims
    <3>3. RealmOf[m.dh] \in Realm
      BY <2>2, NameAssumption
    <3>4. RealmMatches(RealmOf[m.dh], Partner(cfg, s).realms)
      BY <1>1, <3>2, <3>3, RealmOwner
    <3> QED  BY <2>2, <3>4, HostAssumption DEF Owns
  <2> QED  BY <2>3, <2>4
<1> QED  BY <1>3, <1>4

\* A partner's peer is chosen only for a message to that partner, and only if the
\* partner it comes from, if any, is the same or may send to others.
LEMMA HopOwner ==
    ASSUME cfg \in Config, PartnersOutside, NEW m, IsMessage(m), NEW excl,
           NEW n \in Identity, n \in NextHops(m, excl),
           NEW s, s # NoName, s = PartnerForPeer(cfg, bound, n),
           NEW origin, origin = OwnerOf(cfg, bound, m.oh, m.or)
    PROVE  /\ OwnerOf(cfg, bound, m.dh, m.dr) = s
           /\ origin \in {NoName, s} \/ Partner(cfg, origin).allowTransit
<1>1. PICK cands : cands = BuildCandidates(Target(m), {i \in Identity : peers[i] # None})
  OBVIOUS
<1>2. PICK cs \in DeaRoute(cfg, bound, m, cands, 300) : n \in BestTier(cs, excl)
  BY <1>1 DEF NextHops
<1>3. PICK x \in cs : x.peer = n
  BY <1>2 DEF BestTier, Top
<1>4. ValidateEdge(cfg)
  BY DEF Config
<1>5. s \in Partners(cfg)
  BY OwnerKnown
<1>6. Partner(cfg, s) \in Elems(cfg.partners)
  BY <1>5, PartnerKnown
<1>7. Configured(cfg)
  <2>1. cfg.partners # <<>>
    BY <1>6 DEF Elems
  <2> QED  BY <2>1 DEF Configured
<1>8. PartnerForPeer(cfg, bound, n) = s
  OBVIOUS
<1>9. PICK dest, kept : /\ dest = OwnerOf(cfg, bound, m.dh, m.dr)
                        /\ kept = DropForeignExternal(cfg, bound, cands, dest)
  OBVIOUS
<1>10. DeaRoute(cfg, bound, m, cands, 300) =
         IF origin # NoName /\ dest # NoName /\ origin # dest /\ ~Partner(cfg, origin).allowTransit
         THEN {{}}
         ELSE IF dest = NoName THEN {kept}
         ELSE IF Partner(cfg, dest).peers = <<>> THEN {kept}
         ELSE {kept \cup PartnerRoutes(Partner(cfg, dest), w, 300) : w \in Winners(Partner(cfg, dest))}
  BY <1>7, <1>9 DEF DeaRoute
<1>11. ~(origin # NoName /\ dest # NoName /\ origin # dest /\ ~Partner(cfg, origin).allowTransit)
  BY <1>2, <1>3, <1>10
<1>12. CASE x \in kept
  <2>1. IsExternalZone(cfg, Partner(cfg, s).zone)
    BY <1>6 DEF PartnersOutside
  <2>2. s = dest
    BY <1>3, <1>8, <1>9, <1>12, <2>1 DEF DropForeignExternal
  <2> QED  BY <1>9, <1>11, <2>2
<1>13. CASE x \notin kept
  <2>1. dest # NoName /\ \E w : x \in PartnerRoutes(Partner(cfg, dest), w, 300)
    BY <1>2, <1>10, <1>11, <1>13
  <2>2. PICK pp \in Elems(Partner(cfg, dest).peers) : pp.identity = n
    BY <1>3, <2>1 DEF PartnerRoutes
  <2>3. dest \in Partners(cfg)
    <3>1. dest = PartnerForPeer(cfg, bound, m.dh) \/ dest = PartnerForRealm(cfg, m.dr)
      BY <1>9 DEF OwnerOf
    <3>2. m.dr \in Realm \cup {None}
      BY DEF IsMessage, Target, Destination
    <3> QED  BY <2>1, <3>1, <3>2, OwnerKnown, RealmOwner
  <2>4. Partner(cfg, dest) \in Owners(cfg, n) /\ Partner(cfg, dest).name = dest
    BY <2>2, <2>3, PartnerKnown DEF Owners
  <2>5. s = dest
    <3>1. StaticPartner(cfg, n) = dest
      BY <1>4, <2>4, StaticOwner
    <3> QED  BY <2>1, <3>1, OwnedByList
  <2> QED  BY <1>9, <1>11, <2>5
<1> QED  BY <1>12, <1>13

\* The origin of a request that an enforced policy let through is the partner of its
\* connection, and is never masked.
LEMMA OriginOwner ==
    ASSUME EdgeInv, SiteInv, RealmsApart, NEW f, Made(f), External(f), Enforced(PartnerOf(f)),
           NEW w, Requested(w), Passed(f, w)
    PROVE  /\ conn[f].partner \in Partners(cfg) \ {NoName}
           /\ OwnerOf(cfg, bound, w.oh, w.or) = conn[f].partner
           /\ ~IsInternalHost(cfg, w.oh)
<1>1. PICK name, p : name = conn[f].partner /\ p = PartnerOf(f)
  OBVIOUS
<1>2. name \in Partners(cfg) \ {NoName} /\ KeepsTo(p, w)
  BY <1>1, NamesAgree DEF Passed, SiteInv, Places, Placed, Made
<1>3. p \in Elems(cfg.partners) /\ p.name = name
  BY <1>1, <1>2, PartnerKnown DEF PartnerOf
<1>4. RealmMatches(w.or, p.realms) /\ HostInRealm(w.oh, w.or)
  BY <1>2 DEF KeepsTo
<1>5. /\ PartnerForRealm(cfg, w.or) = name /\ StaticPartner(cfg, w.oh) \in {NoName, name}
      /\ PartnerForRealm(cfg, RealmOf[w.oh]) \in {NoName, name} /\ ~IsInternalHost(cfg, w.oh)
  BY <1>3, <1>4 DEF RealmsApart, Requested, EdgeInv, Shape
<1>6. w.oh \in Identity
  BY <1>4, MessageAssumption, NamesAgree DEF Requested, HostInRealm
<1>7. PartnerForPeer(cfg, bound, w.oh) \in {NoName, name}
  <2>1. bound[w.oh] \in Partners(cfg) => bound[w.oh] \in {NoName, name}
    BY <1>5, <1>6 DEF SiteInv, Claims
  <2> QED  BY <1>5, <1>6, <2>1, OwnedByList
<1> QED  BY <1>1, <1>2, <1>5, <1>7 DEF OwnerOf

-----------------------------------------------------------------------------
(* Each partner gets its own.                                                *)

\* A request that an enforced policy let through keeps its origin.
OriginKept(f, w, m) == External(f) /\ Enforced(PartnerOf(f)) => m.oh = w.oh /\ m.or = w.or

\* What RightPartner says of a request m from connection f that goes to host n.
RightHop(n, f, m) ==
    StaticPartner(cfg, n) # NoName =>
       /\ Owns(Partner(cfg, StaticPartner(cfg, n)), m)
       /\ External(f) /\ conn[f].partner # StaticPartner(cfg, n) /\ Enforced(PartnerOf(f))
             => PartnerOf(f).allowTransit

JobRouted ==
    job.was.kind = "req" =>
       /\ job.pc \in {"route", "send"} => OriginKept(job.from, job.was, job.msg)
       /\ job.pc = "send" => RightHop(job.next, job.from, job.msg)
LastRouted ==
    \A d \in last : d.was.kind = "req" => Made(d.to) /\ RightHop(conn[d.to].host, d.from, d.msg)

LEMMA HopStays ==
    ASSUME Kept, NEW f, Made(f), NEW n, NEW w, NEW m
    PROVE  /\ OriginKept(f, w, m)' <=> OriginKept(f, w, m)
           /\ RightHop(n, f, m)' <=> RightHop(n, f, m)
<1>1. cfg' = cfg /\ conn'[f].zone = conn[f].zone /\ conn'[f].partner = conn[f].partner
  BY DEF Kept, Made
<1>2. External(f)' = External(f) /\ PartnerOf(f)' = PartnerOf(f)
  BY <1>1 DEF External, PartnerOf
<1> QED  BY <1>1, <1>2 DEF OriginKept, RightHop

LEMMA LastRoutedStays ==
    ASSUME EdgeInv, LastRouted, Kept, last' \subseteq last
    PROVE  LastRouted'
<1> SUFFICES ASSUME NEW d \in last, d.was.kind = "req"
             PROVE  Made(d.to)' /\ RightHop(conn[d.to].host, d.from, d.msg)'
  BY DEF LastRouted
<1>1. PICK t, f, m, n : t = d.to /\ f = d.from /\ m = d.msg /\ n = conn[t].host
  OBVIOUS
<1>2. Made(t) /\ RightHop(n, f, m) /\ Made(f)
  BY <1>1 DEF LastRouted, EdgeInv, LastJudged
<1>3. Made(t)' /\ conn'[t].host = n
  BY <1>1, <1>2 DEF Kept, Made
<1>4. RightHop(n, f, m)'
  BY <1>2, HopStays
<1>5. RightHop(conn[t].host, f, m)'
  BY <1>3, <1>4 DEF RightHop
<1> QED  BY <1>1, <1>3, <1>5

LEMMA JobRoutedStays ==
    ASSUME EdgeInv, JobRouted, Kept, job' = job
    PROVE  JobRouted'
<1>1. PICK f, w, m, n : f = job.from /\ w = job.was /\ m = job.msg /\ n = job.next
  OBVIOUS
<1>2. job.pc \in {"route", "send"} => Made(f)
  BY <1>1 DEF EdgeInv, JobJudged
<1>3. w.kind = "req" /\ job.pc \in {"route", "send"} => OriginKept(f, w, m)'
  BY <1>1, <1>2, HopStays DEF JobRouted
<1>4. w.kind = "req" /\ job.pc = "send" => RightHop(n, f, m)'
  BY <1>1, <1>2, HopStays DEF JobRouted
<1> QED  BY <1>1, <1>3, <1>4 DEF JobRouted

\* The next hop that is chosen is a right one.
LEMMA ChosenRight ==
    ASSUME EdgeInv, SiteInv, JobRouted, PartnersOutside, RealmsApart, NEW n, Chooses(n)
    PROVE  JobRouted'
<1>0. SUFFICES ASSUME job.was.kind = "req" PROVE JobRouted'
  <2>1. \E r, u : job' = [pc |-> "send", from |-> job.from, was |-> job.was, msg |-> r,
                          excl |-> job.excl, next |-> n, at |-> u]
    BY Chosen
  <2> QED  BY <2>1 DEF JobRouted
<1>1. PICK f, w, m, e : f = job.from /\ w = job.was /\ m = job.msg /\ e = job.excl
  OBVIOUS
<1>2. /\ UNCHANGED <<cfg, conn, bound, peers>> /\ job.pc = "route" /\ n \in NextHops(m, e)
      /\ IsMessage(m) /\ Requested(w) /\ n \in Identity
  BY <1>0, <1>1, Chosen
<1>3. PICK r : /\ job' = [pc |-> "send", from |-> f, was |-> w, msg |-> r, excl |-> e, next |-> n,
                          at |-> peers[n]]
               /\ ~HidesBy(PostRoutePartner(m, n)) => r = m
               /\ HidesBy(PostRoutePartner(m, n)) =>
                     \E a \in Aliases(Partner(cfg, PostRoutePartner(m, n)), m.oh) :
                        r = Hide(cfg, Partner(cfg, PostRoutePartner(m, n)), m, a)
  <2> HIDE DEF HidesBy, PostRoutePartner
  <2> QED  BY <1>1, Chosen
<1>4. Made(f) /\ Passed(f, w) /\ OriginKept(f, w, m) /\ cfg \in Config
  BY <1>0, <1>1, <1>2 DEF EdgeInv, Shape, JobJudged, JobRouted
<1>5. r.dh = m.dh /\ r.dr = m.dr /\ (~IsInternalHost(cfg, m.oh) => r.oh = m.oh /\ r.or = m.or)
  <2>1. CASE ~HidesBy(PostRoutePartner(m, n))
    BY <1>3, <2>1
  <2>2. CASE HidesBy(PostRoutePartner(m, n))
    <3>1. PICK p, a : r = Hide(cfg, p, m, a)
      BY <1>3, <2>2
    <3>2. HiddenAs(cfg, p, m, a, r)
      BY <1>2, <3>1, HideFields DEF IsMessage
    <3> QED  BY <3>2 DEF HiddenAs, MustMask
  <2> QED  BY <2>1, <2>2
<1>6. OriginKept(f, w, r)
  <2> SUFFICES ASSUME External(f), Enforced(PartnerOf(f)) PROVE r.oh = w.oh /\ r.or = w.or
    BY DEF OriginKept
  <2>1. m.oh = w.oh /\ m.or = w.or
    BY <1>4 DEF OriginKept
  <2>2. ~IsInternalHost(cfg, w.oh)
    BY <1>2, <1>4, OriginOwner
  <2> QED  BY <1>5, <2>1, <2>2
<1>7. RightHop(n, f, r)
  <2> SUFFICES ASSUME StaticPartner(cfg, n) # NoName
               PROVE  /\ Owns(Partner(cfg, StaticPartner(cfg, n)), r)
                      /\ External(f) /\ conn[f].partner # StaticPartner(cfg, n) /\ Enforced(PartnerOf(f))
                            => PartnerOf(f).allowTransit
    BY DEF RightHop
  <2>1. PICK s, origin : s = StaticPartner(cfg, n) /\ origin = OwnerOf(cfg, bound, m.oh, m.or)
    OBVIOUS
  <2>2. /\ OwnerOf(cfg, bound, m.dh, m.dr) = s
        /\ origin \in {NoName, s} \/ Partner(cfg, origin).allowTransit
    <3>1. s = PartnerForPeer(cfg, bound, n)
      BY <1>2, <2>1, OwnedByList
    <3> QED  BY <1>2, <1>4, <2>1, <3>1, HopOwner
  <2>3. Owns(Partner(cfg, s), m)
    BY <1>2, <2>1, <2>2, DestinationOwned
  <2>4. Owns(Partner(cfg, s), r)
    BY <1>5, <2>3 DEF Owns
  <2>5. ASSUME External(f), conn[f].partner # s, Enforced(PartnerOf(f)) PROVE PartnerOf(f).allowTransit
    <3>1. m.oh = w.oh /\ m.or = w.or
      BY <1>4, <2>5 DEF OriginKept
    <3>2. origin = conn[f].partner /\ origin # NoName
      BY <1>2, <1>4, <2>1, <2>5, <3>1, OriginOwner
    <3> QED  BY <2>2, <2>5, <3>2 DEF PartnerOf
  <2> QED  BY <2>1, <2>4, <2>5
<1>8. Kept
  BY <1>2 DEF Kept
<1>9. OriginKept(f, w, r)' /\ RightHop(n, f, r)'
  BY <1>4, <1>6, <1>7, <1>8, HopStays
<1> QED  BY <1>3, <1>9 DEF JobRouted

LEMMA RoutedStep ==
    ASSUME EdgeInv, SiteInv, JobRouted, LastRouted, OneZone, PartnersOutside, RealmsApart, [Next]_vars
    PROVE  JobRouted' /\ LastRouted'
<1>1. ASSUME Kept, job' = job, last' \subseteq last PROVE JobRouted' /\ LastRouted'
  BY <1>1, JobRoutedStays, LastRoutedStays
<1>2. ASSUME NEW o \in Obj, NEW cer \in Cer, Accept(o, cer) PROVE JobRouted' /\ LastRouted'
  <2>1. Kept
    BY <1>2, AcceptStep
  <2> QED  BY <1>1, <1>2, <2>1 DEF Accept
<1>3. ASSUME NEW o \in Obj, NEW pc \in Elems(cfg.peers), ConnectToPeer(o, pc) PROVE JobRouted' /\ LastRouted'
  <2>1. Kept
    BY <1>3, ConnectStep
  <2> QED  BY <1>1, <1>3, <2>1 DEF ConnectToPeer
<1>4. ASSUME NEW o \in Obj, Open(o) \/ Lose(o) \/ Unbind(o) PROVE JobRouted' /\ LastRouted'
  <2>1. Kept /\ job' = job /\ last' = {}
    BY <1>4, LeaveStep DEF Open, Lose, Unbind
  <2> QED  BY <1>1, <2>1
<1>5. ASSUME UNCHANGED <<cfg, conn>> PROVE Kept
  BY <1>5 DEF Kept
<1>6. ASSUME NEW o \in Obj, NEW m, RcvRequest(o, m) PROVE JobRouted' /\ LastRouted'
  <2>1. last' = {}
    BY <1>6 DEF RcvRequest
  <2>2. job' = [pc |-> "screen", from |-> o, was |-> m, msg |-> m, excl |-> {}, next |-> None, at |-> None]
    BY <1>6 DEF RcvRequest, Idle
  <2> QED  BY <2>1, <2>2 DEF JobRouted, LastRouted
<1>7. ASSUME NEW o \in Obj, NEW t, NEW w, RcvAnswer(o, t, w) PROVE JobRouted' /\ LastRouted'
  <2>1. PICK i : Receives(o, t, w, i)
    BY <1>7, SomeReceived
  <2>2. PICK name : name = AnswerPartner([t EXCEPT !.orig = i])
    OBVIOUS
  <2>3. \E r, u : job' = [pc |-> "back", from |-> o, was |-> w, msg |-> r, excl |-> {}, next |-> i, at |-> u]
    BY <2>1, <2>2, Answered
  <2>4. last' = {}
    BY <2>1 DEF Receives
  <2> QED  BY <2>3, <2>4 DEF JobRouted, LastRouted
<1>8. ASSUME ScreenRequest PROVE JobRouted' /\ LastRouted'
  <2>1. UNCHANGED <<cfg, conn, last>>
    BY <1>8, Screened
  <2>2. PICK f, w, r, e, n, u :
           \/ job' = Idle
           \/ /\ job' = [pc |-> "route", from |-> f, was |-> w, msg |-> r, excl |-> e, next |-> n, at |-> u]
              /\ r.oh = w.oh /\ r.or = w.or
    BY <1>8, Screened
  <2>3. job' # Idle => OriginKept(f, w, r)'
    BY <2>2 DEF OriginKept
  <2> QED  BY <1>5, <2>1, <2>2, <2>3, LastRoutedStays DEF JobRouted, Idle
<1>9. ASSUME ChooseHop PROVE JobRouted' /\ LastRouted'
  <2>1. PICK n : Chooses(n)
    BY <1>9, SomeChosen
  <2>2. UNCHANGED <<cfg, conn, last>>
    BY <2>1, Chosen
  <2> QED  BY <1>5, <2>1, <2>2, ChosenRight, LastRoutedStays
<1>10. ASSUME NoHop PROVE JobRouted' /\ LastRouted'
  <2>1. UNCHANGED <<cfg, conn, last>> /\ job' = Idle
    BY <1>10 DEF NoHop, connVars
  <2> QED  BY <1>5, <2>1, LastRoutedStays DEF JobRouted, Idle
<1>11. ASSUME SendRequest PROVE JobRouted' /\ LastRouted'
  <2>1. PICK f, t, w, m, n : f = job.from /\ t = peers[job.next] /\ w = job.was /\ m = job.msg /\ n = job.next
    OBVIOUS
  <2>2. /\ job.pc = "send" /\ UNCHANGED <<cfg, conn>> /\ job' = Idle /\ t # None
        /\ last' = {[from |-> f, to |-> t, was |-> w, msg |-> m, at |-> job.at, back |-> FALSE]}
    BY <1>11, <2>1 DEF SendRequest, Sent, connVars
  <2>3. n \in Identity /\ Made(t) /\ conn[t].host = n
    BY <2>1, <2>2 DEF SiteInv, Data, Links, Made
  <2>4. (w.kind = "req" => RightHop(n, f, m)) /\ Made(f)
    BY <2>1, <2>2 DEF JobRouted, EdgeInv, JobJudged
  <2>5. w.kind = "req" => RightHop(n, f, m)'
    BY <1>5, <2>2, <2>4, HopStays
  <2>6. (w.kind = "req" => RightHop(conn[t].host, f, m)') /\ Made(t)'
    BY <2>2, <2>3, <2>5 DEF RightHop, Made
  <2>7. LastRouted'
    BY <2>2, <2>6 DEF LastRouted
  <2> QED  BY <2>2, <2>7 DEF JobRouted, Idle
<1>12. ASSUME SendFails PROVE JobRouted' /\ LastRouted'
  <2>1. PICK f, w, m, n, u : f = job.from /\ w = job.was /\ m = job.msg /\ n = job.next /\ u = job.at
    OBVIOUS
  <2>2. UNCHANGED <<cfg, conn, last>> /\ job.pc = "send"
    BY <1>12 DEF SendFails, connVars
  <2>3. PICK e : job' = [pc |-> "route", from |-> f, was |-> w, msg |-> m, excl |-> e, next |-> n, at |-> u]
    BY <1>12, <2>1 DEF SendFails, EdgeInv, Shape
  <2>4. (w.kind = "req" => OriginKept(f, w, m)) /\ Made(f)
    BY <2>1, <2>2 DEF JobRouted, EdgeInv, JobJudged
  <2>5. w.kind = "req" => OriginKept(f, w, m)'
    BY <1>5, <2>2, <2>4, HopStays
  <2> QED  BY <1>5, <2>2, <2>3, <2>5, LastRoutedStays DEF JobRouted
<1>13. ASSUME SendBack PROVE JobRouted' /\ LastRouted'
  <2>1. /\ UNCHANGED <<cfg, conn>> /\ job.pc = "back"
        /\ \/ job' = Idle
           \/ \E r : job' = [pc |-> "route", from |-> job.from, was |-> job.was, msg |-> r,
                             excl |-> job.excl, next |-> job.next, at |-> job.at]
    BY <1>13, GoesOn
  <2>2. job.was.kind = "ans"
    BY <2>1 DEF EdgeInv, JobJudged
  <2>3. JobRouted'
    BY <2>1, <2>2 DEF JobRouted, Idle
  <2>4. last' \subseteq last \/ \A d \in last' : d.was.kind = "ans"
    BY <1>13, <2>2 DEF SendBack, Sent
  <2>5. LastRouted'
    BY <1>5, <2>1, <2>4, LastRoutedStays DEF LastRouted
  <2> QED  BY <2>3, <2>5
<1>14. ASSUME NEW x, Forget(x) PROVE JobRouted' /\ LastRouted'
  <2>1. UNCHANGED <<cfg, conn, job>> /\ last' = {}
    BY <1>14 DEF Forget, connVars
  <2> QED  BY <1>1, <1>5, <2>1
<1>15. CASE UNCHANGED vars
  <2>1. UNCHANGED <<cfg, conn, job, last>>
    BY <1>15 DEF vars, connVars
  <2> QED  BY <1>1, <1>5, <2>1
<1> QED
  BY <1>2, <1>3, <1>4, <1>6, <1>7, <1>8, <1>9, <1>10, <1>11, <1>12, <1>13, <1>14, <1>15 DEF Next, RouteIn

\* RightPartner, for every configuration: where partners are outside and no partner can
\* pass for another or for the operator, a request reaches a partner's peer only if the
\* partner owns its destination, and none goes from one partner to another that is not
\* allowed to, whatever connections come and go while it is routed.
THEOREM PartnersGetTheirOwn ==
    OneZone /\ PartnersOutside /\ RealmsApart => (Spec => []RightPartner)
<1> SUFFICES ASSUME OneZone, PartnersOutside, RealmsApart PROVE Spec => []RightPartner
  OBVIOUS
<1> DEFINE Inv == EdgeInv /\ SiteInv /\ JobRouted /\ LastRouted
<1>1. Init => Inv
  <2>1. Init => JobRouted /\ LastRouted
    BY DEF Init, JobRouted, LastRouted, Idle
  <2> QED  BY <2>1, EdgeInit, SiteInit
<1>2. Inv /\ [Next]_vars => Inv'
  BY EdgeStep, SiteStep, RoutedStep
<1>3. Inv => RightPartner
  <2> SUFFICES ASSUME Inv, NEW d \in last, d.was.kind = "req", External(d.to), Listed(d.to)
               PROVE  /\ conn[d.to].partner # None
                      /\ Owns(PartnerOf(d.to), d.msg)
                      /\ External(d.from) /\ conn[d.from].partner # PartnerOf(d.to).name
                           /\ Enforced(PartnerOf(d.from)) => PartnerOf(d.from).allowTransit
    BY DEF RightPartner
  <2>1. Made(d.to) /\ RightHop(conn[d.to].host, d.from, d.msg)
    BY DEF LastRouted
  <2>2. PICK s : s = StaticPartner(cfg, conn[d.to].host)
    OBVIOUS
  <2>3. s # NoName /\ conn[d.to].partner = s
    BY <2>1, <2>2 DEF SiteInv, Places, Placed, Made
  <2>4. s \in Partners(cfg)
    <3>1. ValidateEdge(cfg)
      BY DEF EdgeInv, Shape, Config
    <3> QED  BY <2>2, <2>3, <3>1, StaticOwner
  <2>5. PartnerOf(d.to) = Partner(cfg, s) /\ Partner(cfg, s).name = s
    BY <2>3, <2>4, PartnerKnown DEF PartnerOf
  <2> QED  BY <2>1, <2>2, <2>3, <2>5, NamesAgree DEF RightHop
<1> QED  BY <1>1, <1>2, <1>3, PTL DEF Spec

-----------------------------------------------------------------------------
(* Nobody outside sees the network.                                          *)

\* A message m, once w, that was masked has no realm but the outward one.
MaskedRealm(w, m) ==
    m.oh # w.oh => \A p \in Elems(cfg.partners) :
                      p.mode # "none" /\ p.hideOriginRealm => m.or \in {None, p.pseudonymRealm}

\* What the named partner may see of a message m, once w, if it hides the topology.
Veiled(name, w, m) ==
    Partner(cfg, name).mode # "none" =>
       /\ Disclosed(Partner(cfg, name), m) \cap Ours \subseteq {Partner(cfg, name).edgeIdentity}
       /\ m.oh # w.oh /\ Partner(cfg, name).hideOriginRealm
             => m.or \in {None, Partner(cfg, name).pseudonymRealm}

\* A connection that has its partner by its realm, and is the only one of its host.
ByRealm(o) ==
    /\ o # None /\ External(o) /\ Sole(o)
    /\ StaticPartner(cfg, conn[o].host) = NoName /\ conn[o].partner # NoName

\* What Hidden says of a message m, once w, that goes to host n, and was hidden when the
\* table had connection o for it.
Clean(n, o, w, m) ==
    /\ StaticPartner(cfg, n) # NoName => Veiled(StaticPartner(cfg, n), w, m)
    /\ ByRealm(o) => Veiled(conn[o].partner, w, m)

\* A peer inside gets an answer as it came.
Inside(n, w, m) ==
    StaticPartner(cfg, n) = NoName /\ (\E pc \in Elems(cfg.peers) : pc.identity = n)
       => m.oh = w.oh /\ m.erh = w.erh

\* Only a request says where it is to go.
Plain(m) == m.kind = "req" \/ (m.dh = None /\ m.dr = None)

JobClean ==
    /\ job.pc \in {"route", "send", "back"} => MaskedRealm(job.was, job.msg) /\ Plain(job.msg)
    /\ job.pc = "send" \/ (job.pc = "back" /\ job.next # None) =>
          (job.at # None => Made(job.at)) /\ Clean(job.next, job.at, job.was, job.msg)
    /\ job.pc = "back" /\ job.next # None => Inside(job.next, job.was, job.msg)
LastClean ==
    \A d \in last : /\ d.to # None /\ Made(d.to) /\ Clean(conn[d.to].host, d.at, d.was, d.msg)
                    /\ d.back => Inside(conn[d.to].host, d.was, d.msg)

\* Hiding takes the operator's hosts and realm out of a message.
LEMMA HideCleans ==
    ASSUME cfg \in Config, Data, OursInside, NEW p \in Elems(cfg.partners), p.mode # "none",
           NEW w, NEW m, IsMessage(m), MaskedRealm(w, m), NEW a \in Aliases(p, m.oh),
           NEW r, r = Hide(cfg, p, m, a)
    PROVE  /\ MaskedRealm(w, r) /\ Disclosed(p, r) \cap Ours \subseteq {p.edgeIdentity}
           /\ r.kind = m.kind /\ r.dh = m.dh /\ r.dr = m.dr
<1>1. HiddenAs(cfg, p, m, a, r)
  BY HideFields DEF IsMessage
<1>2. IF MustMask(cfg, p, m.oh) THEN a \in Alias \cup {p.edgeIdentity} ELSE a = m.oh
  BY MaskedBy
<1>3. \A h \in Ours : MustMask(cfg, p, h) \/ h = p.edgeIdentity
  BY DEF OursInside, MustMask, IsInternalHost
<1>4. MaskedRealm(w, r)
  <2>1. CASE MustMask(cfg, p, m.oh)
    <3>1. p.hideOriginRealm => r.or \in {None, p.pseudonymRealm}
      BY <1>1, <2>1, NamesAgree DEF HiddenAs
    <3>2. ASSUME NEW q \in Elems(cfg.partners), q.mode # "none", q.hideOriginRealm
          PROVE  r.or \in {None, q.pseudonymRealm}
      <4>1. p.hideOriginRealm = q.hideOriginRealm /\ p.pseudonymRealm = q.pseudonymRealm
        BY <3>2 DEF OursInside
      <4> QED  BY <3>1, <3>2, <4>1
    <3> QED  BY <3>2 DEF MaskedRealm
  <2>2. CASE ~MustMask(cfg, p, m.oh)
    <3>1. r.oh = m.oh /\ r.or = m.or
      BY <1>1, <2>2 DEF HiddenAs
    <3> QED  BY <3>1 DEF MaskedRealm
  <2> QED  BY <2>1, <2>2
<1>5. ASSUME NEW h \in Ours, h \in Disclosed(p, r) PROVE h = p.edgeIdentity
  <2>1. CASE h = r.oh
    <3>1. h \notin Alias
      BY DEF OursInside
    <3> QED  BY <1>1, <1>2, <1>3, <2>1, <3>1 DEF HiddenAs
  <2>2. CASE h = r.erh /\ p.hideErrorHost
    BY <1>1, <1>3, <2>2 DEF HiddenAs
  <2>3. CASE h \in r.rr /\ p.hideRouteRecords
    <3>1. r.rr \subseteq {x \in m.rr : ~MustMask(cfg, p, x)} \cup {p.edgeIdentity}
      BY <1>1, <2>3 DEF HiddenAs
    <3> QED  BY <1>3, <2>3, <3>1
  <2>4. CASE h \in r.proxy /\ p.hideProxyInfo
    <3>1. r.proxy = {x \in m.proxy : ~MustMask(cfg, p, x)}
      BY <1>1, <2>4 DEF HiddenAs
    <3> QED  BY <1>3, <2>4, <3>1
  <2> QED  BY <1>5, <2>1, <2>2, <2>3, <2>4 DEF Disclosed
<1>6. r.kind = m.kind /\ r.dh = m.dh /\ r.dr = m.dr
  BY <1>1 DEF HiddenAs
<1> QED  BY <1>4, <1>5, <1>6

\* So does hiding for a partner, which the message is then veiled for.
LEMMA HiddenVeiled ==
    ASSUME EdgeInv, SiteInv, OursInside, NEW name \in Partners(cfg) \cup {NoName},
           NEW w, NEW m, IsMessage(m), MaskedRealm(w, m), Plain(m), NEW r,
           ~HidesBy(name) => r = m,
           HidesBy(name) => \E a \in Aliases(Partner(cfg, name), m.oh) :
                               r = Hide(cfg, Partner(cfg, name), m, a)
    PROVE  /\ MaskedRealm(w, r) /\ Plain(r)
           /\ name # NoName => Veiled(name, w, r)
<1>1. cfg \in Config /\ Data
  BY DEF EdgeInv, Shape, SiteInv
<1>2. PICK p : p = Partner(cfg, name)
  OBVIOUS
<1>3. name # NoName => p \in Elems(cfg.partners) /\ Configured(cfg)
  <2> SUFFICES ASSUME name # NoName PROVE p \in Elems(cfg.partners) /\ Configured(cfg)
    OBVIOUS
  <2>1. p \in Elems(cfg.partners)
    BY <1>2, PartnerKnown
  <2>2. cfg.partners # <<>>
    BY <2>1 DEF Elems
  <2> QED  BY <2>1, <2>2 DEF Configured
<1>4. CASE HidesBy(name)
  <2>1. PICK a \in Aliases(p, m.oh) : r = Hide(cfg, p, m, a)
    BY <1>2, <1>4
  <2>2. p \in Elems(cfg.partners) /\ p.mode # "none"
    BY <1>2, <1>3, <1>4, NamesAgree DEF HidesBy
  <2>3. /\ MaskedRealm(w, r) /\ Disclosed(p, r) \cap Ours \subseteq {p.edgeIdentity}
        /\ r.kind = m.kind /\ r.dh = m.dh /\ r.dr = m.dr
    BY <1>1, <2>1, <2>2, HideCleans
  <2>4. p.hideOriginRealm /\ r.oh # w.oh => r.or \in {None, p.pseudonymRealm}
    BY <2>2, <2>3 DEF MaskedRealm
  <2>5. Veiled(name, w, r)
    <3> HIDE DEF Disclosed
    <3> QED  BY <1>2, <2>3, <2>4 DEF Veiled
  <2> QED  BY <2>3, <2>5 DEF Plain
<1>5. CASE ~HidesBy(name)
  BY <1>2, <1>3, <1>5, NamesAgree DEF HidesBy, Veiled
<1> QED  BY <1>4, <1>5

\* Taking the Proxy-Info of this node out, or entering it in the Route-Records of a message
\* that is then routed, unveils nothing.
LEMMA ProxyRemoved ==
    ASSUME NEW m, IsMessage(m), NEW r, r = RemoveLocalProxyInfo(m)
    PROVE  /\ \A n, o, w : Clean(n, o, w, m) => Clean(n, o, w, r)
           /\ \A n, w : Inside(n, w, m) => Inside(n, w, r)
<1>1. r = [m EXCEPT !.proxy = m.proxy \ {cfg.identity}] /\ DOMAIN m = Fields
  BY DEF RemoveLocalProxyInfo, IsMessage
<1>2. r.oh = m.oh /\ r.or = m.or /\ r.erh = m.erh /\ r.rr = m.rr /\ r.proxy \subseteq m.proxy
  BY <1>1 DEF Fields
<1>3. \A q : Disclosed(q, r) \subseteq Disclosed(q, m)
  BY <1>2 DEF Disclosed
<1>4. ASSUME NEW name, NEW w, Veiled(name, w, m) PROVE Veiled(name, w, r)
  <2> HIDE DEF Disclosed
  <2> QED  BY <1>2, <1>3, <1>4 DEF Veiled
<1> QED  BY <1>2, <1>4 DEF Clean, Inside

LEMMA MaskStays ==
    ASSUME cfg' = cfg, NEW n, NEW w, NEW m
    PROVE  /\ MaskedRealm(w, m)' <=> MaskedRealm(w, m)
           /\ Inside(n, w, m)' <=> Inside(n, w, m)
           /\ Veiled(n, w, m)' <=> Veiled(n, w, m)
  BY DEF MaskedRealm, Inside, Veiled

\* A connection does not come to have its partner by its realm.
LEMMA CleanStays ==
    ASSUME EdgeInv, SiteInv, Kept, NEW n, NEW o, o # None => Made(o), NEW w, NEW m, Clean(n, o, w, m)
    PROVE  Clean(n, o, w, m)'
<1>1. cfg' = cfg
  BY DEF Kept
<1>2. StaticPartner(cfg, n) # NoName => Veiled(StaticPartner(cfg, n), w, m)'
  BY <1>1, MaskStays DEF Clean
<1>3. ASSUME ByRealm(o)' PROVE Veiled(conn[o].partner, w, m)'
  <2>1. Made(o)
    BY <1>3 DEF ByRealm
  <2>2. /\ conn'[o].zone = conn[o].zone /\ conn'[o].host = conn[o].host
        /\ conn'[o].partner = conn[o].partner
    BY <2>1 DEF Kept, Made
  <2>3. Sole(o)
    BY <1>3, <2>1, SoleStays DEF ByRealm, SiteInv
  <2>4. ByRealm(o)
    BY <1>1, <1>3, <2>2, <2>3 DEF ByRealm, External
  <2>5. PICK name : name = conn[o].partner
    OBVIOUS
  <2>6. Veiled(name, w, m)'
    BY <1>1, <2>4, <2>5, MaskStays DEF Clean
  <2> QED  BY <1>1, <2>2, <2>5, <2>6 DEF Veiled
<1> QED  BY <1>1, <1>2, <1>3 DEF Clean

LEMMA JobCleanStays ==
    ASSUME EdgeInv, SiteInv, JobClean, Kept, job' = job
    PROVE  JobClean'
<1>1. PICK w, m, n, o : w = job.was /\ m = job.msg /\ n = job.next /\ o = job.at
  OBVIOUS
<1>2. cfg' = cfg
  BY DEF Kept
<1>3. job.pc \in {"route", "send", "back"} => MaskedRealm(w, m)' /\ Plain(m)
  BY <1>1, <1>2, MaskStays DEF JobClean
<1>4. ASSUME job.pc = "send" \/ (job.pc = "back" /\ n # None)
      PROVE  (o # None => Made(o)') /\ Clean(n, o, w, m)'
  <2>1. (o # None => Made(o)) /\ Clean(n, o, w, m)
    BY <1>1, <1>4 DEF JobClean
  <2>2. o # None => Made(o)'
    BY <2>1 DEF Kept, Made
  <2> QED  BY <2>1, <2>2, CleanStays
<1>5. job.pc = "back" /\ n # None => Inside(n, w, m)'
  BY <1>1, <1>2, MaskStays DEF JobClean
<1> QED  BY <1>1, <1>3, <1>4, <1>5 DEF JobClean, Plain

\* As long as the connections and the registry are left alone.
LEMMA LastCleanStays ==
    ASSUME LastClean, UNCHANGED <<cfg, conn>>, last' \subseteq last
    PROVE  LastClean'
<1> SUFFICES ASSUME NEW d \in last
             PROVE  /\ d.to # None /\ Made(d.to)' /\ Clean(conn[d.to].host, d.at, d.was, d.msg)'
                    /\ d.back => Inside(conn[d.to].host, d.was, d.msg)'
  BY DEF LastClean
<1> QED  BY DEF LastClean, Made, Clean, Inside, ByRealm, External, Sole, Veiled

\* Whom the table leads to has the partner that its host is bound to.
LEMMA LinkedPartner ==
    ASSUME EdgeInv, SiteInv, NEW i \in Identity, peers[i] # None
    PROVE  /\ Made(peers[i])
           /\ ByRealm(peers[i]) => PartnerForPeer(cfg, bound, i) = conn[peers[i]].partner
<1>1. PICK o : o = peers[i]
  OBVIOUS
<1>2. o \in Obj /\ conn[o].st = "open" /\ conn[o].host = i
  BY <1>1 DEF SiteInv, Links
<1>3. ASSUME ByRealm(o) PROVE PartnerForPeer(cfg, bound, i) = conn[o].partner
  <2>1. StaticPartner(cfg, i) = NoName /\ conn[o].partner # NoName /\ Sole(o)
    BY <1>2, <1>3 DEF ByRealm
  <2>2. conn[o].partner \in Partners(cfg)
    BY <1>2, <2>1 DEF SiteInv, Places, Placed
  <2>3. bound[i] = conn[o].partner
    BY <1>2, <2>1 DEF SiteInv, Holds, BoundTo, Alive
  <2> QED  BY <2>1, <2>2, <2>3, OwnedByList
<1> QED  BY <1>1, <1>2, <1>3 DEF Made

\* An answer, which says nothing of where it is to go, is not routed to a partner's peer.
LEMMA AnswersAvoidPartners ==
    ASSUME EdgeInv, PartnersOutside, NEW m, IsMessage(m), m.dh = None, m.dr = None, NEW excl,
           NEW n \in Identity, n \in NextHops(m, excl)
    PROVE  PartnerForPeer(cfg, bound, n) = NoName
<1> SUFFICES ASSUME PartnerForPeer(cfg, bound, n) # NoName PROVE FALSE
  OBVIOUS
<1>1. cfg \in Config
  BY DEF EdgeInv, Shape
<1>2. PICK s, origin : s = PartnerForPeer(cfg, bound, n) /\ origin = OwnerOf(cfg, bound, m.oh, m.or)
  OBVIOUS
<1>3. OwnerOf(cfg, bound, m.dh, m.dr) = s
  BY <1>1, <1>2, HopOwner
<1>4. PartnerForPeer(cfg, bound, NoName) = NoName
  BY DEF PartnerForPeer
<1>5. PartnerForRealm(cfg, NoName) = s
  BY <1>2, <1>3, <1>4, NamesAgree DEF OwnerOf
<1>6. RealmMatches(NoName, Partner(cfg, s).realms)
  BY <1>1, <1>2, <1>5, NamesAgree, RealmOwner
<1> QED  BY <1>6 DEF RealmMatches

\* The next hop that is chosen is hidden from as it asks.
LEMMA ChosenClean ==
    ASSUME EdgeInv, SiteInv, JobClean, PartnersOutside, OursInside, NEW n, Chooses(n)
    PROVE  JobClean'
<1>1. PICK f, w, m, e : f = job.from /\ w = job.was /\ m = job.msg /\ e = job.excl
  OBVIOUS
<1>2. PICK name : name = PostRoutePartner(m, n)
  OBVIOUS
<1>3. /\ UNCHANGED <<cfg, conn, bound, peers>> /\ IsMessage(m) /\ job.pc = "route"
      /\ n \in Identity /\ n \in NextHops(m, e)
  BY <1>1, Chosen
<1>4. PICK r : /\ job' = [pc |-> "send", from |-> f, was |-> w, msg |-> r, excl |-> e, next |-> n,
                          at |-> peers[n]]
               /\ ~HidesBy(name) => r = m
               /\ HidesBy(name) => \E a \in Aliases(Partner(cfg, name), m.oh) :
                                      r = Hide(cfg, Partner(cfg, name), m, a)
  <2> HIDE DEF HidesBy, PostRoutePartner
  <2> QED  BY <1>1, <1>2, Chosen
<1>5. MaskedRealm(w, m) /\ Plain(m)
  BY <1>1, <1>3 DEF JobClean
<1>6. name \in Partners(cfg) \cup {NoName}
  BY <1>2, HiderKnown
<1>7. PICK s : s = PartnerForPeer(cfg, bound, n)
  OBVIOUS
<1>8. s # NoName => name = s
  <2> SUFFICES ASSUME s # NoName PROVE name = s
    OBVIOUS
  <2>1. m.kind = "req"
    BY <1>3, <1>5, <1>7, AnswersAvoidPartners DEF Plain
  <2>2. IsExternalZone(cfg, Partner(cfg, s).zone)
    <3>1. s \in Partners(cfg) /\ cfg \in Config
      BY <1>7, OwnerKnown DEF EdgeInv, Shape
    <3> QED  BY <3>1, PartnerKnown DEF PartnersOutside
  <2> QED  BY <1>2, <1>7, <2>1, <2>2, NamesAgree DEF PostRoutePartner
<1>9. MaskedRealm(w, r) /\ Plain(r) /\ (s # NoName => Veiled(s, w, r))
  BY <1>3, <1>4, <1>5, <1>6, <1>8, HiddenVeiled
<1>10. StaticPartner(cfg, n) # NoName => Veiled(StaticPartner(cfg, n), w, r)
  BY <1>3, <1>7, <1>9, OwnedByList
<1>11. PICK o : o = peers[n]
  OBVIOUS
<1>12. ASSUME ByRealm(o) PROVE Veiled(conn[o].partner, w, r)
  <2>1. o # None /\ conn[o].partner # NoName
    BY <1>12 DEF ByRealm
  <2>2. s = conn[o].partner
    BY <1>3, <1>7, <1>11, <1>12, <2>1, LinkedPartner
  <2> QED  BY <1>9, <2>1, <2>2
<1>13. o # None => Made(o)
  BY <1>3, <1>11, LinkedPartner
<1>14. Clean(n, o, w, r)
  BY <1>10, <1>12 DEF Clean
<1>15. Kept
  BY <1>3 DEF Kept
<1>16. MaskedRealm(w, r)' /\ Clean(n, o, w, r)' /\ (o # None => Made(o)')
  BY <1>3, <1>9, <1>13, <1>14, <1>15, CleanStays, MaskStays DEF Made
<1> QED  BY <1>4, <1>9, <1>11, <1>16 DEF JobClean, Plain

\* So is the peer that an answer goes back to; an inside peer gets it as it is.
LEMMA AnsweredClean ==
    ASSUME EdgeInv, SiteInv, PartnersOutside, OursInside, PlainAnswers, NEW o \in Obj, NEW t, NEW w, NEW i,
           Receives(o, t, w, i)
    PROVE  JobClean'
<1>1. PICK name : name = AnswerPartner([t EXCEPT !.orig = i])
  OBVIOUS
<1>2. /\ UNCHANGED <<cfg, conn, bound, peers>> /\ IsMessage(w) /\ i \in Identity \cup {None}
      /\ w \in Answers[conn[o].host] /\ conn[o].host \in Identity
  BY <1>1, Answered
<1>3. PICK r : /\ job' = [pc |-> "back", from |-> o, was |-> w, msg |-> r, excl |-> {}, next |-> i,
                          at |-> Previous(i)]
               /\ ~HidesBy(name) => r = w
               /\ HidesBy(name) => \E a \in Aliases(Partner(cfg, name), w.oh) :
                                      r = Hide(cfg, Partner(cfg, name), w, a)
  <2> HIDE DEF HidesBy, AnswerPartner
  <2> QED  BY <1>1, Answered
<1>4. MaskedRealm(w, w) /\ Plain(w)
  BY <1>2 DEF MaskedRealm, Plain, PlainAnswers
<1>5. name \in Partners(cfg) \cup {NoName}
  BY <1>1, HiderKnown
<1>6. name = PartnerForPeer(cfg, bound, i)
  <2>1. t = [out |-> t.out, orig |-> t.orig]
    BY DEF Receives, SiteInv, Data
  <2>2. [t EXCEPT !.orig = i].orig = i
    BY <2>1
  <2> QED  BY <1>1, <2>2 DEF AnswerPartner
<1>7. MaskedRealm(w, r) /\ Plain(r) /\ (name # NoName => Veiled(name, w, r))
  BY <1>2, <1>3, <1>4, <1>5, HiddenVeiled
<1>8. PICK u : u = Previous(i)
  OBVIOUS
<1>9. ASSUME i # None
      PROVE  (u # None => Made(u)) /\ Clean(i, u, w, r)
  <2>1. i \in Identity /\ u = peers[i]
    BY <1>2, <1>8, <1>9 DEF Previous
  <2>2. StaticPartner(cfg, i) # NoName => Veiled(StaticPartner(cfg, i), w, r)
    BY <1>6, <1>7, <2>1, OwnedByList
  <2>3. ASSUME ByRealm(u) PROVE Veiled(conn[u].partner, w, r)
    <3>1. u # None /\ conn[u].partner # NoName
      BY <2>3 DEF ByRealm
    <3>2. name = conn[u].partner
      BY <1>6, <2>1, <2>3, <3>1, LinkedPartner
    <3> QED  BY <1>7, <3>1, <3>2
  <2>4. u # None => Made(u)
    BY <2>1, LinkedPartner
  <2> QED  BY <2>2, <2>3, <2>4 DEF Clean
<1>10. ASSUME i # None PROVE Inside(i, w, r)
  <2> SUFFICES ASSUME StaticPartner(cfg, i) = NoName, NEW pc \in Elems(cfg.peers), pc.identity = i
               PROVE  r.oh = w.oh /\ r.erh = w.erh
    BY DEF Inside
  <2>1. i \in Identity /\ cfg \in Config
    BY <1>2, <1>10 DEF EdgeInv, Shape
  <2>2. name = NoName
    <3> SUFFICES ASSUME name # NoName PROVE FALSE
      OBVIOUS
    <3>1. Claimable(i)
      BY <1>6, <2>1, OwnedOrClaimed DEF EdgeInv
    <3>2. PICK cer \in Cer : cer.host = i /\ Partner(cfg, PartnerForRealm(cfg, RealmOf[i])).zone = cer.zone
      BY <3>1 DEF Claimable
    <3>3. Partner(cfg, PartnerForRealm(cfg, RealmOf[i])) \in Elems(cfg.partners)
      BY <3>1, PartnerKnown DEF Claimable
    <3>4. IsExternalZone(cfg, cer.zone)
      BY <2>1, <3>2, <3>3 DEF PartnersOutside
    <3> QED  BY <2>1, <3>2, <3>4 DEF PartnersOutside
  <2> QED  BY <1>3, <2>2, NamesAgree DEF HidesBy
<1>11. Kept
  BY <1>2 DEF Kept
<1>12. MaskedRealm(w, r)'
  BY <1>2, <1>7, MaskStays
<1>13. i # None => (u # None => Made(u)') /\ Clean(i, u, w, r)' /\ Inside(i, w, r)'
  BY <1>2, <1>9, <1>10, <1>11, CleanStays, MaskStays DEF Made
<1> QED  BY <1>3, <1>7, <1>8, <1>12, <1>13 DEF JobClean, Plain

LEMMA CleanStep ==
    ASSUME EdgeInv, SiteInv, JobClean, LastClean, OneZone, PartnersOutside, OursInside, PlainAnswers,
           [Next]_vars
    PROVE  JobClean' /\ LastClean'
<1>1. ASSUME Kept, job' = job, last' = {} PROVE JobClean' /\ LastClean'
  BY <1>1, JobCleanStays DEF LastClean
<1>2. ASSUME NEW o \in Obj, NEW cer \in Cer, Accept(o, cer) PROVE JobClean' /\ LastClean'
  <2>1. Kept
    BY <1>2, AcceptStep
  <2> QED  BY <1>1, <1>2, <2>1 DEF Accept
<1>3. ASSUME NEW o \in Obj, NEW pc \in Elems(cfg.peers), ConnectToPeer(o, pc) PROVE JobClean' /\ LastClean'
  <2>1. Kept
    BY <1>3, ConnectStep
  <2> QED  BY <1>1, <1>3, <2>1 DEF ConnectToPeer
<1>4. ASSUME NEW o \in Obj, Open(o) \/ Lose(o) \/ Unbind(o) PROVE JobClean' /\ LastClean'
  <2>1. Kept /\ job' = job /\ last' = {}
    BY <1>4, LeaveStep DEF Open, Lose, Unbind
  <2> QED  BY <1>1, <2>1
<1>5. ASSUME UNCHANGED <<cfg, conn>> PROVE Kept
  BY <1>5 DEF Kept
<1>6. ASSUME NEW o \in Obj, NEW m, RcvRequest(o, m) PROVE JobClean' /\ LastClean'
  <2>1. last' = {}
    BY <1>6 DEF RcvRequest
  <2>2. job' = [pc |-> "screen", from |-> o, was |-> m, msg |-> m, excl |-> {}, next |-> None, at |-> None]
    BY <1>6 DEF RcvRequest, Idle
  <2> QED  BY <2>1, <2>2 DEF JobClean, LastClean
<1>7. ASSUME NEW o \in Obj, NEW t, NEW w, RcvAnswer(o, t, w) PROVE JobClean' /\ LastClean'
  <2>1. PICK i : Receives(o, t, w, i)
    BY <1>7, SomeReceived
  <2>2. last' = {}
    BY <2>1 DEF Receives
  <2> QED  BY <2>1, <2>2, AnsweredClean DEF LastClean
<1>8. ASSUME ScreenRequest PROVE JobClean' /\ LastClean'
  <2>1. UNCHANGED <<cfg, conn, last>>
    BY <1>8, Screened
  <2>2. PICK f, w, r, e, n, u :
           \/ job' = Idle
           \/ /\ job' = [pc |-> "route", from |-> f, was |-> w, msg |-> r, excl |-> e, next |-> n, at |-> u]
              /\ r.oh = w.oh /\ r.kind = "req"
    BY <1>8, Screened
  <2>3. job' # Idle => MaskedRealm(w, r)' /\ Plain(r)
    BY <2>2 DEF MaskedRealm, Plain
  <2> QED  BY <2>1, <2>2, <2>3, LastCleanStays DEF JobClean, Idle, Plain
<1>9. ASSUME ChooseHop PROVE JobClean' /\ LastClean'
  <2>1. PICK n : Chooses(n)
    BY <1>9, SomeChosen
  <2>2. UNCHANGED <<cfg, conn, last>>
    BY <2>1, Chosen
  <2> QED  BY <2>1, <2>2, ChosenClean, LastCleanStays
<1>10. ASSUME NoHop PROVE JobClean' /\ LastClean'
  <2>1. UNCHANGED <<cfg, conn, last>> /\ job' = Idle
    BY <1>10 DEF NoHop, connVars
  <2> QED  BY <2>1, LastCleanStays DEF JobClean, Idle
\* A message m of the job that is handed to the connection the table has for its next hop.
<1>11. ASSUME NEW n, NEW w, NEW m, NEW f, NEW u, NEW b, n = job.next, n \in Identity, u = job.at, peers[n] # None,
              u # None => Made(u), Clean(n, u, w, m), b => Inside(n, w, m), UNCHANGED <<cfg, conn>>,
              last' = {[from |-> f, to |-> peers[n], was |-> w, msg |-> m, at |-> u, back |-> b]}
       PROVE  LastClean'
  <2>1. PICK t : t = peers[n]
    OBVIOUS
  <2>2. Made(t) /\ conn[t].host = n
    BY <1>11, <2>1 DEF SiteInv, Links, Made
  <2>3. Clean(n, u, w, m)' /\ (b => Inside(n, w, m)')
    BY <1>5, <1>11, CleanStays, MaskStays
  <2>4. Clean(conn[t].host, u, w, m)' /\ Made(t)' /\ (b => Inside(conn[t].host, w, m)')
    BY <1>11, <2>2, <2>3 DEF Clean, Inside, Made
  <2> QED  BY <1>11, <2>1, <2>4 DEF LastClean
<1>12. ASSUME SendRequest PROVE JobClean' /\ LastClean'
  <2>1. PICK f, w, m, n, u : f = job.from /\ w = job.was /\ m = job.msg /\ n = job.next /\ u = job.at
    OBVIOUS
  <2>2. /\ job.pc = "send" /\ UNCHANGED <<cfg, conn>> /\ job' = Idle /\ peers[n] # None
        /\ last' = {[from |-> f, to |-> peers[n], was |-> w, msg |-> m, at |-> u, back |-> FALSE]}
    BY <1>12, <2>1 DEF SendRequest, Sent, connVars
  <2>3. n \in Identity /\ Clean(n, u, w, m) /\ (u # None => Made(u))
    BY <2>1, <2>2 DEF SiteInv, Data, JobClean
  <2>4. LastClean'
    BY <1>11, <2>1, <2>2, <2>3
  <2> QED  BY <2>2, <2>4 DEF JobClean, Idle
<1>13. ASSUME SendFails PROVE JobClean' /\ LastClean'
  <2>1. PICK f, w, m, n, u : f = job.from /\ w = job.was /\ m = job.msg /\ n = job.next /\ u = job.at
    OBVIOUS
  <2>2. UNCHANGED <<cfg, conn, last>> /\ job.pc = "send"
    BY <1>13 DEF SendFails, connVars
  <2>3. PICK e : job' = [pc |-> "route", from |-> f, was |-> w, msg |-> m, excl |-> e, next |-> n, at |-> u]
    BY <1>13, <2>1 DEF SendFails, EdgeInv, Shape
  <2>4. MaskedRealm(w, m) /\ Plain(m)
    BY <2>1, <2>2 DEF JobClean
  <2>5. MaskedRealm(w, m)'
    BY <2>2, <2>4, MaskStays
  <2> QED  BY <2>2, <2>3, <2>4, <2>5, LastCleanStays DEF JobClean, Plain
<1>14. ASSUME SendBack PROVE JobClean' /\ LastClean'
  <2>1. PICK f, w, x, n, u : f = job.from /\ w = job.was /\ x = job.msg /\ n = job.next /\ u = job.at
    OBVIOUS
  <2>2. /\ job.pc = "back" /\ UNCHANGED <<cfg, conn>>
        /\ \/ job' = Idle
           \/ /\ last' = last
              /\ \E r, e : /\ job' = [pc |-> "route", from |-> f, was |-> w, msg |-> r, excl |-> e,
                                      next |-> n, at |-> u]
                           /\ r.oh = x.oh /\ r.or = x.or /\ r.dh = x.dh /\ r.dr = x.dr /\ r.kind = x.kind
    BY <1>14, <2>1, GoesOn
  <2>3. MaskedRealm(w, x) /\ Plain(x) /\ IsMessage(x)
    BY <2>1, <2>2 DEF JobClean, SiteInv, Data
  <2>4. MaskedRealm(w, x)'
    BY <2>2, <2>3, MaskStays
  <2>5. JobClean'
    <3>1. CASE job' = Idle
      BY <3>1 DEF JobClean, Idle
    <3>2. CASE job' # Idle
      <4>1. PICK r, e : /\ job' = [pc |-> "route", from |-> f, was |-> w, msg |-> r, excl |-> e,
                                   next |-> n, at |-> u]
                        /\ r.oh = x.oh /\ r.or = x.or /\ r.dh = x.dh /\ r.dr = x.dr /\ r.kind = x.kind
        BY <2>2, <3>2
      <4>2. MaskedRealm(w, r)' /\ Plain(r)
        BY <2>3, <2>4, <4>1 DEF MaskedRealm, Plain
      <4> QED  BY <4>1, <4>2 DEF JobClean, Plain
    <3> QED  BY <3>1, <3>2
  <2>6. LastClean'
    <3>1. CASE last' = last
      BY <2>2, <3>1, LastCleanStays
    <3>2. CASE last' # last
      <4>1. PICK i \in Found(n) :
              /\ Previous(i) # None
              /\ last' = {[from |-> f, to |-> Previous(i), was |-> w, at |-> u, back |-> TRUE,
                           msg |-> IF i = None THEN x ELSE RemoveLocalProxyInfo(x)]}
        BY <1>14, <2>1, <3>2 DEF SendBack, Sent
      <4>2. i = n /\ n # None /\ Previous(i) = peers[n]
        BY <4>1 DEF Found, Previous
      <4>3. PICK m : m = RemoveLocalProxyInfo(x)
        OBVIOUS
      <4>4. /\ peers[n] # None
            /\ last' = {[from |-> f, to |-> peers[n], was |-> w, msg |-> m, at |-> u, back |-> TRUE]}
        BY <4>1, <4>2, <4>3
      <4>5. n \in Identity
        BY <2>1, <2>2, <4>2 DEF SiteInv, Data
      <4>6. Clean(n, u, w, x) /\ Inside(n, w, x) /\ (u # None => Made(u))
        BY <2>1, <2>2, <4>2 DEF JobClean
      <4>7. Clean(n, u, w, m) /\ Inside(n, w, m)
        BY <2>3, <4>3, <4>6, ProxyRemoved
      <4> QED  BY <1>11, <2>1, <2>2, <4>4, <4>5, <4>6, <4>7
    <3> QED  BY <3>1, <3>2
  <2> QED  BY <2>5, <2>6
<1>15. ASSUME NEW x, Forget(x) PROVE JobClean' /\ LastClean'
  <2>1. UNCHANGED <<cfg, conn, job>> /\ last' = {}
    BY <1>15 DEF Forget, connVars
  <2> QED  BY <1>1, <1>5, <2>1
<1>16. CASE UNCHANGED vars
  <2>1. UNCHANGED <<cfg, conn, job, last>>
    BY <1>16 DEF vars, connVars
  <2> QED  BY <1>5, <2>1, JobCleanStays, LastCleanStays
<1> QED
  BY <1>2, <1>3, <1>4, <1>6, <1>7, <1>8, <1>9, <1>10, <1>12, <1>13, <1>14, <1>15, <1>16 DEF Next, RouteIn

\* Hidden, for every configuration: where partners are outside, the registry knows the
\* operator's hosts and answers say nothing of where they are to go, no message that
\* reaches a partner's peer names one of those hosts but the edge identity, however often
\* the next hop was chosen anew on the way and wherever an answer went that lost its way
\* back.  The peer is one that the configuration lists, or one that was admitted by its
\* realm, was in the table when the message was hidden, and is the only connection its
\* host has had: then the registry has the partner of the connection.  And an answer goes
\* back to a listed peer inside as it came.
THEOREM NetworkStaysHidden ==
    OneZone /\ PartnersOutside /\ OursInside /\ PlainAnswers => (Spec => []Hidden)
<1> SUFFICES ASSUME OneZone, PartnersOutside, OursInside, PlainAnswers PROVE Spec => []Hidden
  OBVIOUS
<1> DEFINE Inv == EdgeInv /\ SiteInv /\ JobClean /\ LastClean
<1>1. Init => Inv
  <2>1. Init => JobClean /\ LastClean
    BY DEF Init, JobClean, LastClean, Idle
  <2> QED  BY <2>1, EdgeInit, SiteInit
<1>2. Inv /\ [Next]_vars => Inv'
  BY EdgeStep, SiteStep, CleanStep
<1>3. Inv => Hidden
  <2> SUFFICES ASSUME Inv, NEW d \in last,
                      Listed(d.to) \/ (External(d.to) /\ Sole(d.to) /\ d.at = d.to)
               PROVE  Conceals(d)
    BY DEF Hidden
  <2>1. PICK o, n : o = d.to /\ n = conn[o].host
    OBVIOUS
  <2>2. o # None /\ Made(o) /\ Clean(n, d.at, d.was, d.msg) /\ (d.back => Inside(n, d.was, d.msg))
    BY <2>1 DEF LastClean
  <2>3. PICK s : s = StaticPartner(cfg, n)
    OBVIOUS
  <2>4. Listed(o) => (External(o) <=> s # NoName) /\ (s # NoName => conn[o].partner = s)
    BY <2>1, <2>2, <2>3 DEF SiteInv, Places, Placed, Made
  <2>5. CASE External(o)
    <3> SUFFICES ASSUME conn[o].partner # None PROVE Veiled(conn[o].partner, d.was, d.msg)
      BY <2>1, <2>5 DEF Conceals, Veiled, PartnerOf
    <3>1. CASE s # NoName
      <4>1. Listed(o)
        BY <2>1, <2>3, <3>1, NamesAgree DEF Listed
      <4> QED  BY <2>2, <2>3, <2>4, <3>1, <4>1 DEF Clean
    <3>2. CASE s = NoName
      <4>1. ~Listed(o)
        BY <2>4, <2>5, <3>2
      <4>2. Sole(o) /\ d.at = o
        BY <2>1, <4>1
      <4>3. ByRealm(o)
        BY <2>1, <2>2, <2>3, <2>5, <3>2, <4>2, NamesAgree DEF ByRealm
      <4> QED  BY <2>2, <4>2, <4>3 DEF Clean
    <3> QED  BY <3>1, <3>2
  <2>6. CASE ~External(o)
    <3>1. Listed(o)
      BY <2>1, <2>6
    <3>2. s = NoName /\ \E pc \in Elems(cfg.peers) : pc.identity = n
      BY <2>1, <2>3, <2>4, <2>6, <3>1, NamesAgree DEF Listed
    <3>3. d.back => d.msg.oh = d.was.oh /\ d.msg.erh = d.was.erh
      BY <2>2, <2>3, <3>2 DEF Inside
    <3> QED  BY <2>1, <2>6, <3>3 DEF Conceals
  <2> QED  BY <2>5, <2>6
<1> QED  BY <1>1, <1>2, <1>3, PTL DEF Spec

=============================================================================
