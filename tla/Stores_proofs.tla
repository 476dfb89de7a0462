---------------------------- MODULE Stores_proofs ----------------------------
(* Theorems about the stores of the extensions, for every number of routing  *)
(* goroutines, keys, peers and partners, every limit and every time to live. *)
EXTENDS SessionBind, RateLimiter, PseudonymStore, FiniteSetTheorems, SequenceTheorems, TLAPS

-----------------------------------------------------------------------------
(* Session affinity: a binding in the store is the last use of its key.      *)

Binding == [peer : Peer, lastUsed : Nat, expiresAt : Nat]

Routing == [pc : {"idle", "get", "touch", "set", "send"}, key : Key \cup {NoPeer},
            candidates : SUBSET Peer, exclude : SUBSET (Peer \cup {NoPeer}),
            bound : Peer \cup {NoPeer}, chosen : Peer \cup {NoPeer}]

BindType ==
    /\ now \in Nat
    /\ DOMAIN bindings \subseteq Key /\ bindings \in [DOMAIN bindings -> Binding]
    /\ attempts \in [Attempt -> Routing]
    /\ \A m \in Attempt : attempts[m].pc # "idle" => attempts[m].key \in Key
    /\ used \in [Key -> [peer : Peer \cup {NoPeer}, at : Nat]]

\* What the store knows of a key is what its last use left, and no use is yet to come.
Current ==
    /\ \A k \in Key : used[k].at <= now
    /\ \A k \in DOMAIN bindings : /\ bindings[k].peer = used[k].peer
                                  /\ bindings[k].lastUsed = used[k].at
                                  /\ bindings[k].expiresAt = used[k].at + BindTtl

BindInv == BindType /\ Current /\ SessionKept

Since(k) == {x \in Key \ {k} : used[x].peer # NoPeer /\ used[x].at >= used[k].at}

\* The sessions whose binding the store owes.
Recent(k) == /\ used[k].peer # NoPeer /\ now - used[k].at <= BindTtl
             /\ maxSize > 0 => Cardinality(Since(k)) < maxSize

Owed(k) == Recent(k) => k \in DOMAIN bindings /\ bindings[k].peer = used[k].peer

LEMMA KeptIsOwed == SessionKept <=> \A k \in Key : Owed(k)
  BY DEF SessionKept, Owed, Recent, Since

LEMMA KeptIsOwedNext == SessionKept' <=> \A k \in Key : Owed(k)'
  BY DEF SessionKept, Owed, Recent, Since

LEMMA SinceFinite == ASSUME NEW k \in Key
                     PROVE  IsFiniteSet(Since(k)) /\ Cardinality(Since(k)) \in Nat
<1>1. Since(k) \in SUBSET Key
  BY DEF Since
<1> QED  BY <1>1, KeyAssumption, FS_Subset, FS_CardinalityType

LEMMA SinceFiniteNext == ASSUME NEW k \in Key
                         PROVE  IsFiniteSet(Since(k)') /\ Cardinality(Since(k)') \in Nat
<1>1. Since(k)' \in SUBSET Key
  BY DEF Since
<1> QED  BY <1>1, KeyAssumption, FS_Subset, FS_CardinalityType

\* A session that is owed its binding after a step that did not use it was owed it before.
LEMMA OwedBefore ==
    ASSUME BindType, BindType', NEW k \in Key, used'[k] = used[k], now <= now', Recent(k)',
           \A x \in Key : used[x].peer # NoPeer => used'[x].peer # NoPeer /\ used[x].at <= used'[x].at
    PROVE  Recent(k)
<1>1. /\ now \in Nat /\ now' \in Nat
      /\ \A x \in Key : used[x].at \in Nat /\ used'[x].at \in Nat
  BY DEF BindType
<1>2. Since(k) \in SUBSET (Since(k)')
  BY <1>1 DEF Since
<1>3. Cardinality(Since(k)) <= Cardinality(Since(k)')
  BY <1>2, SinceFiniteNext, FS_Subset
<1>4. used[k].peer # NoPeer /\ now - used[k].at <= BindTtl
  BY <1>1, SizeAssumption DEF Recent
<1>5. maxSize > 0 => Cardinality(Since(k)) < maxSize
  BY <1>3, SinceFinite, SinceFiniteNext, SizeAssumption DEF Recent
<1> QED  BY <1>4, <1>5 DEF Recent

\* A step that uses no session and drops only bindings that are not owed.
LEMMA StillKept ==
    ASSUME BindInv, BindType', UNCHANGED used, now <= now',
           \A k \in DOMAIN bindings : \/ k \in DOMAIN bindings' /\ bindings'[k] = bindings[k]
                                      \/ now' - used[k].at > BindTtl
    PROVE  SessionKept'
<1> SUFFICES ASSUME NEW k \in Key, Recent(k)'
             PROVE  k \in DOMAIN bindings' /\ bindings'[k].peer = used'[k].peer
  BY KeptIsOwedNext DEF Owed
<1>1. \A x \in Key : used[x].at \in Nat
  BY DEF BindInv, BindType
<1>2. Recent(k)
  BY <1>1, OwedBefore DEF BindInv
<1>3. k \in DOMAIN bindings /\ bindings[k].peer = used[k].peer
  BY <1>2, KeptIsOwed DEF BindInv, Owed
<1>4. ~(now' - used[k].at > BindTtl)
  BY <1>1, SizeAssumption DEF Recent, BindType
<1> QED  BY <1>3, <1>4

LEMMA BindStart == ClockInit /\ SbInit => BindInv
<1> SUFFICES ASSUME ClockInit, SbInit PROVE BindInv
  OBVIOUS
<1>1. DOMAIN bindings = {} /\ bindings \in [DOMAIN bindings -> Binding]
  BY DEF SbInit
<1>2. Routed \in Routing
  BY DEF Routed, Routing
<1>3. BindType
  BY <1>1, <1>2 DEF SbInit, ClockInit, BindType, Routed
<1>4. Current
  BY <1>1 DEF Current, SbInit, ClockInit
<1>5. SessionKept
  BY DEF SessionKept, SbInit
<1> QED  BY <1>3, <1>4, <1>5 DEF BindInv

\* The steps of an attempt that leave the store alone.
LEMMA AttemptKept ==
    ASSUME BindInv, UNCHANGED now, NEW m \in Attempt,
           \/ \E k \in Key, C \in Serving : Arrive(m, k, C)
           \/ Get(m) \/ Sent(m) \/ NotSent(m)
    PROVE  BindInv'
<1>1. /\ BindType /\ attempts[m] \in Routing /\ UNCHANGED <<bindings, used>>
  BY DEF BindInv, BindType, Arrive, Get, Sent, NotSent
<1>2. Routed \in Routing /\ Routed.pc = "idle"
  BY DEF Routed, Routing
<1>3. /\ attempts' \in [Attempt -> Routing]
      /\ \A x \in Attempt : attempts'[x].pc # "idle" => attempts'[x].key \in Key
  <2>1. CASE \E k \in Key, C \in Serving : Arrive(m, k, C)
    <3>1. PICK k \in Key, C \in Serving : Arrive(m, k, C)
      BY <2>1
    <3>2. PICK r : r = [Routed EXCEPT !.pc = "get", !.key = k, !.candidates = C]
      OBVIOUS
    <3>3. r \in Routing /\ r.key \in Key
      BY <3>2, BindAssumption DEF Routed, Routing
    <3>4. attempts' = [attempts EXCEPT ![m] = r]
      BY <3>1, <3>2 DEF Arrive
    <3> QED  BY <1>1, <3>3, <3>4 DEF BindType
  <2>2. CASE Get(m)
    <3>1. PICK b : b = IF attempts[m].key \in DOMAIN bindings /\ now <= bindings[attempts[m].key].expiresAt
                       THEN bindings[attempts[m].key].peer ELSE NoPeer
      OBVIOUS
    <3>2. b \in Peer \cup {NoPeer}
      BY <1>1, <3>1 DEF BindType, Binding
    <3>3. attempts' = [attempts EXCEPT ![m].bound = b,
                         ![m].pc = IF b \in attempts[m].candidates THEN "touch" ELSE "set"]
          /\ attempts[m].pc = "get"
      BY <2>2, <3>1 DEF Get
    <3>4. attempts[m].key \in Key
      BY <1>1, <3>3 DEF BindType
    <3> QED  BY <1>1, <3>2, <3>3, <3>4 DEF BindType, Routing
  <2>3. CASE Sent(m)
    BY <1>1, <1>2, <2>3 DEF Sent, BindType
  <2>4. CASE NotSent(m)
    <3>1. PICK r \in Routing : r = attempts[m]
      BY <1>1
    <3>2. r.pc = "send" /\ r.key \in Key
      BY <1>1, <2>4, <3>1 DEF NotSent, BindType
    <3>3. PICK tried : tried = r.exclude \cup {r.chosen}
      OBVIOUS
    <3>4. CASE r.candidates \subseteq tried
      BY <1>1, <1>2, <2>4, <3>1, <3>3, <3>4 DEF NotSent, BindType
    <3>5. CASE ~(r.candidates \subseteq tried)
      <4>1. attempts' = [attempts EXCEPT ![m] = [r EXCEPT !.pc = "get", !.exclude = tried,
                                                          !.chosen = NoPeer]]
        BY <2>4, <3>1, <3>3, <3>5 DEF NotSent
      <4>2. PICK s : s = [r EXCEPT !.pc = "get", !.exclude = tried, !.chosen = NoPeer]
        OBVIOUS
      <4>3. s \in Routing /\ s.key \in Key
        BY <3>2, <3>3, <4>2 DEF Routing
      <4> QED  BY <1>1, <4>1, <4>2, <4>3 DEF BindType
    <3> QED  BY <3>4, <3>5
  <2> QED  BY <2>1, <2>2, <2>3, <2>4
<1>4. BindType' /\ Current'
  BY <1>1, <1>3 DEF BindType, Current, BindInv
<1>5. SessionKept'
  BY <1>1, <1>4, StillKept DEF BindType
<1> QED  BY <1>4, <1>5 DEF BindInv

\* Touch: the session is used now, and its binding says so.
LEMMA TouchKept ==
    ASSUME BindInv, UNCHANGED now, NEW m \in Attempt, Touch(m)
    PROVE  BindInv'
<1>1. PICK k : k = attempts[m].key
  OBVIOUS
<1>2. /\ BindType /\ Current /\ now \in Nat /\ k \in Key /\ attempts[m] \in Routing
      /\ attempts' = [attempts EXCEPT ![m].pc = "set"]
  BY <1>1 DEF BindInv, BindType, Touch
<1>3. /\ attempts' \in [Attempt -> Routing]
      /\ \A x \in Attempt : attempts'[x].pc # "idle" => attempts'[x].key \in Key
  BY <1>1, <1>2 DEF BindType, Routing
<1>4. CASE k \notin DOMAIN bindings
  <2>1. UNCHANGED <<bindings, used>>
    BY <1>1, <1>4 DEF Touch
  <2>2. BindType' /\ Current'
    BY <1>2, <1>3, <2>1 DEF BindType, Current
  <2> QED  BY <1>2, <2>1, <2>2, StillKept DEF BindInv
<1>5. CASE k \in DOMAIN bindings
  <2>1. PICK b : b = [bindings[k] EXCEPT !.lastUsed = now, !.expiresAt = now + BindTtl]
    OBVIOUS
  <2>0. PICK c \in Binding : c = bindings[k]
    BY <1>2, <1>5 DEF BindType
  <2>2. /\ bindings[k] \in Binding /\ b \in Binding /\ b.peer = bindings[k].peer
        /\ b.lastUsed = now /\ b.expiresAt = now + BindTtl
    <3>1. b = [c EXCEPT !.lastUsed = now, !.expiresAt = now + BindTtl] /\ now + BindTtl \in Nat
      BY <1>2, <2>0, <2>1, SizeAssumption
    <3> QED  BY <1>2, <2>0, <3>1 DEF Binding
  <2>3. /\ bindings' = [x \in DOMAIN bindings |-> IF x = k THEN b ELSE bindings[x]]
        /\ used' = [used EXCEPT ![k].at = now]
    <3>1. DOMAIN bindings \cup {k} = DOMAIN bindings
      BY <1>5
    <3> QED  BY <1>1, <1>5, <2>1, <3>1 DEF Touch, With
  <2>4. /\ used'[k].peer = used[k].peer /\ used'[k].at = now
        /\ \A x \in Key : x # k => used'[x] = used[x]
        /\ \A x \in Key : used[x].at \in Nat /\ used[x].at <= now
        /\ used' \in [Key -> [peer : Peer \cup {NoPeer}, at : Nat]]
    BY <1>2, <2>3 DEF BindType, Current
  <2>5. DOMAIN bindings' = DOMAIN bindings /\ bindings' \in [DOMAIN bindings -> Binding]
    BY <1>2, <2>2, <2>3 DEF BindType
  <2>6. BindType'
    BY <1>2, <1>3, <2>4, <2>5 DEF BindType
  <2>7. Current'
    BY <1>2, <2>2, <2>3, <2>4, <2>5 DEF Current, BindType
  <2>8. ASSUME NEW x \in Key, Recent(x)'
        PROVE  x \in DOMAIN bindings' /\ bindings'[x].peer = used'[x].peer
    <3>1. CASE x = k
      BY <1>2, <1>5, <2>2, <2>3, <2>4, <3>1 DEF Current
    <3>2. CASE x # k
      <4>1. Recent(x)
        BY <1>2, <2>4, <2>6, <2>8, <3>2, OwedBefore
      <4>2. x \in DOMAIN bindings /\ bindings[x].peer = used[x].peer
        BY <4>1, KeptIsOwed DEF BindInv, Owed
      <4> QED  BY <2>3, <2>4, <3>2, <4>2
    <3> QED  BY <3>1, <3>2
  <2>9. SessionKept'
    BY <2>8, KeptIsOwedNext DEF Owed
  <2> QED  BY <2>6, <2>7, <2>9 DEF BindInv
<1> QED  BY <1>4, <1>5

\* Set binds the session to the peer that was chosen.  The binding it may evict is the
\* one used longest ago: every other session in the store has been used since, and so
\* has the new one, which makes as many as the store has room for.
LEMMA SetKept ==
    ASSUME BindInv, UNCHANGED now, NEW m \in Attempt, Set(m)
    PROVE  BindInv'
<1>1. PICK r : r = attempts[m]
  OBVIOUS
<1>2. PICK k : k = r.key
  OBVIOUS
<1>3. /\ BindType /\ Current /\ now \in Nat /\ k \in Key /\ r \in Routing
      /\ \A x \in Key : used[x].at \in Nat /\ used[x].at <= now
  BY <1>1, <1>2 DEF BindInv, BindType, Current, Set
<1>5. PICK p \in Best(r), rest \in Room(k) :
        /\ bindings' = [x \in DOMAIN rest \cup {k} |->
                          IF x # k THEN rest[x]
                          ELSE [peer |-> p, lastUsed |-> now, expiresAt |-> now + BindTtl]]
        /\ used' = [used EXCEPT ![k] = [peer |-> p, at |-> now]]
        /\ attempts' = [attempts EXCEPT ![m].pc = "send", ![m].bound = NoPeer, ![m].chosen = p]
  BY <1>1, <1>2, ZenonT(60) DEF Set
<1>6. rest \in EvictOldest \/ rest = bindings
  BY <1>5 DEF Room
<1>7. PICK b : b = [peer |-> p, lastUsed |-> now, expiresAt |-> now + BindTtl]
  OBVIOUS
<1>8. p \in Peer /\ p # NoPeer
  BY <1>3, KeyAssumption DEF Best, Routing
<1>9. /\ b \in Binding /\ b.peer = p /\ b.lastUsed = now /\ b.expiresAt = now + BindTtl
      /\ bindings' = [x \in DOMAIN rest \cup {k} |-> IF x = k THEN b ELSE rest[x]]
  BY <1>3, <1>5, <1>7, <1>8, SizeAssumption DEF Binding
<1>10. /\ used'[k].peer = p /\ used'[k].at = now
       /\ \A x \in Key : x # k => used'[x] = used[x]
       /\ used' \in [Key -> [peer : Peer \cup {NoPeer}, at : Nat]]
  BY <1>3, <1>5, <1>8 DEF BindType
<1>11. /\ attempts' \in [Attempt -> Routing]
       /\ \A x \in Attempt : attempts'[x].pc # "idle" => attempts'[x].key \in Key
  BY <1>1, <1>2, <1>3, <1>5, <1>8 DEF BindType, Routing
<1>12. /\ DOMAIN rest \subseteq DOMAIN bindings
       /\ \A x \in DOMAIN rest : rest[x] = bindings[x]
  BY <1>6 DEF EvictOldest, Only
<1>13. /\ DOMAIN bindings' = DOMAIN rest \cup {k} /\ bindings'[k] = b
       /\ \A x \in DOMAIN rest : x # k => bindings'[x] = bindings[x]
  BY <1>9, <1>12
<1>14. BindType'
  <2>1. DOMAIN bindings' \subseteq Key
    BY <1>3, <1>12, <1>13 DEF BindType
  <2>2. \A x \in DOMAIN bindings' : bindings'[x] \in Binding
    BY <1>3, <1>9, <1>12, <1>13 DEF BindType
  <2>3. bindings' \in [DOMAIN bindings' -> Binding]
    BY <1>9, <2>2
  <2> QED  BY <1>3, <1>10, <1>11, <2>1, <2>3 DEF BindType
<1>15. Current'
  <2>1. \A x \in Key : used'[x].at <= now
    BY <1>3, <1>10
  <2>2. \A x \in DOMAIN bindings' : /\ bindings'[x].peer = used'[x].peer
                                    /\ bindings'[x].lastUsed = used'[x].at
                                    /\ bindings'[x].expiresAt = used'[x].at + BindTtl
    BY <1>3, <1>9, <1>10, <1>12, <1>13 DEF Current, BindType
  <2> QED  BY <2>1, <2>2 DEF Current
<1>16. ASSUME NEW x \in Key, Recent(x)'
       PROVE  x \in DOMAIN bindings' /\ bindings'[x].peer = used'[x].peer
  <2>1. CASE x = k
    BY <1>9, <1>10, <1>13, <2>1
  <2>2. CASE x # k
    <3>1. Recent(x)
      BY <1>3, <1>8, <1>10, <1>14, <1>16, <2>2, OwedBefore
    <3>2. x \in DOMAIN bindings /\ bindings[x].peer = used[x].peer
      BY <3>1, KeptIsOwed DEF BindInv, Owed
    <3>3. CASE x \in DOMAIN rest
      BY <1>10, <1>13, <2>2, <3>2, <3>3
    <3>4. CASE x \notin DOMAIN rest
      <4>1. /\ maxSize > 0 /\ Cardinality(DOMAIN bindings) >= maxSize
            /\ k \notin DOMAIN bindings /\ rest \in EvictOldest
        BY <1>5, <3>2, <3>4 DEF Room
      <4>2. \A y \in DOMAIN bindings : bindings[x].lastUsed <= bindings[y].lastUsed
        BY <3>2, <3>4, <4>1 DEF EvictOldest, Only
      <4>3. PICK D : D = DOMAIN bindings
        OBVIOUS
      <4>4. D \in SUBSET Key /\ IsFiniteSet(D)
        BY <1>3, <4>3, KeyAssumption, FS_Subset DEF BindType
      <4>5. \A y \in D : used[y].peer # NoPeer /\ used[x].at <= used[y].at
        BY <1>3, <3>2, <4>2, <4>3, KeyAssumption DEF Current, BindType, Binding
      <4>6. (D \ {x}) \cup {k} \in SUBSET (Since(x)')
        <5>1. ASSUME NEW y \in D \ {x}
              PROVE  y \in Key \ {x} /\ used'[y].peer # NoPeer /\ used'[y].at >= used'[x].at
          BY <1>3, <1>10, <2>2, <4>1, <4>3, <4>4, <4>5
        <5>2. k \in Key \ {x} /\ used'[k].peer # NoPeer /\ used'[k].at >= used'[x].at
          BY <1>3, <1>8, <1>10, <2>2
        <5> QED  BY <5>1, <5>2 DEF Since
      <4>7. /\ IsFiniteSet(D \ {x}) /\ Cardinality(D \ {x}) = Cardinality(D) - 1
            /\ Cardinality(D) \in Nat
        BY <3>2, <4>3, <4>4, FS_RemoveElement, FS_CardinalityType
      <4>8. k \notin D \ {x}
        BY <4>1, <4>3
      <4>9. Cardinality((D \ {x}) \cup {k}) = Cardinality(D)
        <5>1. PICK E : E = D \ {x}
          OBVIOUS
        <5>2. Cardinality(E \cup {k}) = Cardinality(E) + 1
          BY <4>7, <4>8, <5>1, FS_AddElement
        <5> QED  BY <4>7, <5>1, <5>2
      <4>10. Cardinality(D) <= Cardinality(Since(x)')
        BY <4>6, <4>9, SinceFiniteNext, FS_Subset
      <4>11. maxSize > 0 /\ Cardinality(D) >= maxSize
        BY <4>1, <4>3
      <4> QED  BY <1>16, <4>7, <4>10, <4>11, SinceFiniteNext, SizeAssumption DEF Recent
    <3> QED  BY <3>3, <3>4
  <2> QED  BY <2>1, <2>2
<1>17. SessionKept'
  BY <1>16, KeptIsOwedNext DEF Owed
<1> QED  BY <1>14, <1>15, <1>17 DEF BindInv

LEMMA BindStep == BindInv /\ [SbNext]_<<now, sbVars>> => BindInv'
<1> SUFFICES ASSUME BindInv, [SbNext]_<<now, sbVars>> PROVE BindInv'
  OBVIOUS
<1>0. BindType /\ Current /\ now \in Nat
  BY DEF BindInv, BindType
<1>1. CASE Tick /\ UNCHANGED sbVars
  <2>1. UNCHANGED <<bindings, attempts, used>> /\ now' = now + 1
    BY <1>1 DEF Tick, sbVars
  <2>2. BindType'
    BY <1>0, <2>1 DEF BindType
  <2>3. Current'
    BY <1>0, <2>1 DEF Current, BindType
  <2>4. SessionKept'
    BY <1>0, <2>1, <2>2, StillKept
  <2> QED  BY <2>2, <2>3, <2>4 DEF BindInv
<1>2. CASE UNCHANGED now /\ Cleanup
  <2>1. PICK K : K = {k \in DOMAIN bindings : now <= bindings[k].expiresAt}
    OBVIOUS
  <2>2. bindings' = [x \in K |-> bindings[x]] /\ UNCHANGED <<now, attempts, used>>
    BY <1>2, <2>1 DEF Cleanup, Only
  <2>3. BindType'
    BY <1>0, <2>1, <2>2 DEF BindType
  <2>4. Current'
    BY <1>0, <2>1, <2>2 DEF Current
  <2>5. \A k \in DOMAIN bindings : \/ k \in DOMAIN bindings' /\ bindings'[k] = bindings[k]
                                   \/ now' - used[k].at > BindTtl
    BY <1>0, <2>1, <2>2, SizeAssumption DEF Current, BindType
  <2>6. SessionKept'
    BY <1>0, <2>2, <2>3, <2>5, StillKept
  <2> QED  BY <2>3, <2>4, <2>6 DEF BindInv
<1>3. CASE UNCHANGED <<now, sbVars>>
  <2>1. UNCHANGED <<now, bindings, attempts, used>>
    BY <1>3 DEF sbVars
  <2> QED  BY <2>1 DEF BindInv, BindType, Current, SessionKept
<1> QED  BY <1>1, <1>2, <1>3, AttemptKept, TouchKept, SetKept DEF SbNext

\* A session stays bound to the peer it was last routed to while it is used within the time
\* to live and fewer than maxSize other sessions have been used since, whatever requests
\* overlap between Get, Touch and Set (bindingStore, handleOutgoing, handlePostRoute).
THEOREM BoundSessionsStay == SbSpec => []SessionKept
<1>1. BindInv => SessionKept
  BY DEF BindInv
<1> QED  BY <1>1, BindStart, BindStep, PTL DEF SbSpec

-----------------------------------------------------------------------------
(* Throttling: what a bucket has let through, and what is left in it, is     *)
(* covered by its burst and by what its rate has yielded.                    *)

\* The rule a bucket's key stands for.
RuleOf(k) ==
    CASE k[1] = "cmd" -> RuleDefaults(Rules.command[k[2]])
      [] k[1] = "app" -> RuleDefaults(Rules.application[k[2]])
      [] k[1] = "peer" -> RuleDefaults(Rules.peer)
      [] OTHER -> RuleDefaults(Rules.partner)

Buckets == UNION {{d.key : d \in SelectRule(q)} : q \in Arrival}

LEMMA RuleByKey ==
    ASSUME NEW q, NEW d \in SelectRule(q) PROVE d.rule = RuleOf(d.key)
<1> DEFINE R(rs, k) == IF k \in DOMAIN rs THEN {RuleDefaults(rs[k])} ELSE {}
           scopes == <<"cmd", "app", "peer", "partner">>
           rules  == <<R(Rules.command, q.cmd), R(Rules.application, q.app),
                       {RuleDefaults(Rules.peer)}, {RuleDefaults(Rules.partner)}>>
<1>1. PICK i \in 1 .. 4 : /\ \E r \in rules[i] : r.rate > 0
                          /\ d = [rule |-> CHOOSE r \in rules[i] : TRUE, key |-> BucketKey(scopes[i], q)]
  BY DEF SelectRule
<1>2. CASE i = 1
  <2>1. rules[i] = {RuleDefaults(Rules.command[q.cmd])} /\ scopes[i] = "cmd"
    BY <1>1, <1>2
  <2> HIDE DEF rules, scopes
  <2>2. d.rule = RuleDefaults(Rules.command[q.cmd]) /\ d.key = BucketKey("cmd", q)
    BY <1>1, <2>1
  <2>3. d.key = <<"cmd", q.cmd>>
    BY <2>2 DEF BucketKey
  <2> QED  BY <2>2, <2>3 DEF RuleOf
<1>3. CASE i = 2
  <2>1. rules[i] = {RuleDefaults(Rules.application[q.app])} /\ scopes[i] = "app"
    BY <1>1, <1>3
  <2> HIDE DEF rules, scopes
  <2>2. d.rule = RuleDefaults(Rules.application[q.app]) /\ d.key = BucketKey("app", q)
    BY <1>1, <2>1
  <2>3. d.key = <<"app", q.app>>
    BY <2>2 DEF BucketKey
  <2> QED  BY <2>2, <2>3 DEF RuleOf
<1>4. CASE i = 3
  <2>1. rules[i] = {RuleDefaults(Rules.peer)} /\ scopes[i] = "peer"
    BY <1>1, <1>4
  <2> HIDE DEF rules, scopes
  <2>2. d.rule = RuleDefaults(Rules.peer) /\ d.key = BucketKey("peer", q)
    BY <1>1, <2>1
  <2>3. d.key = <<"peer", q.peer>>
    BY <2>2 DEF BucketKey
  <2> QED  BY <2>2, <2>3 DEF RuleOf
<1>5. CASE i = 4
  <2>1. rules[i] = {RuleDefaults(Rules.partner)} /\ scopes[i] = "partner"
    BY <1>1, <1>5
  <2> HIDE DEF rules, scopes
  <2>2. d.rule = RuleDefaults(Rules.partner) /\ d.key = BucketKey("partner", q)
    BY <1>1, <2>1
  <2>3. d.key = <<"partner">>
    BY <2>2 DEF BucketKey
  <2> QED  BY <2>2, <2>3 DEF RuleOf
<1> QED  BY <1>1, <1>2, <1>3, <1>4, <1>5

LEMMA Scale ==
    ASSUME NEW r \in Nat, NEW a \in Int, NEW b \in Int
    PROVE  /\ r * a \in Int /\ r * (a + b) = r * a + r * b
           /\ (a <= b) => (r * a <= r * b)
<1>1. r * a \in Int /\ r * b \in Int /\ r * (a + b) = r * a + r * b
  OBVIOUS
<1>2. ASSUME a <= b PROVE r * a <= r * b
  <2>1. PICK d \in Nat : b = a + d
    BY <1>2
  <2>2. r * b = r * a + r * d /\ r * d \in Nat
    BY <2>1
  <2> QED  BY <1>1, <2>2
<1> QED  BY <1>1, <1>2

\* A refill up to the reading z of a bucket last filled at f.
LEMMA FillPays ==
    ASSUME NEW r \in Nat, NEW n \in Int, NEW t \in Int, NEW B \in Int,
           NEW f \in Int, NEW z \in Int, NEW a \in Int,
           n + t <= B + r * (f - a)
    PROVE  n + (t + (z - f) * r) <= B + r * (z - a)
<1>1. (z - f) * r = r * (z - f) /\ r * (z - f) \in Int
  OBVIOUS
<1>2. (z - f) + (f - a) = z - a
  OBVIOUS
<1>3. r * (z - a) = r * (z - f) + r * (f - a) /\ r * (f - a) \in Int
  <2>1. z - f \in Int /\ f - a \in Int
    OBVIOUS
  <2> QED  BY <1>2, <2>1, Scale
<1> QED  BY <1>1, <1>3

\* The sweep at time s drops a bucket last filled at f and last used at u.
LEMMA SweepPays ==
    ASSUME NEW r \in Nat, NEW n \in Int, NEW t \in Nat, NEW B \in Int, NEW f \in Int,
           NEW u \in Int, NEW s \in Int, NEW a \in Int, NEW I \in Int, NEW L \in Int,
           n + t <= B + r * (f - a), f <= u + L, u < s - I, r * (I + 1 - 2 * L) >= B
    PROVE  n <= r * (s - L - a)
<1>1. f - a \in Int /\ I + 1 - 2 * L \in Int /\ s - L - a \in Int
      /\ (f - a) + (I + 1 - 2 * L) <= s - L - a
      /\ (f - a) + (I + 1 - 2 * L) \in Int
  OBVIOUS
<1>2. PICK x \in Int, y \in Int, z \in Int : x = f - a /\ y = I + 1 - 2 * L /\ z = s - L - a
  BY <1>1
<1>3. r * (x + y) = r * x + r * y /\ r * x \in Int /\ r * y \in Int
  BY Scale
<1>4. r * (x + y) <= r * z /\ r * z \in Int
  BY <1>1, <1>2, Scale
<1>5. n + t <= B + r * x /\ r * y >= B
  BY <1>2
<1>6. n <= r * z
  BY <1>3, <1>4, <1>5
<1> QED  BY <1>2, <1>6

\* A rule and a key that selectRule has returned.
LEMMA RuleFacts ==
    ASSUME NEW k \in Buckets
    PROVE  /\ RuleOf(k) \in AllRules /\ RuleOf(k).rate \in Nat /\ RuleOf(k).burst \in Nat
           /\ Unit \in Nat /\ Unit > 0 /\ RuleOf(k).burst * Unit \in Nat
<1>1. RuleOf(k) \in AllRules
  BY RuleByKey DEF Buckets, AllRules
<1>2. RuleOf(k).rate \in Nat /\ RuleOf(k).burst \in Nat /\ Unit \in Nat /\ Unit > 0
  BY <1>1, RateAssumption
<1> QED  BY <1>1, <1>2

Bucket == [tokens : Nat, lastFill : Nat, lastUsed : Nat]
Asked  == [key : Buckets, rule : AllRules, read : Nat]
Passed == [key : Buckets, rule : AllRules, read : Nat, at : Nat]

RateType ==
    /\ now \in Nat
    /\ DOMAIN tokenBuckets \subseteq Buckets /\ tokenBuckets \in [DOMAIN tokenBuckets -> Bucket]
    /\ DOMAIN calls = Limited /\ \A m \in Limited : calls[m] # NoCall => calls[m] \in Asked
    /\ allowed \in Seq(Passed)

\* Every rule is that of its key, no time is yet to come, no reading is older than MaxLag
\* when it is used, and no bucket holds more than its burst.
Timed ==
    /\ \A m \in Limited : calls[m] # NoCall =>
          /\ calls[m].rule = RuleOf(calls[m].key)
          /\ calls[m].read <= now /\ now <= calls[m].read + MaxLag
    /\ \A k \in DOMAIN tokenBuckets :
          /\ tokenBuckets[k].tokens <= RuleOf(k).burst * Unit
          /\ tokenBuckets[k].lastFill <= now
          /\ tokenBuckets[k].lastFill <= tokenBuckets[k].lastUsed + MaxLag
    /\ \A i \in DOMAIN allowed : allowed[i].rule = RuleOf(allowed[i].key) /\ allowed[i].read <= now

\* The requests of the i-th one's bucket that were allowed from it up to the j-th.
Spent(i, j) == Cardinality({k \in i .. j : allowed[k].key = allowed[i].key})

\* What has been let through since the i-th request, and is left, is covered; once the
\* bucket is gone it is covered by the rate alone, up to the oldest reading in use.
Covered(i) ==
    LET c == allowed[i]
        n == Spent(i, Len(allowed)) * Unit
        R == RuleOf(c.key)
    IN  IF c.key \in DOMAIN tokenBuckets
        THEN n + tokenBuckets[c.key].tokens
               <= R.burst * Unit + R.rate * (tokenBuckets[c.key].lastFill - c.read)
        ELSE n <= R.rate * (now - MaxLag - c.read)

Budget == \A i \in DOMAIN allowed : Covered(i)

RateInv == RateType /\ Timed /\ Budget /\ RateBound

LEMMA SpentNat ==
    ASSUME NEW i \in Nat, NEW j \in Nat
    PROVE  /\ IsFiniteSet({k \in i .. j : allowed[k].key = allowed[i].key})
           /\ Spent(i, j) \in Nat
<1>1. {k \in i .. j : allowed[k].key = allowed[i].key} \in SUBSET (i .. j)
  OBVIOUS
<1>2. IsFiniteSet(i .. j)
  BY FS_Interval
<1> QED  BY <1>1, <1>2, FS_Subset, FS_CardinalityType DEF Spent

LEMMA SpentNatNext ==
    ASSUME NEW i \in Nat, NEW j \in Nat
    PROVE  Spent(i, j)' \in Nat
<1>1. {k \in i .. j : allowed'[k].key = allowed'[i].key} \in SUBSET (i .. j)
  OBVIOUS
<1>2. IsFiniteSet(i .. j)
  BY FS_Interval
<1> QED  BY <1>1, <1>2, FS_Subset, FS_CardinalityType DEF Spent

\* What the invariant says of an entry of allowed.
LEMMA EntryFacts ==
    ASSUME RateType, Timed, NEW i \in DOMAIN allowed
    PROVE  /\ i \in Nat /\ i >= 1 /\ Len(allowed) \in Nat /\ i <= Len(allowed)
           /\ allowed[i] \in Passed /\ allowed[i].key \in Buckets
           /\ allowed[i].read \in Nat /\ allowed[i].at \in Nat
           /\ allowed[i].rule = RuleOf(allowed[i].key) /\ allowed[i].read <= now
           /\ RuleOf(allowed[i].key).rate \in Nat /\ RuleOf(allowed[i].key).burst * Unit \in Nat
           /\ now \in Nat /\ MaxLag \in Nat /\ Unit \in Nat
<1>1. i \in 1 .. Len(allowed) /\ Len(allowed) \in Nat /\ allowed[i] \in Passed
  BY DEF RateType
<1>2. allowed[i].key \in Buckets /\ allowed[i].read \in Nat /\ allowed[i].at \in Nat
  BY <1>1 DEF Passed
<1> QED  BY <1>1, <1>2, RuleFacts, RateAssumption DEF Timed, RateType

\* The budget keeps the bound at the present moment.
LEMMA BudgetBounds ==
    ASSUME RateType, Timed, NEW i \in DOMAIN allowed, Covered(i)
    PROVE  Spent(i, Len(allowed)) * Unit
             <= RuleOf(allowed[i].key).burst * Unit
                  + RuleOf(allowed[i].key).rate * (now - allowed[i].read)
<1>1. PICK c \in Passed : c = allowed[i]
  BY EntryFacts
<1>2. PICK r \in Nat, B \in Nat, n \in Nat, a \in Nat, z \in Nat :
        /\ r = RuleOf(c.key).rate /\ B = RuleOf(c.key).burst * Unit
        /\ n = Spent(i, Len(allowed)) * Unit /\ a = c.read /\ z = now
  <2>1. Spent(i, Len(allowed)) * Unit \in Nat
    <3>1. i \in Nat /\ Len(allowed) \in Nat /\ Unit \in Nat
      BY EntryFacts
    <3>2. Spent(i, Len(allowed)) \in Nat
      BY <3>1, SpentNat
    <3> QED  BY <3>1, <3>2
  <2> QED  BY <1>1, <2>1, EntryFacts
<1>3. CASE c.key \in DOMAIN tokenBuckets
  <2>1. PICK t \in Nat, f \in Nat : t = tokenBuckets[c.key].tokens /\ f = tokenBuckets[c.key].lastFill
    BY <1>3 DEF RateType, Bucket
  <2>2. n + t <= B + r * (f - a) /\ f <= z
    BY <1>1, <1>2, <1>3, <2>1 DEF Covered, Timed
  <2>3. r * (f - a) <= r * (z - a) /\ r * (f - a) \in Int /\ r * (z - a) \in Int
    <3>1. f - a \in Int /\ z - a \in Int /\ f - a <= z - a
      BY <2>2
    <3> QED  BY <3>1, Scale
  <2>4. n <= B + r * (z - a)
    BY <2>2, <2>3
  <2> QED  BY <1>1, <1>2, <2>4
<1>4. CASE c.key \notin DOMAIN tokenBuckets
  <2>1. n <= r * (z - MaxLag - a)
    BY <1>1, <1>2, <1>4 DEF Covered
  <2>2. r * (z - MaxLag - a) <= r * (z - a) /\ r * (z - MaxLag - a) \in Int /\ r * (z - a) \in Int
    <3>1. z - MaxLag - a \in Int /\ z - a \in Int /\ z - MaxLag - a <= z - a
      BY RateAssumption
    <3> QED  BY <3>1, Scale
  <2>3. n <= B + r * (z - a)
    BY <2>1, <2>2
  <2> QED  BY <1>1, <1>2, <2>3
<1> QED  BY <1>3, <1>4

LEMMA BudgetBoundsNext ==
    (RateType /\ Timed /\ Budget =>
        \A i \in DOMAIN allowed :
           Spent(i, Len(allowed)) * Unit
             <= RuleOf(allowed[i].key).burst * Unit
                  + RuleOf(allowed[i].key).rate * (now - allowed[i].read))'
<1>1. RateType /\ Timed /\ Budget =>
        \A i \in DOMAIN allowed :
           Spent(i, Len(allowed)) * Unit
             <= RuleOf(allowed[i].key).burst * Unit
                  + RuleOf(allowed[i].key).rate * (now - allowed[i].read)
  BY BudgetBounds DEF Budget
<1> QED  BY <1>1, PTL

\* The steps that let no request through keep the bound.
LEMMA BoundStays == ASSUME RateBound, UNCHANGED allowed PROVE RateBound'
  BY DEF RateBound

LEMMA RateStart == ClockInit /\ RlInit => RateInv
<1> SUFFICES ASSUME ClockInit, RlInit PROVE RateInv
  OBVIOUS
<1>1. DOMAIN tokenBuckets = {} /\ tokenBuckets \in [DOMAIN tokenBuckets -> Bucket]
  BY DEF RlInit
<1>2. DOMAIN allowed = {} /\ allowed \in Seq(Passed)
  BY DEF RlInit
<1>3. RateType
  BY <1>1, <1>2 DEF RlInit, ClockInit, RateType
<1>4. Timed /\ Budget /\ RateBound
  BY <1>1, <1>2 DEF RlInit, Timed, Budget, RateBound
<1> QED  BY <1>3, <1>4 DEF RateInv

\* The clock goes on only while no reading is MaxLag old.
LEMMA TickRate ==
    ASSUME RateInv, \A m \in Limited : calls[m] # NoCall => now - calls[m].read < MaxLag,
           Tick, UNCHANGED rlVars
    PROVE  RateInv'
<1>1. UNCHANGED <<tokenBuckets, calls, allowed>> /\ now' = now + 1 /\ now \in Nat /\ MaxLag \in Nat
      /\ RateType /\ Timed
  BY RateAssumption DEF Tick, rlVars, RateInv, RateType
<1>2. RateType'
  BY <1>1 DEF RateType
<1>3. Timed'
  <2>1. \A m \in Limited : calls[m] # NoCall => calls[m].read \in Nat
    BY <1>1 DEF RateType, Asked
  <2>2. \A k \in DOMAIN tokenBuckets : tokenBuckets[k].lastFill \in Nat
    BY <1>1 DEF RateType, Bucket
  <2>3. \A i \in DOMAIN allowed : allowed[i].read \in Nat
    BY <1>1, EntryFacts
  <2> QED  BY <1>1, <2>1, <2>2, <2>3 DEF Timed
<1>4. ASSUME NEW i \in DOMAIN allowed PROVE Covered(i)'
  <2>1. Covered(i)
    BY DEF RateInv, Budget
  <2>2. CASE allowed[i].key \in DOMAIN tokenBuckets
    BY <1>1, <2>1, <2>2 DEF Covered, Spent
  <2>3. CASE allowed[i].key \notin DOMAIN tokenBuckets
    <3>1. PICK r \in Nat, a \in Nat : r = RuleOf(allowed[i].key).rate /\ a = allowed[i].read
      BY <1>1, EntryFacts
    <3>2. PICK n \in Nat : n = Spent(i, Len(allowed)) * Unit
      <4>1. i \in Nat /\ Len(allowed) \in Nat /\ Unit \in Nat
        BY <1>1, EntryFacts
      <4>2. Spent(i, Len(allowed)) \in Nat
        BY <4>1, SpentNat
      <4> QED  BY <4>1, <4>2
    <3>3. n <= r * (now - MaxLag - a)
      BY <2>1, <2>3, <3>1, <3>2 DEF Covered
    <3>4. /\ r * (now - MaxLag - a) <= r * ((now + 1) - MaxLag - a)
          /\ r * (now - MaxLag - a) \in Int /\ r * ((now + 1) - MaxLag - a) \in Int
      <4>1. /\ now - MaxLag - a \in Int /\ (now + 1) - MaxLag - a \in Int
            /\ now - MaxLag - a <= (now + 1) - MaxLag - a
        BY <1>1
      <4> QED  BY <4>1, Scale
    <3>5. n <= r * ((now + 1) - MaxLag - a)
      BY <3>3, <3>4
    <3> QED  BY <1>1, <2>3, <3>1, <3>2, <3>5 DEF Covered, Spent
  <2> QED  BY <2>2, <2>3
<1>5. Budget' /\ RateBound'
  BY <1>1, <1>4, BoundStays DEF Budget, RateInv
<1> QED  BY <1>2, <1>3, <1>5 DEF RateInv

LEMMA AskRate ==
    ASSUME RateInv, UNCHANGED now, NEW m \in Limited, NEW q \in Arrival, HandleRouting(m, q)
    PROVE  RateInv'
<1>1. RateType /\ Timed /\ now \in Nat /\ MaxLag \in Nat /\ UNCHANGED <<tokenBuckets, allowed>>
  BY RateAssumption DEF RateInv, RateType, HandleRouting
<1>2. PICK d \in SelectRule(q) : calls' = [calls EXCEPT ![m] = [key |-> d.key, rule |-> d.rule, read |-> now]]
  BY DEF HandleRouting
<1>3. d.key \in Buckets /\ d.rule \in AllRules /\ d.rule = RuleOf(d.key)
  BY RuleByKey DEF Buckets, AllRules
<1>4. PICK c \in Asked : c = [key |-> d.key, rule |-> d.rule, read |-> now]
  BY <1>1, <1>3 DEF Asked
<1>5. /\ DOMAIN calls' = Limited
      /\ \A x \in Limited : calls'[x] = IF x = m THEN c ELSE calls[x]
      /\ c.rule = RuleOf(c.key) /\ c.read = now
  BY <1>1, <1>2, <1>3, <1>4 DEF RateType
<1>6. RateType'
  BY <1>1, <1>5 DEF RateType
<1>7. Timed'
  BY <1>1, <1>5 DEF Timed
<1>8. Budget' /\ RateBound'
  BY <1>1, BoundStays DEF Budget, Covered, Spent, RateInv
<1> QED  BY <1>6, <1>7, <1>8 DEF RateInv

\* The sweep drops only buckets that would be full by the oldest reading in use.
LEMMA SweepRate ==
    ASSUME Refills, RateInv, UNCHANGED now, SweepIdle
    PROVE  RateInv'
<1>1. PICK K : K = {k \in DOMAIN tokenBuckets : tokenBuckets[k].lastUsed >= now - IdleTTL}
  OBVIOUS
<1>2. /\ RateType /\ Timed /\ now \in Nat /\ MaxLag \in Nat /\ IdleTTL \in Nat
      /\ tokenBuckets' = [k \in K |-> tokenBuckets[k]] /\ UNCHANGED <<calls, allowed>>
  BY <1>1, RateAssumption DEF RateInv, RateType, SweepIdle
<1>3. RateType'
  BY <1>1, <1>2 DEF RateType
<1>4. Timed'
  BY <1>1, <1>2 DEF Timed
<1>5. ASSUME NEW i \in DOMAIN allowed PROVE Covered(i)'
  <2>1. Covered(i)
    BY DEF RateInv, Budget
  <2>2. PICK k \in Buckets : k = allowed[i].key
    BY <1>2, EntryFacts
  <2>3. CASE k \in K
    BY <1>1, <1>2, <2>1, <2>2, <2>3 DEF Covered, Spent
  <2>4. CASE k \notin DOMAIN tokenBuckets
    BY <1>1, <1>2, <2>1, <2>2, <2>4 DEF Covered, Spent
  <2>5. CASE k \in DOMAIN tokenBuckets \ K
    <3>1. PICK r \in Nat, B \in Nat, a \in Nat :
            r = RuleOf(k).rate /\ B = RuleOf(k).burst * Unit /\ a = allowed[i].read
      BY <1>2, <2>2, EntryFacts
    <3>2. PICK t \in Nat, f \in Nat, u \in Nat : /\ t = tokenBuckets[k].tokens
                                                 /\ f = tokenBuckets[k].lastFill
                                                 /\ u = tokenBuckets[k].lastUsed
      BY <1>2, <2>5 DEF RateType, Bucket
    <3>3. PICK n \in Nat : n = Spent(i, Len(allowed)) * Unit
      <4>1. i \in Nat /\ Len(allowed) \in Nat /\ Unit \in Nat
        BY <1>2, EntryFacts
      <4>2. Spent(i, Len(allowed)) \in Nat
        BY <4>1, SpentNat
      <4> QED  BY <4>1, <4>2
    <3>4. n + t <= B + r * (f - a) /\ f <= u + MaxLag
      BY <1>2, <2>1, <2>2, <2>5, <3>1, <3>2, <3>3 DEF Covered, Timed
    <3>5. u < now - IdleTTL
      BY <1>1, <1>2, <2>5, <3>2
    <3>6. r * (IdleTTL + 1 - 2 * MaxLag) >= B
      BY <2>2, <3>1, RuleFacts DEF Refills
    <3>7. n <= r * (now - MaxLag - a)
      BY <1>2, <3>4, <3>5, <3>6, SweepPays
    <3> QED  BY <1>1, <1>2, <2>2, <2>5, <3>1, <3>3, <3>7 DEF Covered, Spent
  <2> QED  BY <2>3, <2>4, <2>5
<1>6. Budget' /\ RateBound'
  BY <1>2, <1>5, BoundStays DEF Budget, RateInv
<1> QED  BY <1>3, <1>4, <1>6 DEF RateInv

LEMMA SpentAppend ==
    ASSUME NEW e \in Passed, allowed \in Seq(Passed), allowed' = Append(allowed, e),
           NEW l \in Nat, l = Len(allowed)
    PROVE  /\ \A i \in 1 .. l :
                /\ \A j \in 1 .. l : Spent(i, j)' = Spent(i, j)
                /\ Spent(i, l + 1)' = IF allowed[i].key = e.key THEN Spent(i, l) + 1
                                                                ELSE Spent(i, l)
           /\ Spent(l + 1, l + 1)' = 1
<1>2. /\ \A k \in 1 .. l : allowed'[k] = allowed[k]
      /\ allowed'[l + 1] = e
  OBVIOUS
<1>3. ASSUME NEW i \in 1 .. l, NEW j \in 1 .. l PROVE Spent(i, j)' = Spent(i, j)
  <2>1. \A k \in i .. j : k \in 1 .. l
    OBVIOUS
  <2>2. {k \in i .. j : allowed'[k].key = allowed'[i].key}
          = {k \in i .. j : allowed[k].key = allowed[i].key}
    BY <1>2, <2>1
  <2> QED  BY <2>2 DEF Spent
<1>4. ASSUME NEW i \in 1 .. l
      PROVE  Spent(i, l + 1)' = IF allowed[i].key = e.key THEN Spent(i, l) + 1 ELSE Spent(i, l)
  <2>1. PICK S, T : /\ S = {k \in i .. l : allowed[k].key = allowed[i].key}
                    /\ T = {k \in i .. l + 1 : allowed'[k].key = allowed'[i].key}
    OBVIOUS
  <2>2. IsFiniteSet(S) /\ Cardinality(S) = Spent(i, l) /\ Cardinality(T) = Spent(i, l + 1)'
    BY <2>1, SpentNat DEF Spent
  <2>3. ASSUME NEW k PROVE k \in i .. l + 1 <=> k \in i .. l \/ k = l + 1
    OBVIOUS
  <2>4. \A k \in i .. l : k \in 1 .. l
    OBVIOUS
  <2>5. l + 1 \notin S
    BY <2>1
  <2>6. CASE allowed[i].key = e.key
    <3>1. T = S \cup {l + 1}
      BY <1>2, <2>1, <2>3, <2>4, <2>6
    <3> QED  BY <2>2, <2>5, <2>6, <3>1, FS_AddElement
  <2>7. CASE allowed[i].key # e.key
    <3>1. T = S
      BY <1>2, <2>1, <2>3, <2>4, <2>7
    <3> QED  BY <2>2, <2>7, <3>1
  <2> QED  BY <2>6, <2>7
<1>5. Spent(l + 1, l + 1)' = 1
  <2>1. {k \in l + 1 .. l + 1 : allowed'[k].key = allowed'[l + 1].key} = {l + 1}
    <3>1. \A k : k \in l + 1 .. l + 1 <=> k = l + 1
      OBVIOUS
    <3> QED  BY <3>1
  <2> QED  BY <2>1, FS_Singleton DEF Spent
<1> QED  BY <1>3, <1>4, <1>5, Zenon

\* The refill with a reading z that is not in the future.
LEMMA FilledFacts ==
    ASSUME NEW b \in Bucket, NEW R, R.rate \in Nat, NEW B \in Nat, B = R.burst * Unit,
           NEW z \in Nat, NEW s \in Nat, z <= s, s <= z + MaxLag,
           b.tokens <= B, b.lastFill <= s, MaxLag \in Nat
    PROVE  /\ Filled(b, R, z) \in Bucket
           /\ Filled(b, R, z).tokens <= B
           /\ Filled(b, R, z).lastFill <= s /\ z <= Filled(b, R, z).lastFill
           /\ Filled(b, R, z).lastUsed = z
           /\ \A n \in Nat, a \in Nat :
                n + b.tokens <= B + R.rate * (b.lastFill - a)
                  => n + Filled(b, R, z).tokens <= B + R.rate * (Filled(b, R, z).lastFill - a)
<1>1. PICK r \in Nat, t \in Nat, f \in Nat : r = R.rate /\ t = b.tokens /\ f = b.lastFill
  BY DEF Bucket
<1>2. PICK sum : sum = t + (z - f) * r
  OBVIOUS
<1>3. CASE z > f
  <2>1. PICK d \in Nat : d = z - f
    BY <1>3
  <2>2. sum \in Nat
    BY <1>2, <2>1
  <2>3. PICK x \in Nat : x = IF sum > B THEN B ELSE sum
    BY <2>2
  <2>4. Filled(b, R, z) = [tokens |-> x, lastFill |-> z, lastUsed |-> z]
    BY <1>1, <1>2, <1>3, <2>3 DEF Filled
  <2>5. x <= B /\ x <= sum
    BY <2>2, <2>3
  <2>6. ASSUME NEW n \in Nat, NEW a \in Nat, n + t <= B + r * (f - a)
        PROVE  n + x <= B + r * (z - a)
    <3>1. n + sum <= B + r * (z - a)
      BY <1>2, <2>6, FillPays
    <3>2. r * (z - a) \in Int
      <4>1. z - a \in Int
        OBVIOUS
      <4> QED  BY <4>1, Scale
    <3> QED  BY <2>2, <2>5, <3>1, <3>2
  <2> QED  BY <1>1, <2>4, <2>5, <2>6 DEF Bucket
<1>4. CASE ~(z > f)
  <2>1. Filled(b, R, z) = [b EXCEPT !.lastUsed = z]
    BY <1>1, <1>4 DEF Filled
  <2>2. PICK y \in Bucket : y = [b EXCEPT !.lastUsed = z]
    BY DEF Bucket
  <2>3. y.tokens = b.tokens /\ y.lastFill = b.lastFill /\ y.lastUsed = z
    BY <2>2 DEF Bucket
  <2> QED  BY <1>1, <1>4, <2>1, <2>2, <2>3
<1> QED  BY <1>3, <1>4

\* Allow: the bucket is refilled up to the reading, and a request takes a token.
LEMMA AllowRate ==
    ASSUME RateInv, UNCHANGED now, NEW m \in Limited, Allow(m)
    PROVE  RateInv'
<1>1. /\ RateType /\ Timed /\ Budget /\ RateBound /\ now \in Nat /\ MaxLag \in Nat
      /\ Unit \in Nat /\ Unit > 0 /\ calls[m] # NoCall
  BY RateAssumption DEF RateInv, RateType, Allow
<1>2. PICK c \in Asked : c = calls[m]
  BY <1>1 DEF RateType
<1>3. PICK k \in Buckets, z \in Nat, R \in AllRules : k = c.key /\ z = c.read /\ R = c.rule
  BY DEF Asked
<1>4. R = RuleOf(k) /\ z <= now /\ now <= z + MaxLag
  BY <1>1, <1>2, <1>3 DEF Timed
<1>5. PICK r \in Nat, B \in Nat : r = R.rate /\ B = R.burst * Unit
  BY <1>4, RuleFacts
<1>6. PICK b0 : b0 = IF k \in DOMAIN tokenBuckets THEN tokenBuckets[k]
                     ELSE [tokens |-> B, lastFill |-> z, lastUsed |-> z]
  OBVIOUS
<1>7. b0 \in Bucket /\ b0.tokens <= B /\ b0.lastFill <= now
  <2>1. CASE k \in DOMAIN tokenBuckets
    BY <1>1, <1>4, <1>5, <1>6, <2>1 DEF RateType, Timed
  <2>2. CASE k \notin DOMAIN tokenBuckets
    <3>1. b0 = [tokens |-> B, lastFill |-> z, lastUsed |-> z]
      BY <1>6, <2>2
    <3> QED  BY <1>4, <3>1 DEF Bucket
  <2> QED  BY <2>1, <2>2
<1>8. PICK b : b = Filled(b0, R, z)
  OBVIOUS
<1>9. /\ b \in Bucket /\ b.tokens <= B /\ b.lastFill <= now /\ z <= b.lastFill /\ b.lastUsed = z
      /\ \A n \in Nat, a \in Nat : n + b0.tokens <= B + r * (b0.lastFill - a)
                                     => n + b.tokens <= B + r * (b.lastFill - a)
  BY <1>1, <1>4, <1>5, <1>7, <1>8, FilledFacts
<1>10. PICK b1 : b1 = IF b.tokens >= Unit THEN [b EXCEPT !.tokens = @ - Unit] ELSE b
  OBVIOUS
<1>11. PICK e : e = [key |-> k, rule |-> R, read |-> z, at |-> now]
  OBVIOUS
<1>12. e \in Passed /\ e.key = k /\ e.rule = R /\ e.read = z /\ e.at = now
  BY <1>1, <1>11 DEF Passed
<1>13. /\ tokenBuckets' = [x \in DOMAIN tokenBuckets \cup {k} |->
                             IF x # k THEN tokenBuckets[x] ELSE b1]
       /\ allowed' = IF b.tokens >= Unit THEN Append(allowed, e) ELSE allowed
       /\ calls' = [calls EXCEPT ![m] = NoCall]
  BY <1>2, <1>3, <1>5, <1>6, <1>8, <1>10, <1>11 DEF Allow, Enforce
<1>14. /\ b1 \in Bucket /\ b1.lastFill = b.lastFill /\ b1.lastUsed = z
       /\ b1.tokens = IF b.tokens >= Unit THEN b.tokens - Unit ELSE b.tokens
       /\ b1.tokens <= B
  <2>1. CASE b.tokens >= Unit
    <3>1. b.tokens \in Nat /\ b.tokens - Unit \in Nat
      BY <1>1, <1>9, <2>1 DEF Bucket
    <3>2. b1 = [b EXCEPT !.tokens = b.tokens - Unit]
      BY <1>10, <2>1
    <3>3. b1 \in Bucket /\ b1.lastFill = b.lastFill /\ b1.lastUsed = b.lastUsed
          /\ b1.tokens = b.tokens - Unit
      BY <1>9, <3>1, <3>2 DEF Bucket
    <3> QED  BY <1>1, <1>9, <2>1, <3>1, <3>3
  <2>2. CASE ~(b.tokens >= Unit)
    BY <1>9, <1>10, <2>2
  <2> QED  BY <2>1, <2>2
<1>15. PICK l \in Nat : l = Len(allowed) /\ DOMAIN allowed = 1 .. l
  BY <1>1 DEF RateType
<1>16. RateType'
  <2>1. DOMAIN tokenBuckets' \subseteq Buckets /\ tokenBuckets' \in [DOMAIN tokenBuckets' -> Bucket]
    BY <1>1, <1>13, <1>14 DEF RateType
  <2>2. allowed' \in Seq(Passed)
    BY <1>1, <1>12, <1>13 DEF RateType
  <2>3. DOMAIN calls' = Limited /\ \A x \in Limited : calls'[x] # NoCall => calls'[x] \in Asked
    BY <1>1, <1>13 DEF RateType
  <2> QED  BY <1>1, <2>1, <2>2, <2>3 DEF RateType
<1>17. /\ DOMAIN allowed' = 1 .. (IF b.tokens >= Unit THEN l + 1 ELSE l)
       /\ Len(allowed') = (IF b.tokens >= Unit THEN l + 1 ELSE l)
       /\ \A i \in 1 .. l : allowed'[i] = allowed[i]
       /\ (b.tokens >= Unit) => (allowed'[l + 1] = e)
  BY <1>1, <1>12, <1>13, <1>15 DEF RateType
<1>18. Timed'
  <2>1. ASSUME NEW x \in Limited, calls'[x] # NoCall
        PROVE  /\ calls'[x].rule = RuleOf(calls'[x].key)
               /\ calls'[x].read <= now /\ now <= calls'[x].read + MaxLag
    BY <1>1, <1>13, <2>1 DEF Timed, RateType
  <2>2. ASSUME NEW x \in DOMAIN tokenBuckets'
        PROVE  /\ tokenBuckets'[x].tokens <= RuleOf(x).burst * Unit
               /\ tokenBuckets'[x].lastFill <= now
               /\ tokenBuckets'[x].lastFill <= tokenBuckets'[x].lastUsed + MaxLag
    <3>1. CASE x = k
      <4>1. tokenBuckets'[x] = b1
        BY <1>13, <3>1
      <4>2. b.lastFill \in Nat
        BY <1>9 DEF Bucket
      <4>3. b1.lastFill <= now /\ b1.lastFill <= b1.lastUsed + MaxLag
        BY <1>1, <1>4, <1>9, <1>14, <4>2
      <4> QED  BY <1>4, <1>5, <1>14, <3>1, <4>1, <4>3
    <3>2. CASE x # k
      BY <1>1, <1>13, <2>2, <3>2 DEF Timed
    <3> QED  BY <3>1, <3>2
  <2>3. ASSUME NEW i \in DOMAIN allowed'
        PROVE  allowed'[i].rule = RuleOf(allowed'[i].key) /\ allowed'[i].read <= now
    <3>1. CASE i \in 1 .. l
      BY <1>1, <1>15, <1>17, <3>1 DEF Timed
    <3>2. CASE i \notin 1 .. l
      <4>1. b.tokens >= Unit /\ i = l + 1
        BY <1>17, <3>2
      <4> QED  BY <1>4, <1>12, <1>17, <4>1
    <3> QED  BY <3>1, <3>2
  <2> QED  BY <2>1, <2>2, <2>3 DEF Timed
<1>19. ASSUME NEW i \in 1 .. l PROVE Covered(i)'
  <2>0. i \in Nat
    OBVIOUS
  <2>1. PICK n \in Nat : n = Spent(i, l)
    BY <2>0, SpentNat
  <2>2. PICK a \in Nat, x \in Buckets : a = allowed[i].read /\ x = allowed[i].key
    BY <1>1, <1>15, EntryFacts
  <2>3. Covered(i)
    BY <1>1, <1>15 DEF Budget
  <2>4. allowed'[i] = allowed[i]
    BY <1>17
  <2>5. Spent(i, Len(allowed))' = IF b.tokens >= Unit /\ x = k THEN n + 1 ELSE n
    <3>1. CASE b.tokens >= Unit
      <4>1. allowed' = Append(allowed, e) /\ allowed \in Seq(Passed) /\ Len(allowed') = l + 1
        BY <1>1, <1>13, <1>17, <3>1 DEF RateType
      <4>2. Spent(i, l + 1)' = IF allowed[i].key = e.key THEN Spent(i, l) + 1 ELSE Spent(i, l)
        BY <1>12, <1>15, <4>1, SpentAppend
      <4>3. Spent(i, Len(allowed))' = Spent(i, l + 1)'
        BY <4>1 DEF Spent
      <4> QED  BY <1>12, <2>1, <2>2, <3>1, <4>2, <4>3
    <3>2. CASE ~(b.tokens >= Unit)
      <4>1. allowed' = allowed
        BY <1>13, <3>2
      <4>2. Spent(i, Len(allowed))' = Spent(i, l)
        BY <1>15, <4>1 DEF Spent
      <4> QED  BY <2>1, <3>2, <4>2
    <3> QED  BY <3>1, <3>2
  <2>6. CASE x # k
    <3>1. Spent(i, Len(allowed))' = Spent(i, Len(allowed))
      BY <1>15, <2>1, <2>5, <2>6
    <3>2. (x \in DOMAIN tokenBuckets' <=> x \in DOMAIN tokenBuckets)
          /\ (x \in DOMAIN tokenBuckets => tokenBuckets'[x] = tokenBuckets[x])
      BY <1>13, <2>6
    <3> QED  BY <2>2, <2>3, <2>4, <3>1, <3>2 DEF Covered
  <2>7. CASE x = k
    <3>1. n * Unit + b0.tokens <= B + r * (b0.lastFill - a) /\ n * Unit \in Nat
      <4>1. n * Unit \in Nat
        BY <1>1
      <4>2. CASE k \in DOMAIN tokenBuckets
        BY <1>4, <1>5, <1>6, <1>15, <2>1, <2>2, <2>3, <2>7, <4>1, <4>2 DEF Covered
      <4>3. CASE k \notin DOMAIN tokenBuckets
        <5>1. n * Unit <= r * (now - MaxLag - a)
          BY <1>4, <1>5, <1>15, <2>1, <2>2, <2>3, <2>7, <4>3 DEF Covered
        <5>2. /\ r * (now - MaxLag - a) <= r * (z - a)
              /\ r * (now - MaxLag - a) \in Int /\ r * (z - a) \in Int
          <6>1. now - MaxLag - a \in Int /\ z - a \in Int /\ now - MaxLag - a <= z - a
            BY <1>1, <1>4
          <6> QED  BY <6>1, Scale
        <5>3. b0.tokens = B /\ b0.lastFill = z
          BY <1>6, <4>3
        <5>4. n * Unit + B <= B + r * (z - a)
          BY <4>1, <5>1, <5>2
        <5> QED  BY <4>1, <5>3, <5>4
      <4> QED  BY <4>2, <4>3
    <3>2. n * Unit + b.tokens <= B + r * (b.lastFill - a)
      BY <1>9, <3>1
    <3>3. Spent(i, Len(allowed))' * Unit + b1.tokens = n * Unit + b.tokens
      <4>1. b.tokens \in Nat
        BY <1>9 DEF Bucket
      <4>2. CASE b.tokens >= Unit
        <5>1. Spent(i, Len(allowed))' = n + 1 /\ b1.tokens = b.tokens - Unit
          BY <1>14, <2>5, <2>7, <4>2
        <5>2. (n + 1) * Unit = n * Unit + Unit
          BY <1>1
        <5> QED  BY <1>1, <3>1, <4>1, <5>1, <5>2
      <4>3. CASE ~(b.tokens >= Unit)
        BY <1>14, <2>5, <4>3
      <4> QED  BY <4>2, <4>3
    <3>4. k \in DOMAIN tokenBuckets' /\ tokenBuckets'[k] = b1
      BY <1>13
    <3> QED  BY <1>4, <1>5, <1>14, <2>2, <2>4, <2>7, <3>2, <3>3, <3>4 DEF Covered
  <2> QED  BY <2>6, <2>7
<1>20. ASSUME b.tokens >= Unit PROVE Covered(l + 1)'
  <2>1. allowed' = Append(allowed, e) /\ allowed \in Seq(Passed) /\ Len(allowed') = l + 1
        /\ allowed'[l + 1] = e
    BY <1>1, <1>13, <1>17, <1>20 DEF RateType
  <2>2. Spent(l + 1, l + 1)' = 1
    BY <1>12, <1>15, <2>1, SpentAppend
  <2>3. Spent(l + 1, Len(allowed))' = 1
    BY <2>1, <2>2 DEF Spent
  <2>4. k \in DOMAIN tokenBuckets' /\ tokenBuckets'[k] = b1
    BY <1>13
  <2>5. b1.tokens = b.tokens - Unit /\ b.tokens \in Nat /\ b.lastFill \in Nat
    BY <1>9, <1>14, <1>20 DEF Bucket
  <2>6. 0 <= r * (b.lastFill - z) /\ r * (b.lastFill - z) \in Int
    <3>1. PICK d \in Nat : d = b.lastFill - z
      BY <1>9, <2>5
    <3>2. r * d \in Nat
      OBVIOUS
    <3> QED  BY <3>1, <3>2
  <2>7. 1 * Unit + b1.tokens <= B + r * (b1.lastFill - z)
    BY <1>1, <1>9, <1>14, <2>5, <2>6
  <2> QED  BY <1>4, <1>5, <1>12, <2>1, <2>3, <2>4, <2>7 DEF Covered
<1>21. Budget'
  BY <1>17, <1>19, <1>20 DEF Budget
<1>22. RateBound'
  <2> SUFFICES ASSUME NEW i \in DOMAIN allowed', NEW j \in DOMAIN allowed', i <= j
               PROVE  Spent(i, j)' * Unit <= allowed'[i].rule.burst * Unit
                        + allowed'[i].rule.rate * (allowed'[j].at - allowed'[i].read)
    BY DEF RateBound, Spent
  <2>1. CASE j \in 1 .. l
    <3>1. i \in 1 .. l
      BY <1>17, <2>1
    <3>2. allowed'[i] = allowed[i] /\ allowed'[j] = allowed[j]
      BY <1>17, <2>1, <3>1
    <3>3. Spent(i, j)' = Spent(i, j)
      <4>1. CASE b.tokens >= Unit
        <5>1. allowed' = Append(allowed, e) /\ allowed \in Seq(Passed)
          BY <1>1, <1>13, <4>1 DEF RateType
        <5> QED  BY <1>12, <1>15, <2>1, <3>1, <5>1, SpentAppend
      <4>2. CASE ~(b.tokens >= Unit)
        BY <1>13, <4>2 DEF Spent
      <4> QED  BY <4>1, <4>2
    <3> QED  BY <1>1, <1>15, <2>1, <3>1, <3>2, <3>3 DEF RateBound, Spent
  <2>2. CASE j \notin 1 .. l
    <3>1. b.tokens >= Unit /\ j = l + 1 /\ j = Len(allowed') /\ allowed'[j].at = now'
      BY <1>12, <1>17, <2>2
    <3>2. Spent(i, Len(allowed))' = Spent(i, j)'
      BY <3>1 DEF Spent
    <3>3. allowed'[i].rule = RuleOf(allowed'[i].key)
      BY <1>18 DEF Timed
    <3>4. Spent(i, Len(allowed))' * Unit
            <= RuleOf(allowed'[i].key).burst * Unit
                 + RuleOf(allowed'[i].key).rate * (now' - allowed'[i].read)
      BY <1>16, <1>18, <1>21, BudgetBoundsNext
    <3> QED  BY <3>1, <3>2, <3>3, <3>4
  <2> QED  BY <2>1, <2>2
<1> QED  BY <1>16, <1>18, <1>21, <1>22 DEF RateInv

LEMMA RateStep == Refills /\ RateInv /\ [RlNext]_<<now, rlVars>> => RateInv'
<1> SUFFICES ASSUME Refills, RateInv, [RlNext]_<<now, rlVars>> PROVE RateInv'
  OBVIOUS
<1>1. CASE UNCHANGED <<now, rlVars>>
  <2>1. UNCHANGED <<now, tokenBuckets, calls, allowed>>
    BY <1>1 DEF rlVars
  <2> QED  BY <2>1 DEF RateInv, RateType, Timed, Budget, Covered, Spent, RateBound
<1> QED  BY <1>1, TickRate, AskRate, AllowRate, SweepRate DEF RlNext

\* If every rule refills its bucket in the idle time, then between the clock reading of one
\* allowed request and any later one a bucket lets through at most its burst and what its
\* rate yields, whatever the order in which goroutines use their readings and however often
\* the sweep drops the bucket (tokenLimiter.Allow and sweep).
THEOREM BucketsHold == Refills => (RlSpec => []RateBound)
<1> SUFFICES ASSUME Refills PROVE RlSpec => []RateBound
  OBVIOUS
<1>1. ClockInit /\ RlInit => RateInv
  BY RateStart
<1>2. RateInv /\ [RlNext]_<<now, rlVars>> => RateInv'
  BY RateStep
<1>3. RateInv => RateBound
  BY DEF RateInv
<1> QED  BY <1>1, <1>2, <1>3, PTL DEF RlSpec

-----------------------------------------------------------------------------
(* Topology hiding: the indexes of the pseudonym store agree.                *)

\* The place of i among the elements of I.
Rank(I, i) == Cardinality({h \in I : h <= i})

\* Every element of a finite set of numbers has a place of its own, and every place is taken.
LEMMA Ranks ==
    ASSUME NEW I \in SUBSET Nat, IsFiniteSet(I)
    PROVE  /\ Cardinality(I) \in Nat
           /\ \A i \in I : Rank(I, i) \in 1 .. Cardinality(I)
           /\ \A i, j \in I : i < j => Rank(I, i) < Rank(I, j)
           /\ \A j \in 1 .. Cardinality(I) : \E i \in I : Rank(I, i) = j
<1> DEFINE n      == Cardinality(I)
           upTo(i) == {h \in I : h <= i}
<1>1. n \in Nat
  BY FS_CardinalityType
<1>2. \A i \in I : IsFiniteSet(upTo(i)) /\ Rank(I, i) \in Nat /\ Rank(I, i) <= n
  <2> SUFFICES ASSUME NEW i \in I PROVE IsFiniteSet(upTo(i)) /\ Rank(I, i) \in Nat /\ Rank(I, i) <= n
    OBVIOUS
  <2>1. upTo(i) \in SUBSET I
    OBVIOUS
  <2>2. IsFiniteSet(upTo(i)) /\ Cardinality(upTo(i)) <= n
    BY <2>1, FS_Subset
  <2> QED  BY <2>2, FS_CardinalityType DEF Rank
<1>3. \A i \in I : Rank(I, i) \in 1 .. n
  <2> SUFFICES ASSUME NEW i \in I PROVE Rank(I, i) \in 1 .. n
    OBVIOUS
  <2>1. upTo(i) # {}
    OBVIOUS
  <2>2. Rank(I, i) # 0
    BY <1>2, <2>1, FS_EmptySet DEF Rank
  <2>3. Rank(I, i) \in Nat /\ Rank(I, i) <= n
    BY <1>2
  <2> HIDE DEF n
  <2> QED  BY <1>1, <2>2, <2>3
<1>4. \A i, j \in I : i < j => Rank(I, i) < Rank(I, j)
  <2> SUFFICES ASSUME NEW i \in I, NEW j \in I, i < j PROVE Rank(I, i) < Rank(I, j)
    OBVIOUS
  <2>1. upTo(i) \in SUBSET upTo(j) /\ upTo(i) # upTo(j)
    <3>1. i \in Nat /\ j \in Nat /\ \A h \in I : h \in Nat
      OBVIOUS
    <3>2. ASSUME NEW h \in I, h <= i PROVE h <= j
      BY <3>1, <3>2
    <3>3. j \in upTo(j) /\ j \notin upTo(i)
      BY <3>1
    <3> QED  BY <3>2, <3>3
  <2>2. IsFiniteSet(upTo(j))
    BY <1>2
  <2>3. Cardinality(upTo(i)) <= Cardinality(upTo(j)) /\ Cardinality(upTo(i)) # Cardinality(upTo(j))
    BY <2>1, <2>2, FS_Subset
  <2>4. Rank(I, i) = Cardinality(upTo(i)) /\ Rank(I, j) = Cardinality(upTo(j))
    BY DEF Rank
  <2> HIDE DEF upTo
  <2> QED  BY <1>2, <2>3, <2>4
<1> DEFINE f == [i \in I |-> Rank(I, i)]
<1>5. f \in Injection(I, 1 .. n)
  <2>1. f \in [I -> 1 .. n]
    BY <1>3
  <2>2. ASSUME NEW i \in I, NEW j \in I, f[i] = f[j] PROVE i = j
    <3>1. Rank(I, i) = Rank(I, j) /\ Rank(I, i) \in Nat
      BY <1>2, <2>2
    <3>2. ~(i < j) /\ ~(j < i)
      BY <1>4, <3>1
    <3> QED  BY <3>2
  <2> QED  BY <2>1, <2>2 DEF Injection, IsInjective
<1>6. IsFiniteSet(1 .. n) /\ Cardinality(1 .. n) = n
  BY <1>1, FS_Interval
<1>7. f \in Surjection(I, 1 .. n)
  BY <1>5, <1>6, FS_Injection
<1> QED  BY <1>1, <1>3, <1>4, <1>7 DEF Surjection

\* What is left of a list when the elements of K are taken out of it.
LEMMA WithoutKeeps ==
    ASSUME NEW s \in Seq(Nat), NEW K
    PROVE  /\ Without(s, K) \in Seq(Nat)
           /\ Range(Without(s, K)) = Range(s) \ K
           /\ IsInjective(s) => IsInjective(Without(s, K))
<1> DEFINE kept   == {i \in DOMAIN s : s[i] \notin K}
           nth(j) == CHOOSE i \in kept : Cardinality({h \in kept : h <= i}) = j
           n      == Cardinality(kept)
           w      == Without(s, K)
<1>1. kept \in SUBSET Nat /\ kept \in SUBSET (1 .. Len(s)) /\ Len(s) \in Nat
  OBVIOUS
<1>2. IsFiniteSet(kept)
  BY <1>1, FS_Interval, FS_Subset
<1>3. n \in Nat
  BY <1>1, <1>2, Ranks
<1>4. w = [j \in 1 .. n |-> s[nth(j)]]
  BY DEF Without
<1>5. \A j \in 1 .. n : nth(j) \in kept /\ Rank(kept, nth(j)) = j
  BY <1>1, <1>2, Ranks DEF Rank
<1>6. \A i \in kept : Rank(kept, i) \in 1 .. n
  BY <1>1, <1>2, Ranks
<1>7. \A i, j \in kept : Rank(kept, i) = Rank(kept, j) => i = j
  <2> SUFFICES ASSUME NEW i \in kept, NEW j \in kept, i # j PROVE Rank(kept, i) # Rank(kept, j)
    OBVIOUS
  <2>1. Rank(kept, i) \in Nat /\ Rank(kept, j) \in Nat
    BY <1>3, <1>6
  <2>2. i < j \/ j < i
    BY <1>1
  <2>3. Rank(kept, i) < Rank(kept, j) \/ Rank(kept, j) < Rank(kept, i)
    BY <1>1, <1>2, <2>2, Ranks
  <2> HIDE DEF kept
  <2> QED  BY <2>1, <2>3
<1>8. kept = {i \in DOMAIN s : s[i] \notin K}
  OBVIOUS
<1> HIDE DEF kept, nth, n, w
<1>9. \A j \in 1 .. n : s[nth(j)] \in Nat
  BY <1>5, <1>8
<1>10. w \in [1 .. n -> Nat]
  BY <1>4, <1>9
<1>11. w \in Seq(Nat) /\ DOMAIN w = 1 .. n
  BY <1>3, <1>10
<1>12. Range(w) \subseteq Range(s) \ K
  BY <1>4, <1>5, <1>8 DEF Range
<1>13. Range(s) \ K \subseteq Range(w)
  <2> SUFFICES ASSUME NEW i \in DOMAIN s, s[i] \notin K PROVE s[i] \in Range(w)
    BY DEF Range
  <2>1. i \in kept /\ Rank(kept, i) \in 1 .. n
    BY <1>6, <1>8
  <2>2. nth(Rank(kept, i)) = i
    BY <1>5, <1>7, <2>1
  <2>3. w[Rank(kept, i)] = s[i]
    BY <1>4, <2>1, <2>2
  <2> QED  BY <1>11, <2>1, <2>3 DEF Range
<1>14. IsInjective(s) => IsInjective(w)
  <2> SUFFICES ASSUME IsInjective(s), NEW i \in 1 .. n, NEW j \in 1 .. n, w[i] = w[j] PROVE i = j
    BY <1>11 DEF IsInjective
  <2>1. nth(i) \in DOMAIN s /\ nth(j) \in DOMAIN s /\ s[nth(i)] = s[nth(j)]
    BY <1>4, <1>5, <1>8
  <2>2. nth(i) = nth(j)
    BY <2>1 DEF IsInjective
  <2> QED  BY <1>5, <2>2
<1> QED  BY <1>11, <1>12, <1>13, <1>14 DEF w

\* A list that holds nothing twice is as long as the set of what it holds.
LEMMA LengthOfList ==
    ASSUME NEW s \in Seq(Nat), IsInjective(s)
    PROVE  IsFiniteSet(Range(s)) /\ Cardinality(Range(s)) = Len(s)
<1>1. Len(s) \in Nat /\ DOMAIN s = 1 .. Len(s)
  OBVIOUS
<1>2. IsFiniteSet(DOMAIN s) /\ Cardinality(DOMAIN s) = Len(s)
  <2>1. IsFiniteSet(1 .. Len(s)) /\ Cardinality(1 .. Len(s)) = IF 1 > Len(s) THEN 0 ELSE Len(s) - 1 + 1
    BY <1>1, FS_Interval
  <2> QED  BY <1>1, <2>1
<1>3. s \in [DOMAIN s -> Range(s)]
  BY DEF Range
<1>4. s \in Injection(DOMAIN s, Range(s)) /\ s \in Surjection(DOMAIN s, Range(s))
  BY <1>3 DEF Range, Injection, Surjection
<1> QED  BY <1>2, <1>4, FS_Surjection

-----------------------------------------------------------------------------

\* The pseudonyms st holds for the alias a.
Same(st, a) == {k \in DOMAIN st.pseudonyms : st.pseudonyms[k].alias = a}

\* The alias a leads to the newest of its pseudonyms.
Newest(st, a) == st.forward[a] \in Same(st, a) /\ \A k \in Same(st, a) : k <= st.forward[a]

\* The list of p holds the entries of p and nothing twice.
Listed(st, p) ==
    /\ st.lru[p] \in Seq(Nat) /\ IsInjective(st.lru[p])
    /\ Range(st.lru[p]) = {k \in DOMAIN st.pseudonyms : st.pseudonyms[k].partner = p}

\* The indexes of a store that has been given the pseudonyms 1 to n, its caps apart.
Sound(st, n) ==
    /\ st = [pseudonyms |-> st.pseudonyms, forward |-> st.forward, lru |-> st.lru, total |-> st.total]
    /\ DOMAIN st.pseudonyms \subseteq 1 .. n
    /\ \A k \in DOMAIN st.pseudonyms : st.pseudonyms[k].partner \in Partner
    /\ DOMAIN st.lru = Partner /\ st.lru = [p \in Partner |-> st.lru[p]]
    /\ \A p \in Partner : Listed(st, p)
    /\ st.total = Cardinality(DOMAIN st.pseudonyms)
    /\ \A a \in DOMAIN st.forward : Newest(st, a)

\* The numbers a sound store is made of.
LEMMA SoundFacts ==
    ASSUME NEW n \in Nat, NEW st, Sound(st, n)
    PROVE  /\ IsFiniteSet(DOMAIN st.pseudonyms) /\ st.total \in Nat
           /\ \A k \in DOMAIN st.pseudonyms : k \in Nat /\ k <= n
           /\ \A p \in Partner : /\ Len(st.lru[p]) \in Nat
                                 /\ IsFiniteSet(Range(st.lru[p]))
                                 /\ Cardinality(Range(st.lru[p])) = Len(st.lru[p])
<1>1. IsFiniteSet(1 .. n)
  BY FS_Interval
<1>2. DOMAIN st.pseudonyms \in SUBSET (1 .. n)
  BY DEF Sound
<1>3. IsFiniteSet(DOMAIN st.pseudonyms)
  BY <1>1, <1>2, FS_Subset
<1>4. st.total \in Nat
  BY <1>3, FS_CardinalityType DEF Sound
<1>5. ASSUME NEW p \in Partner
      PROVE  /\ Len(st.lru[p]) \in Nat
             /\ IsFiniteSet(Range(st.lru[p])) /\ Cardinality(Range(st.lru[p])) = Len(st.lru[p])
  <2>1. st.lru[p] \in Seq(Nat) /\ IsInjective(st.lru[p])
    BY DEF Sound, Listed
  <2> QED  BY <2>1, LengthOfList
<1> QED  BY <1>2, <1>3, <1>4, <1>5

\* What is left of st when the entries K are removed from it.
Removed(st, n, K, r) ==
    /\ Sound(r, n)
    /\ DOMAIN r.pseudonyms = DOMAIN st.pseudonyms \ K
    /\ r.total = st.total - Cardinality(K)
    /\ \A p \in Partner : Range(r.lru[p]) = Range(st.lru[p]) \ K /\ Len(r.lru[p]) <= Len(st.lru[p])

\* removeLocked keeps the indexes in agreement, whatever it removes.
LEMMA RemoveSound ==
    ASSUME NEW n \in Nat, NEW st, Sound(st, n), NEW K \in SUBSET DOMAIN st.pseudonyms,
           NEW r, r = RemoveLocked(st, K)
    PROVE  Removed(st, n, K, r)
<1>1. /\ r = [pseudonyms |-> r.pseudonyms, forward |-> r.forward, lru |-> r.lru, total |-> r.total]
      /\ r.pseudonyms = Restrict(st.pseudonyms, DOMAIN st.pseudonyms \ K)
      /\ r.forward = Restrict(st.forward, {a \in DOMAIN st.forward :
                       \A k \in K : st.pseudonyms[k].alias = a => st.forward[a] # k})
      /\ r.lru = [p \in Partner |-> Without(st.lru[p], K)]
      /\ r.total = st.total - Cardinality(K)
  BY DEF RemoveLocked
<1>2. /\ DOMAIN r.pseudonyms = DOMAIN st.pseudonyms \ K
      /\ \A k \in DOMAIN r.pseudonyms : r.pseudonyms[k] = st.pseudonyms[k]
  BY <1>1 DEF Restrict
<1>3. /\ DOMAIN r.forward = {a \in DOMAIN st.forward :
                               \A k \in K : st.pseudonyms[k].alias = a => st.forward[a] # k}
      /\ \A a \in DOMAIN r.forward : r.forward[a] = st.forward[a]
  BY <1>1 DEF Restrict
<1>4. DOMAIN r.lru = Partner /\ \A p \in Partner : r.lru[p] = Without(st.lru[p], K)
  BY <1>1
<1>5. IsFiniteSet(DOMAIN st.pseudonyms) /\ st.total = Cardinality(DOMAIN st.pseudonyms)
  BY SoundFacts DEF Sound
<1>6. r.total = Cardinality(DOMAIN r.pseudonyms)
  <2>1. Cardinality(DOMAIN st.pseudonyms \ K) = Cardinality(DOMAIN st.pseudonyms)
                                                - Cardinality(DOMAIN st.pseudonyms \cap K)
    BY <1>5, FS_Difference
  <2>2. DOMAIN st.pseudonyms \cap K = K
    OBVIOUS
  <2> QED  BY <1>1, <1>2, <1>5, <2>1, <2>2
<1>7. ASSUME NEW p \in Partner
      PROVE  Listed(r, p) /\ Range(r.lru[p]) = Range(st.lru[p]) \ K /\ Len(r.lru[p]) <= Len(st.lru[p])
  <2>1. /\ st.lru[p] \in Seq(Nat) /\ IsInjective(st.lru[p])
        /\ Range(st.lru[p]) = {k \in DOMAIN st.pseudonyms : st.pseudonyms[k].partner = p}
    BY DEF Sound, Listed
  <2>2. r.lru[p] \in Seq(Nat) /\ IsInjective(r.lru[p]) /\ Range(r.lru[p]) = Range(st.lru[p]) \ K
    BY <1>4, <2>1, WithoutKeeps
  <2>3. Listed(r, p)
    BY <1>2, <2>1, <2>2 DEF Listed
  <2>4. /\ Cardinality(Range(r.lru[p])) = Len(r.lru[p])
        /\ Cardinality(Range(st.lru[p])) = Len(st.lru[p]) /\ IsFiniteSet(Range(st.lru[p]))
    BY <2>1, <2>2, LengthOfList
  <2>5. Range(r.lru[p]) \in SUBSET Range(st.lru[p])
    BY <2>2
  <2>6. Cardinality(Range(r.lru[p])) <= Cardinality(Range(st.lru[p]))
    BY <2>4, <2>5, FS_Subset
  <2> QED  BY <2>2, <2>3, <2>4, <2>6
<1>8. ASSUME NEW a \in DOMAIN r.forward PROVE Newest(r, a)
  <2>1. /\ a \in DOMAIN st.forward /\ r.forward[a] = st.forward[a]
        /\ \A k \in K : st.pseudonyms[k].alias = a => st.forward[a] # k
    BY <1>3
  <2>2. st.forward[a] \in Same(st, a) /\ \A k \in Same(st, a) : k <= st.forward[a]
    BY <2>1 DEF Sound, Newest
  <2>3. st.forward[a] \notin K
    BY <2>1, <2>2 DEF Same
  <2>4. Same(r, a) = Same(st, a) \ K
    BY <1>2 DEF Same
  <2> QED  BY <2>1, <2>2, <2>3, <2>4 DEF Newest
<1>9. DOMAIN r.pseudonyms \subseteq 1 .. n /\ \A k \in DOMAIN r.pseudonyms : r.pseudonyms[k].partner \in Partner
  BY <1>2 DEF Sound
<1>10. Sound(r, n)
  BY <1>1, <1>4, <1>6, <1>7, <1>8, <1>9 DEF Sound
<1> QED  BY <1>1, <1>2, <1>7, <1>10 DEF Removed

\* touchLocked moves an entry to the end of its list.
LEMMA TouchSound ==
    ASSUME NEW n \in Nat, NEW st, Sound(st, n), NEW k \in DOMAIN st.pseudonyms,
           NEW r, r = Touched(st, k)
    PROVE  /\ Sound(r, n)
           /\ r.pseudonyms = st.pseudonyms /\ r.total = st.total
           /\ \A p \in Partner : Range(r.lru[p]) = Range(st.lru[p]) /\ Len(r.lru[p]) = Len(st.lru[p])
<1> DEFINE c == Without(st.lru[st.pseudonyms[k].partner], {k})
<1>1. PICK q : q = st.pseudonyms[k].partner /\ q \in Partner
  BY DEF Sound
<1>2. /\ st.lru[q] \in Seq(Nat) /\ IsInjective(st.lru[q]) /\ k \in Range(st.lru[q])
      /\ Range(st.lru[q]) = {x \in DOMAIN st.pseudonyms : st.pseudonyms[x].partner = q}
  BY <1>1 DEF Sound, Listed
<1>3. c \in Seq(Nat) /\ IsInjective(c) /\ Range(c) = Range(st.lru[q]) \ {k}
  BY <1>1, <1>2, WithoutKeeps
<1>4. st.lru = [p \in Partner |-> st.lru[p]]
  BY DEF Sound
<1>5. /\ r = [pseudonyms |-> r.pseudonyms, forward |-> r.forward, lru |-> r.lru, total |-> r.total]
      /\ r.pseudonyms = st.pseudonyms /\ r.forward = st.forward /\ r.total = st.total
      /\ r.lru = [st.lru EXCEPT ![q] = Append(c, k)]
  <2>1. st = [pseudonyms |-> st.pseudonyms, forward |-> st.forward, lru |-> st.lru, total |-> st.total]
    BY DEF Sound
  <2>2. r = [st EXCEPT !.lru[q] = Append(Without(@, {k}), k)]
    BY <1>1 DEF Touched
  <2>3. r = [st EXCEPT !.lru = [st.lru EXCEPT ![q] = Append(c, k)]]
    BY <1>1, <2>2
  <2> HIDE DEF c
  <2> QED  BY <2>1, <2>3
<1> HIDE DEF c
<1>6. /\ DOMAIN r.lru = Partner /\ r.lru[q] = Append(c, k)
      /\ \A p \in Partner \ {q} : r.lru[p] = st.lru[p]
  BY <1>1, <1>4, <1>5
<1>7. k \in Nat /\ k \notin Range(c)
  BY <1>3, SoundFacts
<1>8. /\ Append(c, k) \in Seq(Nat) /\ IsInjective(Append(c, k))
      /\ Range(Append(c, k)) = Range(st.lru[q])
  <2>1. Append(c, k) \in Seq(Nat) /\ Len(c) \in Nat /\ DOMAIN c = 1 .. Len(c)
    BY <1>3, <1>7
  <2>2. /\ DOMAIN Append(c, k) = 1 .. Len(c) + 1 /\ Append(c, k)[Len(c) + 1] = k
        /\ \A i \in 1 .. Len(c) : Append(c, k)[i] = c[i]
    BY <1>3, <1>7, <2>1
  <2>3. Range(Append(c, k)) = Range(c) \cup {k}
    BY <2>1, <2>2 DEF Range
  <2>4. IsInjective(Append(c, k))
    <3> SUFFICES ASSUME NEW i \in 1 .. Len(c) + 1, NEW j \in 1 .. Len(c) + 1,
                        Append(c, k)[i] = Append(c, k)[j]
                 PROVE  i = j
      BY <2>2 DEF IsInjective
    <3>1. \A h \in 1 .. Len(c) : c[h] # k
      BY <1>7, <2>1 DEF Range
    <3> QED  BY <1>3, <2>1, <2>2, <3>1 DEF IsInjective
  <2> QED  BY <1>2, <1>3, <2>1, <2>3, <2>4
<1>9. ASSUME NEW p \in Partner
      PROVE  Listed(r, p) /\ Range(r.lru[p]) = Range(st.lru[p]) /\ Len(r.lru[p]) = Len(st.lru[p])
  <2>1. Listed(st, p)
    BY DEF Sound
  <2>2. CASE p # q
    BY <1>5, <1>6, <2>1, <2>2 DEF Listed
  <2>3. CASE p = q
    <3>1. Listed(r, p) /\ Range(r.lru[p]) = Range(st.lru[p])
      BY <1>2, <1>5, <1>6, <1>8, <2>3 DEF Listed
    <3>2. Len(r.lru[p]) = Len(st.lru[p])
      BY <2>1, <3>1, LengthOfList DEF Listed
    <3> QED  BY <3>1, <3>2
  <2> QED  BY <2>2, <2>3
<1>10. \A a \in DOMAIN r.forward : Newest(r, a)
  BY <1>5 DEF Sound, Newest, Same
<1>11. r.lru = [p \in Partner |-> r.lru[p]]
  BY <1>5, <1>4
<1>12. Sound(r, n)
  BY <1>5, <1>6, <1>9, <1>10, <1>11 DEF Sound
<1> QED  BY <1>5, <1>9, <1>12

\* The store insertLocked starts its evictions from.
Added(st, k, e) ==
    [pseudonyms |-> [x \in DOMAIN st.pseudonyms \cup {k} |-> IF x = k THEN e ELSE st.pseudonyms[x]],
     forward    |-> [a \in DOMAIN st.forward \cup {e.alias} |-> IF a = e.alias THEN k ELSE st.forward[a]],
     lru        |-> [st.lru EXCEPT ![e.partner] = Append(@, k)],
     total      |-> st.total + 1]

\* r is st with the entry e stored under the pseudonym n + 1.
Stored(st, n, e, r) ==
    /\ Sound(r, n + 1) /\ r.total = st.total + 1
    /\ Len(r.lru[e.partner]) = Len(st.lru[e.partner]) + 1
    /\ \A p \in Partner \ {e.partner} : r.lru[p] = st.lru[p]

\* A fresh pseudonym is the newest of its alias and the youngest of its partner.
LEMMA AddSound ==
    ASSUME NEW n \in Nat, NEW st, Sound(st, n), NEW e, e.partner \in Partner,
           NEW r, r = Added(st, n + 1, e)
    PROVE  Stored(st, n, e, r)
<1>1. PICK q, k : q = e.partner /\ q \in Partner /\ k = n + 1 /\ k \in Nat
  OBVIOUS
<1>2. st.lru = [p \in Partner |-> st.lru[p]] /\ DOMAIN st.lru = Partner
  BY DEF Sound
<1>3. /\ r = [pseudonyms |-> r.pseudonyms, forward |-> r.forward, lru |-> r.lru, total |-> r.total]
      /\ r.pseudonyms = [x \in DOMAIN st.pseudonyms \cup {k} |-> IF x = k THEN e ELSE st.pseudonyms[x]]
      /\ r.forward = [a \in DOMAIN st.forward \cup {e.alias} |-> IF a = e.alias THEN k ELSE st.forward[a]]
      /\ r.lru = [st.lru EXCEPT ![q] = Append(st.lru[q], k)]
      /\ r.total = st.total + 1
  BY <1>1 DEF Added
<1>4. /\ DOMAIN r.lru = Partner /\ r.lru[q] = Append(st.lru[q], k)
      /\ \A p \in Partner \ {q} : r.lru[p] = st.lru[p]
  BY <1>1, <1>2, <1>3
<1>5. /\ IsFiniteSet(DOMAIN st.pseudonyms) /\ k \notin DOMAIN st.pseudonyms
      /\ \A x \in DOMAIN st.pseudonyms : x \in Nat /\ x <= n
  BY <1>1, SoundFacts
<1>6. /\ DOMAIN r.pseudonyms = DOMAIN st.pseudonyms \cup {k} /\ r.pseudonyms[k] = e
      /\ \A x \in DOMAIN st.pseudonyms : r.pseudonyms[x] = st.pseudonyms[x]
  BY <1>3, <1>5
<1>7. r.total = Cardinality(DOMAIN r.pseudonyms)
  <2>1. Cardinality(DOMAIN st.pseudonyms \cup {k}) = Cardinality(DOMAIN st.pseudonyms) + 1
    BY <1>5, FS_AddElement
  <2> QED  BY <1>3, <1>6, <2>1 DEF Sound
<1>8. Listed(r, q) /\ Len(r.lru[q]) = Len(st.lru[q]) + 1
  <2> DEFINE c == st.lru[q]
  <2>1. /\ c \in Seq(Nat) /\ IsInjective(c)
        /\ Range(c) = {x \in DOMAIN st.pseudonyms : st.pseudonyms[x].partner = q}
    BY <1>1 DEF Sound, Listed
  <2>2. k \notin Range(c)
    BY <1>5, <2>1
  <2> HIDE DEF c
  <2>3. Append(c, k) \in Seq(Nat) /\ Len(c) \in Nat /\ DOMAIN c = 1 .. Len(c) /\ Len(Append(c, k)) = Len(c) + 1
    BY <1>1, <2>1
  <2>4. /\ DOMAIN Append(c, k) = 1 .. Len(c) + 1 /\ Append(c, k)[Len(c) + 1] = k
        /\ \A i \in 1 .. Len(c) : Append(c, k)[i] = c[i]
    BY <1>1, <2>1, <2>3
  <2>5. Range(Append(c, k)) = Range(c) \cup {k}
    BY <2>3, <2>4 DEF Range
  <2>6. IsInjective(Append(c, k))
    <3> SUFFICES ASSUME NEW i \in 1 .. Len(c) + 1, NEW j \in 1 .. Len(c) + 1,
                        Append(c, k)[i] = Append(c, k)[j]
                 PROVE  i = j
      BY <2>4 DEF IsInjective
    <3>1. \A h \in 1 .. Len(c) : c[h] # k
      BY <2>2, <2>3 DEF Range
    <3> QED  BY <2>1, <2>3, <2>4, <3>1 DEF IsInjective
  <2>7. Range(c) \cup {k} = {x \in DOMAIN r.pseudonyms : r.pseudonyms[x].partner = q}
    BY <1>1, <1>6, <2>1
  <2>8. r.lru[q] = Append(c, k)
    BY <1>4 DEF c
  <2> QED  BY <2>3, <2>5, <2>6, <2>7, <2>8 DEF Listed, c
<1>9. ASSUME NEW p \in Partner PROVE Listed(r, p)
  <2>1. CASE p = q
    BY <1>8, <2>1
  <2>2. CASE p # q
    <3>1. Listed(st, p)
      BY DEF Sound
    <3>2. {x \in DOMAIN r.pseudonyms : r.pseudonyms[x].partner = p} =
          {x \in DOMAIN st.pseudonyms : st.pseudonyms[x].partner = p}
      BY <1>1, <1>6, <2>2
    <3> QED  BY <1>4, <2>2, <3>1, <3>2 DEF Listed
  <2> QED  BY <2>1, <2>2
<1>10. ASSUME NEW a \in DOMAIN r.forward PROVE Newest(r, a)
  <2>1. CASE a = e.alias
    <3>1. r.forward[a] = k
      BY <1>3, <2>1
    <3>2. k \in Same(r, a)
      BY <1>6, <2>1 DEF Same
    <3>3. \A x \in Same(r, a) : x <= k
      BY <1>1, <1>5, <1>6 DEF Same
    <3> QED  BY <3>1, <3>2, <3>3 DEF Newest
  <2>2. CASE a # e.alias
    <3>1. a \in DOMAIN st.forward /\ r.forward[a] = st.forward[a]
      BY <1>3, <2>2
    <3>2. Same(r, a) = Same(st, a)
      BY <1>5, <1>6, <2>2 DEF Same
    <3>3. Newest(st, a)
      BY <3>1 DEF Sound
    <3> QED  BY <3>1, <3>2, <3>3 DEF Newest
  <2> QED  BY <2>1, <2>2
<1>11. r.lru = [p \in Partner |-> r.lru[p]]
  BY <1>2, <1>3
<1>12. DOMAIN r.pseudonyms \subseteq 1 .. n + 1
  BY <1>1, <1>5, <1>6 DEF Sound
<1>13. \A x \in DOMAIN r.pseudonyms : r.pseudonyms[x].partner \in Partner
  BY <1>1, <1>6 DEF Sound
<1>14. Sound(r, n + 1)
  BY <1>3, <1>4, <1>7, <1>9, <1>10, <1>11, <1>12, <1>13 DEF Sound
<1> QED  BY <1>1, <1>3, <1>4, <1>8, <1>14 DEF Stored

LEMMA LimitNat == limit \in [Partner -> Nat]
  BY LimitAssumption DEF limit

LEMMA MaxEntriesNat == maxEntries \in Nat
<1> DEFINE slots(p) == {p} \X (1 .. limit[p])
           family   == {slots(p) : p \in Partner}
<1>1. \A p \in Partner : IsFiniteSet(slots(p))
  <2> SUFFICES ASSUME NEW p \in Partner PROVE IsFiniteSet(slots(p))
    OBVIOUS
  <2>1. IsFiniteSet({p}) /\ 1 \in Int /\ limit[p] \in Int
    BY LimitNat, FS_Singleton
  <2>2. IsFiniteSet(1 .. limit[p])
    BY <2>1, FS_Interval
  <2> QED  BY <2>1, <2>2, FS_Product
<1>2. IsFiniteSet(family)
  <2> DEFINE f == [p \in Partner |-> slots(p)]
  <2>1. f \in Surjection(Partner, family)
    BY DEF Surjection
  <2> HIDE DEF f, family
  <2> QED  BY <2>1, PartnerAssumption, FS_Surjection
<1>3. IsFiniteSet(UNION family)
  BY <1>1, <1>2, FS_UNION
<1>4. Cardinality(UNION family) \in Nat
  BY <1>3, FS_CardinalityType
<1> QED  BY <1>4, LimitAssumption DEF maxEntries, MaxPartnerEntries

\* evictPartnerLocked, of a partner that is at most one entry over its cap, takes
\* the excess and nothing of another partner.
LEMMA PartnerEvicted ==
    ASSUME NEW n \in Nat, NEW st, Sound(st, n), NEW p \in Partner,
           Len(st.lru[p]) > 0, limit[p] > 0 => Len(st.lru[p]) <= limit[p] + 1,
           NEW r, r = EvictPartner(st, p)
    PROVE  /\ Sound(r, n) /\ r.total \in {st.total, st.total - 1}
           /\ Len(r.lru[p]) > 0 /\ Len(r.lru[p]) <= Len(st.lru[p])
           /\ limit[p] > 0 => Len(r.lru[p]) <= limit[p]
           /\ \A q \in Partner \ {p} : /\ Range(r.lru[q]) = Range(st.lru[q])
                                       /\ Len(r.lru[q]) = Len(st.lru[q])
<1> DEFINE c == st.lru[p]
           K == {c[i] : i \in 1 .. Len(c) - limit[p]}
<1>1. limit[p] \in Nat
  BY LimitNat
<1>2. Len(c) \in Nat /\ IsFiniteSet(Range(c)) /\ Cardinality(Range(c)) = Len(c)
  BY SoundFacts
<1>3. CASE limit[p] = 0
  <2>1. r = st
    BY <1>3 DEF EvictPartner
  <2> QED  BY <1>3, <2>1
<1>4. CASE limit[p] # 0
  <2>1. r = RemoveLocked(st, K)
    BY <1>4 DEF EvictPartner
  <2>2. /\ c \in Seq(Nat) /\ IsInjective(c)
        /\ Range(c) = {k \in DOMAIN st.pseudonyms : st.pseudonyms[k].partner = p}
    BY DEF Sound, Listed
  <2>3. PICK m \in Nat : m = limit[p] /\ m > 0
    BY <1>1, <1>4
  <2>4. (Len(c) <= m /\ K = {}) \/ (Len(c) = m + 1 /\ K = {c[1]})
    <3>1. Len(c) <= m + 1
      BY <2>3
    <3>2. CASE Len(c) <= m
      <4>1. 1 .. Len(c) - m = {}
        BY <1>2, <3>2
      <4> QED  BY <2>3, <3>2, <4>1
    <3>3. CASE Len(c) = m + 1
      <4>1. 1 .. Len(c) - m = {1}
        BY <3>3
      <4> QED  BY <2>3, <3>3, <4>1
    <3>4. Len(c) <= m \/ Len(c) = m + 1
      BY <1>2, <3>1
    <3> QED  BY <3>2, <3>3, <3>4
  <2>5. K \subseteq Range(c)
    <3>1. Len(c) >= 1 => c[1] \in Range(c)
      BY <1>2, <2>2 DEF Range
    <3> QED  BY <2>3, <2>4, <3>1
  <2>6. K \in SUBSET DOMAIN st.pseudonyms
    BY <2>2, <2>5
  <2>7. Cardinality(K) \in {0, 1} /\ Len(c) - Cardinality(K) > 0 /\ Len(c) - Cardinality(K) <= m
    <3>1. CASE Len(c) <= m /\ K = {}
      <4>1. Cardinality(K) = 0
        BY <3>1, FS_EmptySet
      <4>2. Len(c) > 0
        OBVIOUS
      <4> HIDE DEF c, K
      <4> QED  BY <1>2, <3>1, <4>1, <4>2
    <3>2. CASE Len(c) = m + 1 /\ K = {c[1]}
      <4>1. Cardinality(K) = 1
        BY <3>2, FS_Singleton
      <4> HIDE DEF c, K
      <4> QED  BY <1>2, <2>3, <3>2, <4>1
    <3> QED  BY <2>4, <3>1, <3>2
  <2> HIDE DEF c, K
  <2>8. /\ Sound(r, n) /\ r.total = st.total - Cardinality(K)
        /\ \A q \in Partner : Range(r.lru[q]) = Range(st.lru[q]) \ K /\ Len(r.lru[q]) <= Len(st.lru[q])
    <3>1. Removed(st, n, K, r)
      BY <2>1, <2>6, RemoveSound
    <3> QED  BY <3>1 DEF Removed
  <2>9. Len(r.lru[p]) = Len(c) - Cardinality(K)
    <3>1. Range(r.lru[p]) = Range(c) \ K
      BY <2>8 DEF c
    <3>2. Range(c) \cap K = K
      BY <2>5
    <3>3. Cardinality(Range(c) \ K) = Cardinality(Range(c)) - Cardinality(Range(c) \cap K)
      BY <1>2, FS_Difference
    <3> QED  BY <1>2, <2>8, <3>1, <3>2, <3>3, SoundFacts
  <2>10. ASSUME NEW q \in Partner \ {p}
         PROVE  Range(r.lru[q]) = Range(st.lru[q]) /\ Len(r.lru[q]) = Len(st.lru[q])
    <3>1. Range(st.lru[q]) = {k \in DOMAIN st.pseudonyms : st.pseudonyms[k].partner = q}
      BY DEF Sound, Listed
    <3>2. Range(st.lru[q]) \ K = Range(st.lru[q])
      BY <2>2, <2>5, <3>1
    <3>3. Range(r.lru[q]) = Range(st.lru[q])
      BY <2>8, <3>2
    <3> QED  BY <2>8, <3>3, SoundFacts
  <2>11. st.total \in Nat
    BY SoundFacts
  <2>12. r.total \in {st.total, st.total - 1}
    BY <2>7, <2>8, <2>11
  <2> QED  BY <2>3, <2>7, <2>8, <2>9, <2>10, <2>12
<1> QED  BY <1>3, <1>4

\* evictGlobalLocked, of a store that holds something, takes at most one entry, and that
\* of a partner that none exceeds.
LEMMA GlobalEvicted ==
    ASSUME NEW n \in Nat, NEW st, Sound(st, n), NEW x \in Partner, Len(st.lru[x]) > 0,
           NEW r \in EvictGlobal(st)
    PROVE  /\ Sound(r, n) /\ \A q \in Partner : Len(r.lru[q]) <= Len(st.lru[q])
           /\ \/ r = st /\ (maxEntries = 0 \/ st.total <= maxEntries)
              \/ /\ r.total = st.total - 1 /\ ~(st.total <= maxEntries)
                 /\ \E p \in Partner :
                      /\ \A q \in Partner : Len(st.lru[q]) <= Len(st.lru[p])
                      /\ \A q \in Partner \ {p} : Range(r.lru[q]) = Range(st.lru[q])
<1>1. \A q \in Partner : Len(st.lru[q]) \in Nat
  BY SoundFacts
<1>2. CASE maxEntries = 0 \/ st.total <= maxEntries
  <2>1. r = st
    BY <1>2 DEF EvictGlobal
  <2> QED  BY <1>1, <1>2, <2>1
<1>3. CASE ~(maxEntries = 0 \/ st.total <= maxEntries)
  <2>1. PICK p \in Partner : /\ \A q \in Partner : Len(st.lru[q]) <= Len(st.lru[p])
                             /\ r = RemoveLocked(st, {Head(st.lru[p])})
    BY <1>3 DEF EvictGlobal
  <2>2. Len(st.lru[p]) > 0
    BY <1>1, <2>1
  <2>3. /\ st.lru[p] \in Seq(Nat)
        /\ Range(st.lru[p]) = {k \in DOMAIN st.pseudonyms : st.pseudonyms[k].partner = p}
    BY DEF Sound, Listed
  <2>4. Head(st.lru[p]) = st.lru[p][1] /\ 1 \in DOMAIN st.lru[p]
    BY <1>1, <2>2, <2>3
  <2>5. PICK k : k = Head(st.lru[p]) /\ k \in Range(st.lru[p])
    BY <2>4 DEF Range
  <2>6. /\ Sound(r, n) /\ r.total = st.total - Cardinality({k})
        /\ \A q \in Partner : Range(r.lru[q]) = Range(st.lru[q]) \ {k} /\ Len(r.lru[q]) <= Len(st.lru[q])
    <3>1. PICK K : K = {k} /\ K \in SUBSET DOMAIN st.pseudonyms /\ r = RemoveLocked(st, K)
      BY <2>1, <2>3, <2>5
    <3>2. Removed(st, n, K, r)
      BY <3>1, RemoveSound
    <3> QED  BY <3>1, <3>2 DEF Removed
  <2>7. r.total = st.total - 1
    BY <2>6, FS_Singleton
  <2>8. ASSUME NEW q \in Partner \ {p} PROVE Range(r.lru[q]) = Range(st.lru[q])
    <3>1. Range(st.lru[q]) = {y \in DOMAIN st.pseudonyms : st.pseudonyms[y].partner = q}
      BY DEF Sound, Listed
    <3> QED  BY <2>3, <2>5, <2>6, <3>1
  <2> QED  BY <1>3, <2>1, <2>6, <2>7, <2>8
<1> QED  BY <1>2, <1>3

-----------------------------------------------------------------------------

\* The caps: no partner is over its own, the store is not over the one of all.
Capped(st) == /\ \A p \in Partner : limit[p] > 0 => Len(st.lru[p]) <= limit[p]
              /\ maxEntries > 0 => st.total <= maxEntries

Asking == [partner : Partner, alias : Alias]

StoreInv ==
    /\ allocated \in Nat /\ masking \in [Masker -> Asking \cup {NoMask}]
    /\ Sound(store, allocated) /\ Capped(store)

\* What is at most a length is at most anything that length is at most.
LEMMA AtMost ==
    ASSUME NEW a \in Nat, NEW b \in Nat, NEW c \in Nat, a <= b, b <= c
    PROVE  c >= a
OBVIOUS

\* insertLocked: the caps hold again, and what another partner loses it loses to one that
\* is no larger.
LEMMA InsertKept ==
    ASSUME NEW n \in Nat, NEW st, Sound(st, n), Capped(st), NEW e, e.partner \in Partner,
           NEW r \in InsertLocked(st, n + 1, e)
    PROVE  /\ Sound(r, n + 1) /\ Capped(r)
           /\ \A q \in Partner \ {e.partner} :
                /\ Len(r.lru[q]) <= Len(st.lru[q])
                /\ (\E k \in Range(st.lru[q]) : k \notin DOMAIN r.pseudonyms)
                     => Len(st.lru[q]) >= Len(r.lru[e.partner])
<1>1. PICK p : p = e.partner /\ p \in Partner
  OBVIOUS
<1>2. PICK s1, s2 : /\ s1 = Added(st, n + 1, e) /\ s2 = EvictPartner(s1, p)
                    /\ r \in EvictGlobal(s2)
  BY <1>1 DEF InsertLocked, Added
<1>3. /\ Sound(s1, n + 1) /\ s1.total = st.total + 1 /\ Len(s1.lru[p]) = Len(st.lru[p]) + 1
      /\ \A q \in Partner \ {p} : s1.lru[q] = st.lru[q]
  <2>1. Stored(st, n, e, s1)
    BY <1>2, AddSound
  <2> QED  BY <1>1, <2>1 DEF Stored
<1>4. /\ n + 1 \in Nat /\ st.total \in Nat /\ limit \in [Partner -> Nat]
      /\ \A q \in Partner : Len(st.lru[q]) \in Nat
  BY SoundFacts, LimitNat
<1>5. Len(s1.lru[p]) > 0 /\ (limit[p] > 0 => Len(s1.lru[p]) <= limit[p] + 1)
  <2>1. limit[p] > 0 => Len(st.lru[p]) <= limit[p]
    BY <1>1 DEF Capped
  <2>2. limit[p] \in Nat /\ Len(st.lru[p]) \in Nat
    BY <1>1, <1>4
  <2> QED  BY <1>3, <2>1, <2>2
<1>6. /\ Sound(s2, n + 1) /\ s2.total \in {s1.total, s1.total - 1}
      /\ Len(s2.lru[p]) > 0 /\ (limit[p] > 0 => Len(s2.lru[p]) <= limit[p])
      /\ \A q \in Partner \ {p} : Range(s2.lru[q]) = Range(s1.lru[q]) /\ Len(s2.lru[q]) = Len(s1.lru[q])
  BY <1>1, <1>2, <1>3, <1>4, <1>5, PartnerEvicted
<1>7. /\ Sound(r, n + 1) /\ \A q \in Partner : Len(r.lru[q]) <= Len(s2.lru[q])
      /\ \/ r = s2 /\ (maxEntries = 0 \/ s2.total <= maxEntries)
         \/ /\ r.total = s2.total - 1 /\ ~(s2.total <= maxEntries)
            /\ \E x \in Partner :
                 /\ \A q \in Partner : Len(s2.lru[q]) <= Len(s2.lru[x])
                 /\ \A q \in Partner \ {x} : Range(r.lru[q]) = Range(s2.lru[q])
  <2>1. PICK m \in Nat : m = n + 1
    BY <1>4
  <2>2. Sound(s2, m) /\ p \in Partner /\ Len(s2.lru[p]) > 0 /\ r \in EvictGlobal(s2)
    BY <1>1, <1>2, <1>6, <2>1
  <2> QED  BY <2>1, <2>2, GlobalEvicted
<1>8. \A q \in Partner : Len(s2.lru[q]) \in Nat /\ Len(r.lru[q]) \in Nat
  BY <1>4, <1>6, <1>7, SoundFacts
<1>9. ASSUME NEW q \in Partner, limit[q] > 0 PROVE Len(r.lru[q]) <= limit[q]
  <2>1. limit[q] \in Nat /\ Len(r.lru[q]) <= Len(s2.lru[q])
    BY <1>4, <1>7
  <2>2. Len(s2.lru[q]) <= limit[q]
    BY <1>3, <1>6, <1>9 DEF Capped
  <2> QED  BY <1>8, <2>1, <2>2
<1>10. ASSUME maxEntries > 0 PROVE r.total <= maxEntries
  <2>1. maxEntries # 0
    BY <1>10
  <2>2. st.total <= maxEntries
    BY <1>10 DEF Capped
  <2>3. s2.total \in {st.total, st.total + 1}
    BY <1>3, <1>4, <1>6
  <2>4. CASE r = s2
    BY <1>7, <2>1, <2>4, <2>2, <2>3, <1>4
  <2>5. CASE r.total = s2.total - 1 /\ ~(s2.total <= maxEntries)
    <3>1. s2.total = st.total + 1
      BY <2>2, <2>3, <2>5
    <3>2. r.total = st.total
      BY <1>4, <2>5, <3>1
    <3> QED  BY <2>2, <3>2
  <2> QED  BY <1>7, <2>4, <2>5
<1>11. ASSUME NEW q \in Partner \ {p}, NEW k \in Range(st.lru[q]), k \notin DOMAIN r.pseudonyms
       PROVE  Len(st.lru[q]) >= Len(r.lru[p])
  <2>1. k \in Range(s2.lru[q]) /\ Len(s2.lru[q]) = Len(st.lru[q])
    BY <1>3, <1>6
  <2>2. Range(r.lru[q]) \subseteq DOMAIN r.pseudonyms /\ Range(s2.lru[q]) \subseteq DOMAIN s2.pseudonyms
    BY <1>6, <1>7 DEF Sound, Listed
  <2>3. k \notin Range(r.lru[q]) /\ r # s2
    BY <1>11, <2>1, <2>2
  <2>4. PICK x \in Partner : /\ \A y \in Partner : Len(s2.lru[y]) <= Len(s2.lru[x])
                             /\ \A y \in Partner \ {x} : Range(r.lru[y]) = Range(s2.lru[y])
    BY <1>7, <2>3
  <2>5. x = q
    BY <2>1, <2>3, <2>4
  <2>6. Len(s2.lru[p]) <= Len(st.lru[q]) /\ Len(r.lru[p]) <= Len(s2.lru[p])
    BY <1>1, <1>7, <2>1, <2>4, <2>5
  <2>7. Len(st.lru[q]) \in Nat /\ Len(s2.lru[p]) \in Nat /\ Len(r.lru[p]) \in Nat
    BY <1>1, <1>4, <1>8
  <2> QED  BY <2>6, <2>7, AtMost
<1>12. \A q \in Partner \ {p} : Len(r.lru[q]) <= Len(st.lru[q])
  BY <1>3, <1>6, <1>7
<1>13. Capped(r)
  BY <1>9, <1>10 DEF Capped
<1> QED  BY <1>1, <1>7, <1>11, <1>12, <1>13

\* What a removal leaves stays within the caps.
LEMMA RemoveCapped ==
    ASSUME NEW n \in Nat, NEW st, Sound(st, n), Capped(st), NEW K \in SUBSET DOMAIN st.pseudonyms,
           NEW r, r = RemoveLocked(st, K)
    PROVE  Sound(r, n) /\ Capped(r) /\ \A p \in Partner : Len(r.lru[p]) <= Len(st.lru[p])
<1>1. /\ Sound(r, n) /\ DOMAIN r.pseudonyms = DOMAIN st.pseudonyms \ K
      /\ \A p \in Partner : Len(r.lru[p]) <= Len(st.lru[p])
  <2>1. Removed(st, n, K, r)
    BY RemoveSound
  <2> QED  BY <2>1 DEF Removed
<1>2. \A p \in Partner : Len(r.lru[p]) \in Nat /\ Len(st.lru[p]) \in Nat /\ limit[p] \in Nat
  BY <1>1, SoundFacts, LimitNat
<1>3. \A p \in Partner : limit[p] > 0 => Len(r.lru[p]) <= limit[p]
  BY <1>1, <1>2 DEF Capped
<1>4. maxEntries > 0 => r.total <= maxEntries
  <2>1. r.total <= st.total /\ r.total \in Nat /\ st.total \in Nat
    <3>1. IsFiniteSet(DOMAIN st.pseudonyms) /\ DOMAIN r.pseudonyms \in SUBSET DOMAIN st.pseudonyms
      BY <1>1, SoundFacts
    <3>2. Cardinality(DOMAIN r.pseudonyms) <= Cardinality(DOMAIN st.pseudonyms)
      BY <3>1, FS_Subset
    <3> QED  BY <1>1, <3>2, SoundFacts DEF Sound
  <2> QED  BY <2>1, MaxEntriesNat DEF Capped
<1> QED  BY <1>1, <1>3, <1>4 DEF Capped

\* A step that stores nothing: no list grows.
Shrinks == \A p \in Partner : Len(store'.lru[p]) <= Len(store.lru[p])

\* What NoisyPays says of a step.
Pays ==
    \A p, q \in Partner :
      (/\ p # q /\ Len(store'.lru[p]) > Len(store.lru[p])
       /\ \E k \in DOMAIN store.pseudonyms : InBucket(q, k) /\ k \notin DOMAIN store'.pseudonyms)
      => Len(store.lru[q]) >= Len(store'.lru[p])

LEMMA ShrinksPays ==
    ASSUME StoreInv, StoreInv', Shrinks
    PROVE  Pays
<1>1. \A p \in Partner : Len(store.lru[p]) \in Nat /\ Len(store'.lru[p]) \in Nat
  BY SoundFacts DEF StoreInv
<1> QED  BY <1>1 DEF Shrinks, Pays

LEMMA StoreStart == PsInit => StoreInv
<1> SUFFICES ASSUME PsInit PROVE StoreInv
  OBVIOUS
<1>1. /\ store = [pseudonyms |-> <<>>, forward |-> <<>>, lru |-> [p \in Partner |-> <<>>], total |-> 0]
      /\ allocated = 0 /\ masking = [m \in Masker |-> NoMask]
  BY DEF PsInit
<1>2. /\ store.pseudonyms = << >> /\ store.forward = << >> /\ store.total = 0
      /\ store.lru = [p \in Partner |-> << >>]
      /\ store = [pseudonyms |-> store.pseudonyms, forward |-> store.forward, lru |-> store.lru,
                  total |-> store.total]
  BY <1>1
<1>3. DOMAIN store.pseudonyms = {} /\ DOMAIN store.forward = {}
  BY <1>2
<1>4. \A p \in Partner : store.lru[p] = << >> /\ Len(store.lru[p]) = 0
  BY <1>2
<1>5. ASSUME NEW p \in Partner PROVE Listed(store, p)
  <2>1. << >> \in Seq(Nat) /\ IsInjective(<< >>) /\ Range(<< >>) = {}
    BY DEF IsInjective, Range
  <2> QED  BY <1>3, <1>4, <2>1 DEF Listed
<1>6. Sound(store, allocated)
  BY <1>1, <1>2, <1>3, <1>5, FS_EmptySet DEF Sound
<1>7. Capped(store)
  BY <1>2, <1>4, LimitNat, MaxEntriesNat DEF Capped
<1> QED  BY <1>1, <1>6, <1>7 DEF StoreInv

\* A step that removes entries or touches one.
LEMMA QuietKept ==
    ASSUME StoreInv, UNCHANGED allocated, masking' \in [Masker -> Asking \cup {NoMask}],
           \/ \E K \in SUBSET DOMAIN store.pseudonyms : store' = RemoveLocked(store, K)
           \/ \E k \in DOMAIN store.pseudonyms : store' = Touched(store, k)
           \/ store' = store
    PROVE  StoreInv' /\ Shrinks
<1>1. PICK n, st : n \in Nat /\ n = allocated /\ st = store /\ n = allocated' /\ Sound(st, n) /\ Capped(st)
  BY DEF StoreInv
<1>2. PICK r : r = store'
  OBVIOUS
<1>3. \A p \in Partner : Len(st.lru[p]) \in Nat
  BY <1>1, SoundFacts
<1>4. Sound(r, n) /\ Capped(r) /\ \A p \in Partner : Len(r.lru[p]) <= Len(st.lru[p])
  <2>1. CASE \E K \in SUBSET DOMAIN st.pseudonyms : r = RemoveLocked(st, K)
    BY <1>1, <2>1, RemoveCapped
  <2>2. CASE \E k \in DOMAIN st.pseudonyms : r = Touched(st, k)
    <3>1. PICK k \in DOMAIN st.pseudonyms : r = Touched(st, k)
      BY <2>2
    <3>2. /\ Sound(r, n) /\ r.total = st.total
          /\ \A p \in Partner : Len(r.lru[p]) = Len(st.lru[p])
      BY <1>1, <3>1, TouchSound
    <3> QED  BY <1>1, <1>3, <3>2 DEF Capped
  <2>3. CASE r = st
    BY <1>1, <1>3, <2>3
  <2> QED  BY <1>1, <1>2, <2>1, <2>2, <2>3
<1>5. StoreInv'
  BY <1>1, <1>2, <1>4 DEF StoreInv
<1> QED  BY <1>1, <1>2, <1>4, <1>5 DEF Shrinks

LEMMA PutKept ==
    ASSUME StoreInv, NEW m \in Masker, PutPseudonym(m)
    PROVE  StoreInv' /\ Pays
<1>1. PICK n, st : n \in Nat /\ n = allocated /\ st = store /\ Sound(st, n) /\ Capped(st)
  BY DEF StoreInv
<1>2. PICK e, r : /\ e = [alias |-> masking[m].alias, partner |-> masking[m].partner,
                         expiresAt |-> now + Ttl]
                  /\ r = store' /\ r \in InsertLocked(st, n + 1, e)
  BY <1>1 DEF PutPseudonym
<1>3. masking[m] \in Asking
  BY DEF StoreInv, PutPseudonym
<1>4. e.partner \in Partner
  BY <1>2, <1>3 DEF Asking
<1>5. /\ Sound(r, n + 1) /\ Capped(r)
      /\ \A q \in Partner \ {e.partner} :
           /\ Len(r.lru[q]) <= Len(st.lru[q])
           /\ (\E k \in Range(st.lru[q]) : k \notin DOMAIN r.pseudonyms)
                => Len(st.lru[q]) >= Len(r.lru[e.partner])
  BY <1>1, <1>2, <1>4, InsertKept
<1>6. allocated' = n + 1 /\ n + 1 \in Nat /\ masking' \in [Masker -> Asking \cup {NoMask}]
  BY <1>1 DEF PutPseudonym, StoreInv
<1>7. StoreInv'
  BY <1>2, <1>5, <1>6 DEF StoreInv
<1>8. ASSUME NEW p \in Partner, NEW q \in Partner, p # q, Len(r.lru[p]) > Len(st.lru[p]),
             NEW k \in DOMAIN st.pseudonyms, k \in Range(st.lru[q]), k \notin DOMAIN r.pseudonyms
      PROVE  Len(st.lru[q]) >= Len(r.lru[p])
  <2>1. Len(r.lru[p]) \in Nat /\ Len(st.lru[p]) \in Nat
    BY <1>1, <1>5, <1>6, SoundFacts
  <2>2. p = e.partner
    BY <1>5, <1>8, <2>1
  <2> QED  BY <1>5, <1>8, <2>2
<1>9. \A q \in Partner : \A k : InBucket(q, k) => k \in Range(st.lru[q])
  BY <1>1 DEF InBucket, Range
<1> QED  BY <1>1, <1>2, <1>7, <1>8, <1>9 DEF Pays

LEMMA StoreStep ==
    ASSUME StoreInv, [PsNext]_<<now, psVars>>
    PROVE  StoreInv' /\ Pays
<1>1. CASE UNCHANGED psVars
  <2>1. store' = store /\ allocated' = allocated /\ masking' = masking
    BY <1>1 DEF psVars
  <2>2. masking' \in [Masker -> Asking \cup {NoMask}]
    BY <2>1 DEF StoreInv
  <2> QED  BY <2>1, <2>2, QuietKept, ShrinksPays
<1>2. ASSUME NEW m \in Masker, NEW p \in Partner, NEW a \in Alias, Pseudonym(m, p, a)
      PROVE  StoreInv' /\ Pays
  <2>1. UNCHANGED allocated
    BY <1>2 DEF Pseudonym
  <2>2. [partner |-> p, alias |-> a] \in Asking
    BY DEF Asking
  <2>3. masking' \in [Masker -> Asking \cup {NoMask}]
    BY <1>2, <2>2 DEF StoreInv, Pseudonym
  <2>4. \/ \E K \in SUBSET DOMAIN store.pseudonyms : store' = RemoveLocked(store, K)
        \/ \E k \in DOMAIN store.pseudonyms : store' = Touched(store, k)
    BY <1>2 DEF Pseudonym
  <2> QED  BY <2>1, <2>3, <2>4, QuietKept, ShrinksPays
<1>3. ASSUME NEW m \in Masker, NewPseudonymFails(m)
      PROVE  StoreInv' /\ Pays
  <2>1. UNCHANGED allocated /\ store' = store /\ masking' \in [Masker -> Asking \cup {NoMask}]
    BY <1>3 DEF StoreInv, NewPseudonymFails
  <2> QED  BY <2>1, QuietKept, ShrinksPays
<1>4. ASSUME NEW k \in 1 .. MaxPseudonyms, RealHost(k)
      PROVE  StoreInv' /\ Pays
  <2>1. UNCHANGED allocated /\ masking' \in [Masker -> Asking \cup {NoMask}]
    BY <1>4 DEF StoreInv, RealHost
  <2>2. k \in DOMAIN store.pseudonyms /\ {k} \in SUBSET DOMAIN store.pseudonyms
    BY <1>4 DEF RealHost
  <2>3. store' = Touched(store, k) \/ store' = RemoveLocked(store, {k})
    BY <1>4 DEF RealHost
  <2> QED  BY <2>1, <2>2, <2>3, QuietKept, ShrinksPays
<1>5. CASE Sweep
  <2>1. UNCHANGED allocated /\ masking' \in [Masker -> Asking \cup {NoMask}]
    BY <1>5 DEF StoreInv, Sweep
  <2>2. \E K \in SUBSET DOMAIN store.pseudonyms : store' = RemoveLocked(store, K)
    BY <1>5 DEF Sweep
  <2> QED  BY <2>1, <2>2, QuietKept, ShrinksPays
<1> QED  BY <1>1, <1>2, <1>3, <1>4, <1>5, PutKept DEF PsNext, psVars

LEMMA StoreInvAgrees == StoreInv => StoreAgrees
<1> SUFFICES ASSUME StoreInv PROVE StoreAgrees
  OBVIOUS
<1>1. Sound(store, allocated) /\ Capped(store)
  BY DEF StoreInv
<1>2. \A p \in Partner : {store.lru[p][i] : i \in DOMAIN store.lru[p]} =
                         {k \in DOMAIN store.pseudonyms : store.pseudonyms[k].partner = p}
  BY <1>1 DEF Sound, Listed, Range
<1>3. DOMAIN store.pseudonyms = UNION {{store.lru[p][i] : i \in DOMAIN store.lru[p]} : p \in Partner}
  BY <1>1, <1>2 DEF Sound
<1>4. \A p \in Partner : \A i \in DOMAIN store.lru[p] : store.pseudonyms[store.lru[p][i]].partner = p
  BY <1>2
<1>5. \A p \in Partner : IsInjective(store.lru[p])
  BY <1>1 DEF Sound, Listed
<1>6. \A a \in DOMAIN store.forward :
        LET same == {k \in DOMAIN store.pseudonyms : store.pseudonyms[k].alias = a} IN
        store.forward[a] \in same /\ \A k \in same : k <= store.forward[a]
  BY <1>1 DEF Sound, Newest, Same
<1>7. store.total = Cardinality(DOMAIN store.pseudonyms)
  BY <1>1 DEF Sound
<1> QED  BY <1>1, <1>3, <1>4, <1>5, <1>6, <1>7 DEF StoreAgrees, Capped

\* However the lookups, insertions, expiries and evictions of the routing goroutines
\* interleave, the indexes of the pseudonym store agree and its caps hold.
THEOREM IndexesAgree == PsSpec => []StoreAgrees
<1>1. ClockInit /\ PsInit => StoreInv
  BY StoreStart
<1>2. StoreInv /\ [PsNext]_<<now, psVars>> => StoreInv'
  BY StoreStep
<1> QED  BY <1>1, <1>2, StoreInvAgrees, PTL DEF PsSpec

\* A partner loses a live pseudonym to the traffic of another only when it holds at
\* least as many: insertLocked and evictGlobalLocked take from the largest partition.
THEOREM NoisyPartnerPays == PsSpec => NoisyPays
<1>1. ClockInit /\ PsInit => StoreInv
  BY StoreStart
<1>2. StoreInv /\ [PsNext]_<<now, psVars>> => StoreInv'
  BY StoreStep
<1>3. StoreInv /\ [PsNext]_<<now, psVars>> => [Pays]_psVars
  BY StoreStep
<1>4. NoisyPays <=> [][Pays]_psVars
  BY DEF NoisyPays, Pays
<1> QED  BY <1>1, <1>2, <1>3, <1>4, PTL DEF PsSpec
=============================================================================
