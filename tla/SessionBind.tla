---------------------------- MODULE SessionBind -----------------------------
(***************************************************************************)
(* Session affinity (rt_session_bind): the binding of a session to the     *)
(* peer that served it, looked up, touched and written by three separate   *)
(* critical sections of each attempt to route a request, under a limit on  *)
(* the number of bindings and a time to live.                              *)
(***************************************************************************)
EXTENDS Clock, FiniteSets

CONSTANTS
    Key,             \* binding keys: Session-Id or Subscription-Id-Data
    Peer,            \* peers a request may be routed to
    Serving,         \* the sets of candidates a request may have
    score,           \* [Peer -> Nat]: their scores before this handler
    scoreBoost, maxSize, BindTtl,
    Attempt,         \* goroutines that route a request
    NoPeer

ASSUME BindAssumption == {} \notin Serving /\ Serving \subseteq SUBSET Peer /\ score \in [Peer -> Nat]
ASSUME SizeAssumption == {maxSize, scoreBoost, BindTtl} \subseteq Nat
ASSUME KeyAssumption  == IsFiniteSet(Key) /\ NoPeer \notin Peer

VARIABLES
    bindings,        \* bindingStore.bindings: key -> [peer, lastUsed, expiresAt]
    attempts,        \* per goroutine: [pc, key, candidates, exclude, bound, chosen]
    used             \* the peer a key was last routed to and the time of its last use

sbVars == <<bindings, attempts, used>>

Routed == [pc |-> "idle", key |-> NoPeer, candidates |-> {}, exclude |-> {},
           bound |-> NoPeer, chosen |-> NoPeer]

SbInit == /\ bindings = <<>> /\ attempts = [m \in Attempt |-> Routed]
          /\ used = [k \in Key |-> [peer |-> NoPeer, at |-> 0]]

With(k, b) == [x \in DOMAIN bindings \cup {k} |-> IF x = k THEN b ELSE bindings[x]]
Only(K) == [x \in K |-> bindings[x]]

\* A request with a key arrives; C are the peers that serve its realm.
Arrive(m, k, C) ==
    /\ attempts[m].pc = "idle"
    /\ attempts' = [attempts EXCEPT ![m] = [Routed EXCEPT !.pc = "get", !.key = k, !.candidates = C]]
    /\ UNCHANGED <<bindings, used>>

\* handleOutgoing, up to the lookup: an expired binding is not used.
Get(m) ==
    LET r == attempts[m]
        b == IF r.key \in DOMAIN bindings /\ now <= bindings[r.key].expiresAt
             THEN bindings[r.key].peer ELSE NoPeer
    IN  /\ r.pc = "get"
        /\ attempts' = [attempts EXCEPT ![m].bound = b,
                          ![m].pc = IF b \in r.candidates THEN "touch" ELSE "set"]
        /\ UNCHANGED <<bindings, used>>

MutTouch(m) ==
    /\ attempts[m].pc = "touch" /\ attempts' = [attempts EXCEPT ![m].pc = "set"]
    /\ UNCHANGED bindings
    /\ used' = IF attempts[m].key \in DOMAIN bindings
               THEN [used EXCEPT ![attempts[m].key].at = now] ELSE used

\* The rest of handleOutgoing: a binding that is still there is refreshed.
Touch(m) ==
    LET k == attempts[m].key IN
    /\ attempts[m].pc = "touch" /\ attempts' = [attempts EXCEPT ![m].pc = "set"]
    /\ IF k \in DOMAIN bindings
       THEN /\ bindings' = With(k, [bindings[k] EXCEPT !.lastUsed = now, !.expiresAt = now + BindTtl])
            /\ used' = [used EXCEPT ![k].at = now]
       ELSE UNCHANGED <<bindings, used>>

\* The best scored candidates that were not tried (RouteOutWithExclusion).
Best(r) ==
    LET s(p) == score[p] + IF p = r.bound THEN scoreBoost ELSE 0
        free == r.candidates \ r.exclude
    IN  {p \in free : \A q \in free : s(q) <= s(p)}

\* evictOldest: the bindings it may leave, a tie being broken by the map's order.
EvictOldest ==
    {Only(DOMAIN bindings \ {k}) :
       k \in {k \in DOMAIN bindings : \A x \in DOMAIN bindings :
                                        bindings[k].lastUsed <= bindings[x].lastUsed}}

\* The bindings a Set of key k starts from: a full store makes room for a new key.
Room(k) ==
    IF maxSize > 0 /\ Cardinality(DOMAIN bindings) >= maxSize /\ k \notin DOMAIN bindings
    THEN EvictOldest ELSE {bindings}

\* The peer is chosen and handlePostRoute binds the key to it.
Set(m) ==
    LET r == attempts[m] IN
    /\ r.pc = "set"
    /\ \E p \in Best(r), rest \in Room(r.key) :
         /\ bindings' = [x \in DOMAIN rest \cup {r.key} |->
                           IF x # r.key THEN rest[x]
                           ELSE [peer |-> p, lastUsed |-> now, expiresAt |-> now + BindTtl]]
         /\ used' = [used EXCEPT ![r.key] = [peer |-> p, at |-> now]]
         /\ attempts' = [attempts EXCEPT ![m].pc = "send", ![m].bound = NoPeer, ![m].chosen = p]

\* RouteIn: the request is sent, or the peer is excluded and the others are tried.
Sent(m) ==
    /\ attempts[m].pc = "send" /\ attempts' = [attempts EXCEPT ![m] = Routed]
    /\ UNCHANGED <<bindings, used>>

NotSent(m) ==
    LET r == attempts[m]
        tried == r.exclude \cup {r.chosen}
    IN  /\ r.pc = "send"
        /\ attempts' = [attempts EXCEPT ![m] =
                          IF r.candidates \subseteq tried THEN Routed
                          ELSE [r EXCEPT !.pc = "get", !.exclude = tried, !.chosen = NoPeer]]
        /\ UNCHANGED <<bindings, used>>

\* cleanupLoop
Cleanup ==
    /\ bindings' = Only({k \in DOMAIN bindings : now <= bindings[k].expiresAt})
    /\ UNCHANGED <<attempts, used>>

SbNext ==
    \/ Tick /\ UNCHANGED sbVars
    \/ UNCHANGED now /\ \/ \E m \in Attempt, k \in Key, C \in Serving : Arrive(m, k, C)
                        \/ \E m \in Attempt : Get(m) \/ Touch(m) \/ Set(m) \/ Sent(m) \/ NotSent(m)
                        \/ Cleanup

SbSpec == ClockInit /\ SbInit /\ [][SbNext]_<<now, sbVars>>

-----------------------------------------------------------------------------
\* A session stays bound to the peer it was last routed to for as long as it is used
\* within the time to live and fewer than maxSize other sessions have been used since,
\* whatever requests overlap and whichever of them fail (binding_store.go:68-160).
SessionKept ==
    \A k \in Key :
      LET since == {x \in Key \ {k} : used[x].peer # NoPeer /\ used[x].at >= used[k].at} IN
      (/\ used[k].peer # NoPeer /\ now - used[k].at <= BindTtl
       /\ maxSize > 0 => Cardinality(since) < maxSize)
      => k \in DOMAIN bindings /\ bindings[k].peer = used[k].peer
=============================================================================
