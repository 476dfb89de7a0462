--------------------------- MODULE PseudonymStore ---------------------------
(***************************************************************************)
(* The store behind stateful topology hiding (dea_topohide/store.go) and   *)
(* mask, its caller: one map from pseudonym to entry, an index from (host, *)
(* session) to pseudonym, and one least-recently-used list for each        *)
(* partner, kept in agreement under one lock.  mask looks an alias up and  *)
(* stores a new one in two critical sections, so two routing goroutines    *)
(* may both miss.                                                          *)
(*                                                                         *)
(* Pseudonyms are 64 random bits: a fresh one differs from all others, so  *)
(* the branch of PutPseudonym that overwrites an entry is never taken.     *)
(***************************************************************************)
EXTENDS Clock, Integers, Sequences, FiniteSets, Functions

CONSTANTS
    Partner,         \* roaming partners with stateful hiding
    Alias,           \* (real host, session) pairs
    Masker,          \* goroutines that route a message
    MaxEntriesOf,    \* [Partner -> Int]: max_entries of a partner, negative when unlimited
    MaxEntriesOption,\* max_entries of the extension itself, 0 when it is not set
    Ttl,             \* topology_hiding.ttl
    MaxPseudonyms,   \* bound on the pseudonyms generated
    NoMask           \* a goroutine that is not between lookup and insertion

ASSUME PartnerAssumption == IsFiniteSet(Partner)
ASSUME LimitAssumption == MaxEntriesOf \in [Partner -> Int \ {0}] /\ MaxEntriesOption \in Nat

VARIABLES
    store,           \* [pseudonyms, forward, lru, total]: memoryStore under its lock
    allocated,       \* pseudonyms generated so far
    masking          \* per goroutine, the partner and alias whose lookup missed

psVars == <<store, allocated, masking>>

\* SetPartnerLimit, as Init calls it: 0 is unlimited.
limit == [p \in Partner |-> IF MaxEntriesOf[p] < 0 THEN 0 ELSE MaxEntriesOf[p]]

\* maxPartnerEntries: the sum of the partners' limits, unless one has none.
MaxPartnerEntries ==
    IF \E p \in Partner : limit[p] = 0 THEN 0
    ELSE Cardinality(UNION {{p} \X (1 .. limit[p]) : p \in Partner})

\* The store-wide cap Init gives the store.
maxEntries == IF MaxEntriesOption # 0 THEN MaxEntriesOption ELSE MaxPartnerEntries

PsInit ==
    /\ store = [pseudonyms |-> <<>>, forward |-> <<>>, lru |-> [p \in Partner |-> <<>>],
                total |-> 0]
    /\ allocated = 0 /\ masking = [m \in Masker |-> NoMask]

Live(e) == e.expiresAt > now

-----------------------------------------------------------------------------
(* Removal, insertion and eviction, with the lock held                     *)

\* list.Remove of every element in K: the others keep their order.
Without(s, K) ==
    LET kept   == {i \in DOMAIN s : s[i] \notin K}
        nth(j) == CHOOSE i \in kept : Cardinality({h \in kept : h <= i}) = j
    IN  [j \in 1 .. Cardinality(kept) |-> s[nth(j)]]

MutRemoveLocked(st, K) ==
    [pseudonyms |-> Restrict(st.pseudonyms, DOMAIN st.pseudonyms \ K),
     forward    |-> st.forward,
     lru        |-> [p \in Partner |-> Without(st.lru[p], K)],
     total      |-> st.total - Cardinality(K)]

\* removeLocked of each pseudonym in K: an alias that has been given a newer
\* pseudonym keeps it.
RemoveLocked(st, K) ==
    [pseudonyms |-> Restrict(st.pseudonyms, DOMAIN st.pseudonyms \ K),
     forward    |-> Restrict(st.forward, {a \in DOMAIN st.forward :
                      \A k \in K : st.pseudonyms[k].alias = a => st.forward[a] # k}),
     lru        |-> [p \in Partner |-> Without(st.lru[p], K)],
     total      |-> st.total - Cardinality(K)]

\* evictPartnerLocked: the oldest entries of p, down to p's own cap.
EvictPartner(st, p) ==
    IF limit[p] = 0 THEN st
    ELSE RemoveLocked(st, {st.lru[p][i] : i \in 1 .. Len(st.lru[p]) - limit[p]})

MutEvictGlobal(st) ==
    IF maxEntries = 0 \/ st.total <= maxEntries THEN {st}
    ELSE {RemoveLocked(st, {Head(st.lru[p])}) : p \in {p \in Partner : st.lru[p] # <<>>}}

\* evictGlobalLocked, called after every insertion: it has at most one entry to take,
\* the oldest of a largest partner.  Which one, on a tie, is up to the map's order.
EvictGlobal(st) ==
    IF maxEntries = 0 \/ st.total <= maxEntries THEN {st}
    ELSE {RemoveLocked(st, {Head(st.lru[p])}) :
            p \in {p \in Partner : \A q \in Partner : Len(st.lru[q]) <= Len(st.lru[p])}}

\* insertLocked: the states it may end in.
InsertLocked(st, k, e) ==
    EvictGlobal(EvictPartner(
        [pseudonyms |-> [x \in DOMAIN st.pseudonyms \cup {k} |->
                           IF x = k THEN e ELSE st.pseudonyms[x]],
         forward    |-> [a \in DOMAIN st.forward \cup {e.alias} |->
                           IF a = e.alias THEN k ELSE st.forward[a]],
         lru        |-> [st.lru EXCEPT ![e.partner] = Append(@, k)],
         total      |-> st.total + 1], e.partner))

\* touchLocked
Touched(st, k) ==
    LET p == st.pseudonyms[k].partner IN
    [st EXCEPT !.lru[p] = Append(Without(@, {k}), k)]

-----------------------------------------------------------------------------
(* The callers                                                             *)

\* mask, up to the miss: Pseudonym finds a live pseudonym, or drops the expired one.
Pseudonym(m, p, a) ==
    /\ masking[m] = NoMask /\ allocated < MaxPseudonyms
    /\ LET hit == {k \in DOMAIN store.pseudonyms :
                     a \in DOMAIN store.forward /\ store.forward[a] = k} IN
       \/ \E k \in hit : /\ Live(store.pseudonyms[k])
                         /\ store' = Touched(store, k) /\ UNCHANGED masking
       \/ /\ \A k \in hit : ~Live(store.pseudonyms[k])
          /\ store' = RemoveLocked(store, hit)
          /\ masking' = [masking EXCEPT ![m] = [partner |-> p, alias |-> a]]
    /\ UNCHANGED allocated

\* mask, after the miss: a new pseudonym is stored, whoever stored one meanwhile.
PutPseudonym(m) ==
    /\ masking[m] # NoMask /\ allocated < MaxPseudonyms
    /\ allocated' = allocated + 1
    /\ store' \in InsertLocked(store, allocated + 1,
                    [alias |-> masking[m].alias, partner |-> masking[m].partner,
                     expiresAt |-> now + Ttl])
    /\ masking' = [masking EXCEPT ![m] = NoMask]

\* newPseudonym fails: the edge identity is used instead.
NewPseudonymFails(m) ==
    /\ masking[m] # NoMask /\ masking' = [masking EXCEPT ![m] = NoMask]
    /\ UNCHANGED <<store, allocated>>

\* restoreDestinationHost looks a pseudonym up that a partner sent.
RealHost(k) ==
    /\ k \in DOMAIN store.pseudonyms
    /\ store' = IF Live(store.pseudonyms[k]) THEN Touched(store, k)
                ELSE RemoveLocked(store, {k})
    /\ UNCHANGED <<allocated, masking>>

Sweep ==
    /\ store' = RemoveLocked(store, {k \in DOMAIN store.pseudonyms : ~Live(store.pseudonyms[k])})
    /\ UNCHANGED <<allocated, masking>>

PsNext ==
    \/ Tick /\ UNCHANGED psVars
    \/ UNCHANGED now /\ \/ \E m \in Masker, p \in Partner, a \in Alias : Pseudonym(m, p, a)
                        \/ \E m \in Masker : PutPseudonym(m) \/ NewPseudonymFails(m)
                        \/ \E k \in 1 .. MaxPseudonyms : RealHost(k)
                        \/ Sweep

PsSpec == ClockInit /\ PsInit /\ [][PsNext]_<<now, psVars>>

-----------------------------------------------------------------------------
(* Properties                                                              *)

InBucket(p, k) == \E i \in DOMAIN store.lru[p] : store.lru[p][i] = k

\* The indexes of the store agree after every operation: each partner's list holds its
\* entries and each of them once, total counts them and stays within the store-wide
\* cap, and an alias leads to the newest of the pseudonyms stored for it, when two
\* goroutines have each stored one (store.go:161-197, 312-332).
StoreAgrees ==
    /\ DOMAIN store.pseudonyms =
         UNION {{store.lru[p][i] : i \in DOMAIN store.lru[p]} : p \in Partner}
    /\ \A p \in Partner : /\ \A i \in DOMAIN store.lru[p] :
                               store.pseudonyms[store.lru[p][i]].partner = p
                          /\ limit[p] > 0 => Len(store.lru[p]) <= limit[p]
                          /\ IsInjective(store.lru[p])
    /\ store.total = Cardinality(DOMAIN store.pseudonyms)
    /\ maxEntries > 0 => store.total <= maxEntries
    /\ \A a \in DOMAIN store.forward :
         LET same == {k \in DOMAIN store.pseudonyms : store.pseudonyms[k].alias = a} IN
         store.forward[a] \in same /\ \A k \in same : k <= store.forward[a]

\* A live pseudonym of one partner is lost to the traffic of another only when its own
\* partner holds at least as many as the one whose message is being masked
\* (store.go:54-56: "keeps a noisy or hostile partner from evicting the live pseudonyms
\* of a quiet one").
NoisyPays ==
    [][\A p, q \in Partner :
         (/\ p # q /\ Len(store'.lru[p]) > Len(store.lru[p])
          /\ \E k \in DOMAIN store.pseudonyms : InBucket(q, k) /\ k \notin DOMAIN store'.pseudonyms)
         => Len(store.lru[q]) >= Len(store'.lru[p])]_psVars
=============================================================================
