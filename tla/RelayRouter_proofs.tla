------------------------- MODULE RelayRouter_proofs --------------------------
(* Theorems about the relay, for any number of peers, requests, routes and  *)
(* goroutines.                                                             *)
EXTENDS RelayRouter, TLAPS, SequenceTheorems

USE ObjAssumption, ReqAssumption, SelfAssumption, IDAssumption, NoneIsNoObject

-----------------------------------------------------------------------------
(* The choice of a next hop                                                *)

\* What every list of candidates consists of.
IsCandidate(c) == DOMAIN c = {"peer", "score"} /\ c.peer \in Identity
Candidates(S) == \A c \in S : IsCandidate(c)

\* buildCandidates names nobody but the identities of the routes and of the message.
LEMMA BuiltCandidates ==
    ASSUME NEW msg \in Destination, NEW S \in SUBSET Identity
    PROVE  Candidates(BuildCandidates(msg, S))
<1> USE RouteAssumption
<1>1. ASSUME NEW X \in SUBSET Identity, NEW n PROVE Candidates(Route(X, n))
  BY DEF Candidates, IsCandidate, Route
<1>2. /\ msg.host \in Identity \cup {None} /\ msg.realm \in Realm \cup {None} /\ msg.app \in App
  BY DEF Destination
<1>3. /\ \A r \in Realm : realmRoutes[r] \in SUBSET Identity
      /\ appRoutes[msg.app] \in Seq(Identity)
      /\ \A i \in Identity : hostRoutes[i] \in Identity \cup {None}
  BY <1>2
<1>4. \A k \in DOMAIN appRoutes[msg.app] : appRoutes[msg.app][k] \in Identity
  BY <1>3, ElementOfSeq, LenProperties
<1>5. Candidates(UNION {Route({appRoutes[msg.app][k]}, 201 - k) : k \in DOMAIN appRoutes[msg.app]})
  BY <1>4 DEF Candidates, IsCandidate, Route
<1> DEFINE realm  == IF msg.realm # None THEN msg.realm ELSE defaultRealm
           static == IF realm = None THEN {} ELSE realmRoutes[realm]
           host   == {msg.host} \ {None}
           live   == IF dynamicRealmPeers /\ realm # None
                     THEN {i \in S : RealmOf[i] = realm} ELSE {}
<1>6. realm \in Realm \cup {None}
  BY <1>2
<1>7. static \in SUBSET Identity /\ host \in SUBSET Identity /\ live \ (host \cup static) \in SUBSET Identity
  BY <1>2, <1>3, <1>6
<1>8. Candidates(Route(host, 500)) /\ Candidates(Route(static, 100)) /\ Candidates(Route(live \ (host \cup static), 90))
  BY <1>1, <1>7
<1>9. msg.host # None /\ hostRoutes[msg.host] # None => Candidates(Route({hostRoutes[msg.host]}, 1000))
  BY <1>1, <1>2, <1>3
<1> DEFINE apps == UNION {Route({appRoutes[msg.app][k]}, 201 - k) : k \in DOMAIN appRoutes[msg.app]}
<1>10. BuildCandidates(msg, S) =
         IF msg.host # None /\ hostRoutes[msg.host] # None THEN Route({hostRoutes[msg.host]}, 1000)
         ELSE Route(host, 500) \cup Route(static, 100) \cup Route(live \ (host \cup static), 90) \cup apps
  BY DEF BuildCandidates
<1>11. \A X, Y : Candidates(X) /\ Candidates(Y) => Candidates(X \cup Y)
  BY DEF Candidates
<1> HIDE DEF realm, static, host, live, apps
<1>12. Candidates(apps)
  BY <1>5 DEF apps
<1>13. CASE msg.host # None /\ hostRoutes[msg.host] # None
  BY <1>9, <1>10, <1>13
<1>14. CASE ~(msg.host # None /\ hostRoutes[msg.host] # None)
  <2>1. Candidates(Route(host, 500) \cup Route(static, 100))
    BY <1>8, <1>11
  <2>2. Candidates(Route(host, 500) \cup Route(static, 100) \cup Route(live \ (host \cup static), 90))
    BY <1>8, <1>11, <2>1
  <2>3. Candidates(Route(host, 500) \cup Route(static, 100) \cup Route(live \ (host \cup static), 90) \cup apps)
    BY <1>11, <1>12, <2>2
  <2> QED  BY <1>10, <1>14, <2>3
<1> QED  BY <1>13, <1>14

\* No handler of the routing extensions adds a candidate.
LEMMA HandledCandidates ==
    ASSUME NEW S, Candidates(S), NEW ext, NEW rules, NEW load,
           NEW cs \in OutHandlers(S, ext, rules, load)
    PROVE  Candidates(cs)
<1>1. ASSUME NEW X, Candidates(X), NEW n PROVE Candidates(Boost(X, n))
  BY <1>1 DEF Candidates, IsCandidate, Boost
<1>2. ASSUME NEW X, Candidates(X), NEW Y \in SUBSET X PROVE Candidates((X \ Y) \cup Boost(Y, 1))
  <2>1. Candidates(Boost(Y, 1))
    BY <1>1, <1>2 DEF Candidates
  <2> QED  BY <1>2, <2>1 DEF Candidates
<1>3. ASSUME NEW X, Candidates(X) PROVE Candidates(Ereg(X, rules))
  BY <1>3 DEF Candidates, IsCandidate, Ereg
<1>4. ASSUME NEW X, Candidates(X), NEW Y \in LoadBalance(X, load) PROVE Candidates(Y)
  <2>1. Y = X \/ \E c \in X : Y = (X \ {c}) \cup Boost({c}, 1)
    BY <1>4 DEF LoadBalance, Top
  <2>2. \A c \in X : {c} \in SUBSET X
    OBVIOUS
  <2>3. CASE Y # X
    <3>1. PICK c \in X : Y = (X \ {c}) \cup Boost({c}, 1)
      BY <2>1, <2>3
    <3> QED  BY <1>2, <1>4, <2>2, <3>1
  <2> QED  BY <1>4, <2>3
<1>5. ASSUME NEW X, Candidates(X), NEW Y \in Randomize(X) PROVE Candidates(Y)
  <2>1. Y = X \/ \E T \in SUBSET X : Y = (X \ T) \cup Boost(T, 1)
    BY <1>5 DEF Randomize, Top
  <2> QED  BY <1>2, <1>5, <2>1
<1> DEFINE scored   == IF "rt_ereg" \in ext THEN Ereg(S, rules) ELSE S
           balanced == IF "rt_load_balance" \in ext THEN LoadBalance(scored, load) ELSE {scored}
<1>6. Candidates(scored)
  BY <1>3
<1>7. \A X \in balanced : Candidates(X)
  BY <1>4, <1>6
<1>8. PICK X \in balanced : cs \in IF "rt_randomize" \in ext THEN Randomize(X) ELSE {X}
  BY DEF OutHandlers
<1> HIDE DEF balanced
<1> QED  BY <1>5, <1>7, <1>8

-----------------------------------------------------------------------------
(* Types, and what a goroutine may be doing                                *)

\* The values of what RouteIn reads and writes.
PC   == {"idle", "dispatch", "refuse", "route", "store", "send", "undo", "load", "back"}
Pair == [hbh : HopID, e2e : Req]
Txn  == [out : Identity, hbh : HopID, orig : Identity, back : Nat]
Job  == [pc : PC, kind : {"req", "ans"}, e2e : Nat, hbh : Nat, dh : Identity \cup {None},
         excl : SUBSET Identity, next : Obj \cup {None}, new : HopID, orig : Identity \cup {None}]

\* A request is routed once, with the identifier its sender gave it: one that has come
\* back, with identifier 0, is dispatched or refused.  An answer is never dispatched.
Shape(j) ==
    /\ j.pc # "idle" => j.e2e \in Req
    /\ j.pc \in {"store", "send", "undo"} => j.next \in Obj
    /\ j.pc \in {"route", "store", "send", "undo"} \/ j.kind = "ans" => RelayEnabled
    /\ j.pc \in {"load", "back"} => j.kind = "ans"
    /\ j.pc = "back" => j.orig \in Identity
    /\ j.kind = "ans" => j.pc # "dispatch"
    /\ j.kind = "req" /\ j.pc # "idle" => j.hbh = j.e2e \/ (j.hbh = 0 /\ j.pc \in {"dispatch", "refuse"})

\* The messages a goroutine may be routing.
GoodJob == {j \in Job : Shape(j)}

\* The type invariant; without relaying nothing is ever put on a connection.
Typed ==
    /\ open \in [Obj -> BOOLEAN] /\ peers \in [Identity -> Obj \cup {None}]
    /\ hopByHopID \in [Obj -> HopID]
    /\ pending \in [Obj -> SUBSET Pair] /\ wire \in [Obj -> SUBSET Pair]
    /\ job \in [Obj -> GoodJob] /\ prevHopByHop \in SUBSET Txn
    /\ origin \in [Req -> Identity \cup {None}] /\ forwarded \in [Req -> Nat]
    /\ sent \in [Identity \X RemoteID \X Req -> Nat] /\ lost \in SUBSET Req
    /\ \A o \in Obj : wire[o] # {} => RelayEnabled

\* NextHopByHopID stays within the identifiers.
LEMMA HopFacts == 0 \in HopID /\ HopID \subseteq Nat /\ \A h \in HopID : (h + 1) % IDSpace \in HopID
  BY DEF HopID

\* A goroutine may wait for a message.
LEMMA IdleIsGood == Idle \in GoodJob /\ Idle.pc = "idle" /\ Idle.kind = "req"
  BY HopFacts DEF Idle, GoodJob, Job, PC, Shape

\* Where processInboundMessage sends a message.
LEMMA EntryPC ==
    ASSUME NEW msg, NEW loop \in BOOLEAN
    PROVE  /\ Entry(msg, loop) \in {"dispatch", "refuse", "route"}
           /\ Entry(msg, loop) = "route" => RelayEnabled /\ ~loop
           /\ Entry(msg, loop) = "dispatch" => IsLocal(msg)
           /\ RelayEnabled => Entry(AnswerDest, FALSE) = "route"
<1>1. RelayEnabled => ~IsLocal(AnswerDest)
  BY DEF IsLocal
<1> QED  BY <1>1 DEF Entry

\* What buildCandidates is given is a destination.
LEMMA MsgTyped ==
    ASSUME Typed, NEW o \in Obj, job[o].pc # "idle" PROVE Msg(o) \in Destination
<1>1. job[o] \in GoodJob
  BY DEF Typed
<1>2. job[o].e2e \in Req /\ job[o].dh \in Identity \cup {None}
  BY <1>1 DEF GoodJob, Shape, Job
<1> QED  BY <1>2 DEF Msg, Destination

\* The next hop is an identity of the routes, the message or a connected peer.
LEMMA ChoiceTyped ==
    ASSUME Typed, NEW o \in Obj, job[o].pc # "idle" PROVE Choice(o) \in SUBSET Identity
<1>1. Connected \in SUBSET Identity
  BY DEF Connected
<1>2. Candidates(BuildCandidates(Msg(o), Connected))
  BY <1>1, MsgTyped, BuiltCandidates
<1>3. ASSUME NEW cs, Candidates(cs) PROVE BestTier(cs, job[o].excl) \in SUBSET Identity
  BY <1>3 DEF BestTier, Top, Candidates, IsCandidate
<1> DEFINE matching == {r \in eregRules : job[o].kind = "req" /\ job[o].e2e \in r.reqs}
           load == [i \in Identity |-> PendingCount(i)]
           lists == OutHandlers(BuildCandidates(Msg(o), Connected), loaded, matching, load)
<1>4. \A cs \in lists : Candidates(cs)
  BY <1>2, HandledCandidates
<1>5. Choice(o) = UNION {BestTier(cs, job[o].excl) : cs \in lists}
  BY DEF Choice
<1> HIDE DEF lists
<1> QED  BY <1>3, <1>4, <1>5

\* The relay starts well typed.
LEMMA TypedInit == Init => Typed
<1> SUFFICES ASSUME Init PROVE Typed
  OBVIOUS
<1>1. job \in [Obj -> GoodJob]
  BY IdleIsGood DEF Init
<1> QED  BY <1>1, HopFacts DEF Init, Typed

\* A request that is taken up.
LEMMA RequestGood ==
    ASSUME Typed, NEW q \in Req, NEW loop \in BOOLEAN, NEW h \in {q, 0}, h = 0 <=> loop
    PROVE  LET j == Request(q, h, loop)
           IN  /\ j \in GoodJob /\ j.pc \in {"dispatch", "refuse", "route"} /\ j.kind = "req"
               /\ j.e2e = q /\ j.hbh = h
               /\ j.pc = "dispatch" => IsLocal([Dest[q] EXCEPT !.host = DropDestHost(q)])
<1> DEFINE e == Entry([Dest[q] EXCEPT !.host = DropDestHost(q)], loop)
<1>1. /\ e \in {"dispatch", "refuse", "route"}
      /\ e = "route" => RelayEnabled /\ ~loop
      /\ e = "dispatch" => IsLocal([Dest[q] EXCEPT !.host = DropDestHost(q)])
  BY EntryPC
<1>2. DropDestHost(q) \in Identity \cup {None}
  BY DEF DropDestHost, Destination
<1> DEFINE j == [Idle EXCEPT !.pc = e, !.e2e = q, !.hbh = h, !.dh = DropDestHost(q)]
<1>3. Request(q, h, loop) = j
  BY DEF Request
<1>4. e \in PC /\ h \in Nat /\ q \in Nat
  BY <1>1 DEF PC
<1> HIDE DEF e
<1>5. j \in Job
  BY <1>2, <1>4, IdleIsGood DEF GoodJob, Job
<1>6. j.pc = e /\ j.kind = "req" /\ j.e2e = q /\ j.hbh = h
  BY DEF Idle
<1> HIDE DEF j
<1>7. Shape(j)
  BY <1>1, <1>6 DEF Shape
<1> QED  BY <1>1, <1>3, <1>5, <1>6, <1>7 DEF GoodJob, e

\* The goroutine of o goes on with j.
Moves(o, j) == j \in GoodJob /\ job' = [job EXCEPT ![o] = j]

\* A step of one goroutine leaves the others alone.
LEMMA MoveFacts ==
    ASSUME Typed, NEW o \in Obj, NEW j, Moves(o, j)
    PROVE  job' \in [Obj -> GoodJob] /\ job'[o] = j /\ \A u \in Obj \ {o} : job'[u] = job[u]
  BY DEF Moves, Typed

\* What the type invariant says of one goroutine.
LEMMA JobFacts ==
    ASSUME Typed, NEW o \in Obj
    PROVE  job[o] \in GoodJob /\ job[o] \in Job /\ Shape(job[o])
  BY DEF Typed, GoodJob

\* RouteIn is through with the message.
LEMMA DoneGood == ASSUME NEW o \in Obj, Done(o) PROVE Moves(o, Idle)
  BY IdleIsGood DEF Done, Moves

\* The next step of RouteIn for the same message.
LEMMA GotoGood ==
    ASSUME Typed, NEW o \in Obj, NEW pc \in PC, Goto(o, pc), Shape([job[o] EXCEPT !.pc = pc])
    PROVE  LET j == [job[o] EXCEPT !.pc = pc]
           IN  /\ Moves(o, j) /\ j.pc = pc /\ j.kind = job[o].kind /\ j.e2e = job[o].e2e
               /\ j.hbh = job[o].hbh /\ j.next = job[o].next /\ j.new = job[o].new
               /\ j.orig = job[o].orig
<1>1. job[o] \in Job
  BY JobFacts
<1>2. job' = [job EXCEPT ![o] = [job[o] EXCEPT !.pc = pc]]
  BY DEF Goto, Typed
<1>3. [job[o] EXCEPT !.pc = pc] \in Job
  BY <1>1 DEF Job
<1> QED  BY <1>1, <1>2, <1>3 DEF Moves, GoodJob, Job

\* The "Moves" lemmas say what a step does to the goroutine that takes it and which state it
\* leaves alone, and that it keeps the types.  A request is received: dispatched, refused or routed.
LEMMA RcvRequestMoves ==
    ASSUME Typed, NEW o \in Obj, NEW q \in Req, RcvRequest(o, q)
    PROVE  /\ Typed' /\ origin[q] = None /\ origin' = [origin EXCEPT ![q] = IdOf[o]]
           /\ job[o].pc = "idle" /\ UNCHANGED <<relayVars, sent, lost>>
           /\ \E j : /\ Moves(o, j) /\ j.pc \in {"dispatch", "refuse", "route"} /\ j.kind = "req"
                     /\ j.e2e = q /\ j.hbh = q
                     /\ j.pc = "dispatch" => IsLocal([Dest[q] EXCEPT !.host = DropDestHost(q)])
<1> DEFINE j == Request(q, q, FALSE)
<1>1. /\ j \in GoodJob /\ j.pc \in {"dispatch", "refuse", "route"} /\ j.kind = "req" /\ j.e2e = q
      /\ j.hbh = q /\ (j.pc = "dispatch" => IsLocal([Dest[q] EXCEPT !.host = DropDestHost(q)]))
  <2>1. q # 0
    OBVIOUS
  <2> QED  BY <2>1, RequestGood
<1>2. job' = [job EXCEPT ![o] = j]
  BY DEF RcvRequest
<1> HIDE DEF j
<1>3. job' \in [Obj -> GoodJob] /\ Moves(o, j)
  BY <1>1, <1>2, MoveFacts DEF Moves
<1>4. Typed'
  BY <1>3 DEF RcvRequest, Typed, peerVars, relayVars
<1> QED  BY <1>1, <1>3, <1>4 DEF RcvRequest, Up

\* A request that comes back is dispatched or refused, never routed.
LEMMA RcvBounceMoves ==
    ASSUME Typed, NEW o \in Obj, NEW m \in wire[o], RcvBounce(o, m)
    PROVE  /\ Typed' /\ job[o].pc = "idle" /\ UNCHANGED <<relayVars, histVars>>
           /\ \E j : /\ Moves(o, j) /\ j.pc \in {"dispatch", "refuse"} /\ j.kind = "req"
                     /\ j.e2e = m.e2e /\ j.hbh = 0 /\ m.e2e \in Req
                     /\ j.pc = "dispatch" => IsLocal([Dest[m.e2e] EXCEPT !.host = DropDestHost(m.e2e)])
<1>1. PICK q \in Req : q = m.e2e
  <2>1. m \in Pair
    BY DEF Typed
  <2> QED  BY <2>1 DEF Pair
<1> DEFINE j == Request(q, 0, TRUE)
<1>2. /\ j \in GoodJob /\ j.pc \in {"dispatch", "refuse", "route"} /\ j.kind = "req" /\ j.e2e = q
      /\ j.hbh = 0 /\ (j.pc = "dispatch" => IsLocal([Dest[q] EXCEPT !.host = DropDestHost(q)]))
  BY RequestGood
<1>3. job' = [job EXCEPT ![o] = j]
  BY <1>1 DEF RcvBounce
<1>4. j.pc # "route"
  BY <1>2 DEF GoodJob, Shape
<1> HIDE DEF j
<1>5. job' \in [Obj -> GoodJob] /\ Moves(o, j)
  BY <1>2, <1>3, MoveFacts DEF Moves
<1>6. Typed'
  BY <1>5 DEF RcvBounce, Typed, peerVars, relayVars, histVars
<1> QED  BY <1>1, <1>2, <1>4, <1>5, <1>6 DEF RcvBounce, Up

\* An answer takes one pending request away, and is followed up when it has its identifiers.
LEMMA RcvAnswerMoves ==
    ASSUME Typed, NEW o \in Obj, NEW m \in wire[o], NEW e, RcvAnswer(o, m, e)
    PROVE  /\ Typed' /\ job[o].pc = "idle" /\ m \in wire[o]
           /\ UNCHANGED <<hopByHopID, wire, prevHopByHop, forwarded, histVars>>
           /\ \E p \in pending[o] :
                /\ p.hbh = m.hbh /\ pending' = [pending EXCEPT ![o] = @ \ {p}]
                /\ \/ p.e2e # e /\ UNCHANGED job
                   \/ \E j : /\ Moves(o, j) /\ j.pc = "load" /\ j.kind = "ans"
                             /\ j.e2e = e /\ j.e2e = p.e2e /\ j.hbh = p.hbh
<1>1. PICK p \in pending[o] :
        /\ p.hbh = m.hbh /\ pending' = [pending EXCEPT ![o] = @ \ {p}]
        /\ job' = IF p.e2e # e THEN job
                  ELSE [job EXCEPT ![o] = [Idle EXCEPT !.pc = "load", !.kind = "ans",
                                                       !.e2e = e, !.hbh = m.hbh]]
  BY DEF RcvAnswer
<1>2. p \in Pair /\ m \in Pair
  BY DEF Typed
<1> DEFINE j == [Idle EXCEPT !.pc = "load", !.kind = "ans", !.e2e = e, !.hbh = m.hbh]
<1>3. RelayEnabled
  BY DEF Typed
<1>4. j.pc = "load" /\ j.kind = "ans" /\ j.e2e = e /\ j.hbh = m.hbh
  BY DEF Idle
<1>5. ASSUME p.e2e = e PROVE j \in GoodJob
  <2>1. e \in Req /\ m.hbh \in Nat
    BY <1>2, <1>5, HopFacts DEF Pair
  <2>2. j \in Job
    BY <2>1, IdleIsGood DEF GoodJob, Job, PC
  <2>3. Shape(j)
    BY <1>3, <1>4, <2>1 DEF Shape
  <2> QED  BY <2>2, <2>3 DEF GoodJob
<1>6. p.e2e = e => job' = [job EXCEPT ![o] = j]
  BY <1>1
<1> HIDE DEF j
<1>7. p.e2e = e => Moves(o, j)
  BY <1>5, <1>6 DEF Moves
<1>8. job' \in [Obj -> GoodJob]
  BY <1>1, <1>7, MoveFacts DEF Typed
<1>9. Typed'
  BY <1>1, <1>8 DEF RcvAnswer, Typed, peerVars, histVars
<1>10. \/ p.e2e # e /\ UNCHANGED job
       \/ \E i : /\ Moves(o, i) /\ i.pc = "load" /\ i.kind = "ans"
                 /\ i.e2e = e /\ i.e2e = p.e2e /\ i.hbh = p.hbh
  <2>1. CASE p.e2e # e
    BY <1>1, <2>1
  <2>2. CASE p.e2e = e
    BY <1>1, <1>4, <1>7, <2>2
  <2> QED  BY <2>1, <2>2
<1>11. /\ job[o].pc = "idle"
       /\ UNCHANGED <<hopByHopID, wire, prevHopByHop, forwarded, histVars>>
  BY DEF RcvAnswer, Up
<1> QED  BY <1>1, <1>9, <1>10, <1>11

\* An answer of this node to the request o is routing: it goes to the sender, or is lost.
Replies(o) == Answered(IdOf[o], job[o].hbh, job[o].e2e) \/ AnswerLost(job[o].e2e)

\* An answer that goes out or is lost keeps the types of the counts.
LEMMA AnsweredTyped ==
    ASSUME Typed, NEW i \in Identity, NEW h, NEW e \in Req, Answered(i, h, e) \/ AnswerLost(e)
    PROVE  (sent \in [Identity \X RemoteID \X Req -> Nat] /\ lost \in SUBSET Req)'
<1>1. ASSUME NEW S, NEW f \in [S -> Nat], NEW x PROVE [f EXCEPT ![x] = @ + 1] \in [S -> Nat]
  <2>1. CASE x \in S
    BY <2>1
  <2>2. CASE x \notin S
    <3>1. \A v : [f EXCEPT ![x] = v] = f
      BY <2>2
    <3> QED  BY <3>1
  <2> QED  BY <2>1, <2>2
<1> DEFINE S == Identity \X RemoteID \X Req
<1>2. sent \in [S -> Nat] /\ lost \in SUBSET Req
  BY DEF Typed
<1> HIDE DEF S
<1>3. CASE Answered(i, h, e)
  <2>1. sent' = [sent EXCEPT ![<<i, h, e>>] = @ + 1] /\ lost' = lost
    BY <1>3 DEF Answered
  <2>2. sent' \in [S -> Nat]
    BY <1>1, <1>2, <2>1
  <2> QED  BY <1>2, <2>1, <2>2 DEF S
<1>4. CASE AnswerLost(e)
  BY <1>2, <1>4 DEF AnswerLost, S
<1> QED  BY <1>3, <1>4

\* dispatch answers, loses the answer, or has no handler.
LEMMA DispatchMoves ==
    ASSUME Typed, NEW o \in Obj, Dispatch(o)
    PROVE  /\ Typed' /\ Moves(o, Idle) /\ job[o].pc = "dispatch" /\ job[o].kind = "req"
           /\ UNCHANGED <<relayVars, origin>>
           /\ Replies(o) \/ (UNCHANGED <<sent, lost>> /\ Served \cap {Msg(o).app, AppCommon} = {})
<1>1. job[o] \in Job /\ Shape(job[o])
  BY JobFacts
<1>2. job[o].pc = "dispatch" /\ job[o].kind = "req" /\ job[o].e2e \in Req /\ Moves(o, Idle)
  BY <1>1, DoneGood DEF Dispatch, At, Shape, Job
<1>3. Replies(o) \/ (UNCHANGED <<sent, lost>> /\ Served \cap {Msg(o).app, AppCommon} = {})
  BY DEF Dispatch, Replies
<1>4. (sent \in [Identity \X RemoteID \X Req -> Nat] /\ lost \in SUBSET Req)'
  BY <1>2, <1>3, AnsweredTyped DEF Replies, Typed
<1>5. Typed'
  BY <1>2, <1>4, MoveFacts DEF Dispatch, Typed, peerVars, relayVars
<1> QED  BY <1>2, <1>3, <1>5 DEF Dispatch

\* An error answer is sent for a request only.
LEMMA ErrorAnswerMoves ==
    ASSUME Typed, NEW o \in Obj, ErrorAnswer(o)
    PROVE  /\ Typed' /\ Moves(o, Idle) /\ job[o].pc \in {"refuse", "route"}
           /\ UNCHANGED <<relayVars, origin>>
           /\ \/ job[o].kind = "ans" /\ UNCHANGED <<sent, lost>>
              \/ job[o].kind = "req" /\ Replies(o)
<1>1. job[o] \in Job /\ Shape(job[o])
  BY JobFacts
<1>2. job[o].pc \in {"refuse", "route"} /\ job[o].e2e \in Req /\ Moves(o, Idle)
  BY <1>1, DoneGood DEF ErrorAnswer, Fails, At, Shape
<1>3. \/ job[o].kind = "ans" /\ UNCHANGED <<sent, lost>>
      \/ job[o].kind = "req" /\ Replies(o)
  BY DEF ErrorAnswer, Replies
<1>4. (sent \in [Identity \X RemoteID \X Req -> Nat] /\ lost \in SUBSET Req)'
  BY <1>2, <1>3, AnsweredTyped DEF Replies, Typed
<1>5. Typed'
  BY <1>2, <1>4, MoveFacts DEF ErrorAnswer, Typed, peerVars, relayVars
<1> QED  BY <1>2, <1>3, <1>5 DEF ErrorAnswer

\* rt_ignore_dh puts a host back, or none.
LEMMA RestoreTyped ==
    ASSUME NEW j \in Job, Shape(j), j.pc # "idle" PROVE RestoreDestHost(j) \in Identity \cup {None}
  BY DEF RestoreDestHost, Shape, Destination

\* A next hop without connection is excluded; the message stays to be routed.
LEMMA SkipHopMoves ==
    ASSUME Typed, NEW o \in Obj, NEW n \in Choice(o), At(o, "route"), SkipHop(o, n)
    PROVE  /\ Typed' /\ UNCHANGED <<relayVars, histVars>> /\ job[o].pc = "route"
           /\ \E j : /\ Moves(o, j) /\ j.pc = "route" /\ j.kind = job[o].kind
                     /\ j.e2e = job[o].e2e /\ j.hbh = job[o].hbh
<1>1. job[o] \in Job /\ Shape(job[o]) /\ job[o].pc = "route"
  BY JobFacts DEF At
<1>2. n \in Identity /\ RestoreDestHost(job[o]) \in Identity \cup {None}
  BY <1>1, ChoiceTyped, RestoreTyped
<1> DEFINE j == [job[o] EXCEPT !.excl = @ \cup {n}, !.dh = RestoreDestHost(job[o])]
<1>3. job' = [job EXCEPT ![o] = j]
  BY DEF SkipHop, Typed
<1>4. j \in Job
  BY <1>1, <1>2 DEF Job
<1>5. /\ j.pc = "route" /\ j.kind = job[o].kind /\ j.e2e = job[o].e2e /\ j.hbh = job[o].hbh
  BY <1>1 DEF Job
<1> HIDE DEF j
<1>6. Shape(j)
  BY <1>1, <1>5 DEF Shape
<1>7. Moves(o, j)
  BY <1>3, <1>4, <1>6 DEF Moves, GoodJob
<1>8. Typed'
  BY <1>7, MoveFacts DEF SkipHop, Typed, peerVars, relayVars, histVars
<1> QED  BY <1>1, <1>5, <1>7, <1>8 DEF SkipHop

\* A next hop is taken, with the next identifier of its object.
LEMMA TakeHopMoves ==
    ASSUME Typed, NEW o \in Obj, NEW n \in Choice(o), At(o, "route"), TakeHop(o, n)
    PROVE  /\ Typed' /\ UNCHANGED <<pending, wire, prevHopByHop, forwarded, histVars>>
           /\ job[o].pc = "route"
           /\ \E j, to : /\ to \in Obj /\ Moves(o, j) /\ j.pc = "store" /\ j.kind = job[o].kind
                         /\ j.e2e = job[o].e2e /\ j.hbh = job[o].hbh /\ j.next = to
                         /\ j.new = (hopByHopID[to] + 1) % IDSpace
                         /\ hopByHopID' = [hopByHopID EXCEPT ![to] = j.new]
<1>1. job[o] \in Job /\ Shape(job[o]) /\ job[o].pc = "route"
  BY JobFacts DEF At
<1>2. n \in Identity /\ RestoreDestHost(job[o]) \in Identity \cup {None}
  BY <1>1, ChoiceTyped, RestoreTyped
<1>3. PICK to \in Obj : to = peers[n]
  BY <1>2 DEF TakeHop, Typed
<1>4. PICK h \in HopID : h = (hopByHopID[to] + 1) % IDSpace
  BY HopFacts DEF Typed
<1> DEFINE j == [job[o] EXCEPT !.pc = "store", !.next = to, !.new = h, !.dh = RestoreDestHost(job[o])]
<1>5. job' = [job EXCEPT ![o] = j] /\ hopByHopID' = [hopByHopID EXCEPT ![to] = h]
  BY <1>3, <1>4 DEF TakeHop
<1>6. j \in Job
  BY <1>1, <1>2 DEF Job, PC
<1>7. /\ j.pc = "store" /\ j.kind = job[o].kind /\ j.e2e = job[o].e2e /\ j.hbh = job[o].hbh
      /\ j.next = to /\ j.new = h
  BY <1>1 DEF Job
<1> HIDE DEF j
<1>8. Shape(j)
  BY <1>1, <1>7 DEF Shape
<1>9. Moves(o, j)
  BY <1>5, <1>6, <1>8 DEF Moves, GoodJob
<1>10. UNCHANGED <<peerVars, pending, wire, prevHopByHop, forwarded, histVars>>
  BY DEF TakeHop
<1>11. hopByHopID' \in [Obj -> HopID] /\ job' \in [Obj -> GoodJob]
  BY <1>5, <1>9, MoveFacts DEF Typed
<1>12. Typed'
  BY <1>10, <1>11 DEF Typed, peerVars, histVars
<1> QED  BY <1>1, <1>4, <1>5, <1>7, <1>9, <1>10, <1>12

\* The transaction replaces the one of the same key.
LEMMA StoreTxnMoves ==
    ASSUME Typed, NEW o \in Obj, StoreTxn(o)
    PROVE  /\ Typed' /\ job[o].pc = "store" /\ job[o].next \in Obj
           /\ UNCHANGED <<hopByHopID, pending, wire, forwarded, histVars>>
           /\ prevHopByHop' = Without(Key(o)) \cup
                 {[out |-> IdOf[job[o].next], hbh |-> job[o].new, orig |-> IdOf[o], back |-> job[o].hbh]}
           /\ \E j : /\ Moves(o, j) /\ j.pc = "send" /\ j.kind = job[o].kind /\ j.e2e = job[o].e2e
                     /\ j.hbh = job[o].hbh /\ j.next = job[o].next /\ j.new = job[o].new
<1>1. job[o] \in Job /\ Shape(job[o]) /\ job[o].pc = "store" /\ job[o].next \in Obj
  BY JobFacts DEF StoreTxn, At, Shape
<1> DEFINE j == [job[o] EXCEPT !.pc = "send"]
<1>2. /\ j.pc = "send" /\ j.kind = job[o].kind /\ j.e2e = job[o].e2e /\ j.hbh = job[o].hbh
      /\ j.next = job[o].next /\ j.new = job[o].new /\ j.orig = job[o].orig
  BY <1>1 DEF Job
<1>3. Shape(j)
  BY <1>1, <1>2 DEF Shape
<1>4. Moves(o, j)
  BY <1>3, GotoGood DEF StoreTxn, PC
<1>5. prevHopByHop' = Without(Key(o)) \cup
         {[out |-> IdOf[job[o].next], hbh |-> job[o].new, orig |-> IdOf[o], back |-> job[o].hbh]}
  BY DEF StoreTxn, Key
<1>6. prevHopByHop' \in SUBSET Txn
  <2>1. IdOf[job[o].next] \in Identity /\ IdOf[o] \in Identity /\ job[o].new \in HopID /\ job[o].hbh \in Nat
    BY <1>1 DEF Job
  <2> QED  BY <1>5, <2>1 DEF Without, Typed, Txn
<1> HIDE DEF j
<1>7. UNCHANGED <<peerVars, hopByHopID, pending, wire, forwarded, histVars>>
  BY DEF StoreTxn
<1>8. Typed'
  BY <1>4, <1>6, <1>7, MoveFacts DEF Typed, peerVars, histVars
<1> QED  BY <1>1, <1>2, <1>4, <1>5, <1>7, <1>8

\* What trackPending adds.
LEMMA TrackFacts ==
    ASSUME Typed, NEW o \in Obj, job[o].pc = "send", Track(o)
    PROVE  /\ pending' \in [Obj -> SUBSET Pair]
           /\ \A t \in Obj : \A p \in pending'[t] :
                \/ p \in pending[t] /\ (t = job[o].next /\ pending' # pending => p.hbh # job[o].new)
                \/ /\ t = job[o].next /\ job[o].kind = "req"
                   /\ p = [hbh |-> job[o].new, e2e |-> job[o].e2e]
<1>1. /\ job[o] \in Job /\ job[o].next \in Obj /\ job[o].new \in HopID /\ job[o].e2e \in Req
      /\ job[o].kind \in {"req", "ans"}
  BY JobFacts DEF Shape, Job
<1> DEFINE to == job[o].next  p0 == [hbh |-> job[o].new, e2e |-> job[o].e2e]
<1>2. p0 \in Pair
  BY <1>1 DEF Pair
<1>3. CASE job[o].kind = "ans" \/ job[o].new = 0
  BY <1>3 DEF Track, Typed
<1>4. CASE ~(job[o].kind = "ans" \/ job[o].new = 0)
  <2>1. pending' = [pending EXCEPT ![to] = {p \in pending[to] : p.hbh # job[o].new} \cup {p0}]
    BY <1>4 DEF Track
  <2> HIDE DEF p0
  <2>2. pending' \in [Obj -> SUBSET Pair]
    BY <1>1, <1>2, <2>1 DEF Typed
  <2>3. /\ pending'[to] = {p \in pending[to] : p.hbh # job[o].new} \cup {p0}
        /\ \A t \in Obj \ {to} : pending'[t] = pending[t]
    BY <1>1, <2>1 DEF Typed
  <2> QED  BY <1>1, <1>4, <2>2, <2>3 DEF p0
<1> QED  BY <1>3, <1>4

\* Send succeeds: the message is off the goroutine.
LEMMA SendOkMoves ==
    ASSUME Typed, NEW o \in Obj, SendOk(o)
    PROVE  /\ Typed' /\ Moves(o, Idle) /\ job[o].pc = "send" /\ job[o].next \in Obj /\ job[o].e2e \in Req
           /\ Track(o) /\ UNCHANGED <<hopByHopID, prevHopByHop, histVars>>
           /\ \/ job[o].kind = "ans" /\ UNCHANGED <<wire, forwarded>>
              \/ /\ job[o].kind = "req"
                 /\ wire' = [wire EXCEPT ![job[o].next] = @ \cup {[hbh |-> job[o].new, e2e |-> job[o].e2e]}]
                 /\ forwarded' = [forwarded EXCEPT ![job[o].e2e] = @ + 1]
<1>1. job[o] \in Job /\ Shape(job[o]) /\ job[o].pc = "send"
  BY JobFacts DEF SendOk, At
<1>2. job[o].next \in Obj /\ job[o].e2e \in Req /\ RelayEnabled /\ job[o].new \in HopID
  BY <1>1 DEF Shape, Job
<1>3. Moves(o, Idle) /\ Track(o) /\ UNCHANGED <<peerVars, hopByHopID, prevHopByHop, histVars>>
  BY DoneGood DEF SendOk
<1>4. \/ job[o].kind = "ans" /\ UNCHANGED <<wire, forwarded>>
      \/ /\ job[o].kind = "req"
         /\ wire' = [wire EXCEPT ![job[o].next] = @ \cup {[hbh |-> job[o].new, e2e |-> job[o].e2e]}]
         /\ forwarded' = [forwarded EXCEPT ![job[o].e2e] = @ + 1]
  BY <1>1 DEF SendOk, Job
<1>5. [hbh |-> job[o].new, e2e |-> job[o].e2e] \in Pair
  BY <1>2 DEF Pair
<1>6. wire' \in [Obj -> SUBSET Pair] /\ forwarded' \in [Req -> Nat]
  BY <1>2, <1>4, <1>5 DEF Typed
<1>7. pending' \in [Obj -> SUBSET Pair]
  BY <1>1, <1>3, TrackFacts
<1>8. Typed'
  BY <1>2, <1>3, <1>6, <1>7, MoveFacts DEF Typed, peerVars, histVars
<1> QED  BY <1>1, <1>2, <1>3, <1>4, <1>8

\* Send fails, before or after trackPending.
LEMMA SendErrMoves ==
    ASSUME Typed, NEW o \in Obj, SendErr(o)
    PROVE  /\ Typed' /\ job[o].pc = "send" /\ job[o].next \in Obj /\ job[o].e2e \in Req
           /\ Track(o) \/ UNCHANGED pending
           /\ UNCHANGED <<hopByHopID, wire, prevHopByHop, forwarded, histVars>>
           /\ \E j : /\ Moves(o, j) /\ j.pc = "undo" /\ j.kind = job[o].kind /\ j.e2e = job[o].e2e
                     /\ j.hbh = job[o].hbh /\ j.next = job[o].next /\ j.new = job[o].new
<1>1. job[o] \in Job /\ Shape(job[o]) /\ job[o].pc = "send" /\ job[o].next \in Obj /\ job[o].e2e \in Req
  BY JobFacts DEF SendErr, At, Shape
<1> DEFINE j == [job[o] EXCEPT !.pc = "undo"]
<1>2. /\ j.pc = "undo" /\ j.kind = job[o].kind /\ j.e2e = job[o].e2e /\ j.hbh = job[o].hbh
      /\ j.next = job[o].next /\ j.new = job[o].new /\ j.orig = job[o].orig
  BY <1>1 DEF Job
<1>3. Shape(j)
  BY <1>1, <1>2 DEF Shape
<1>4. Moves(o, j)
  BY <1>3, GotoGood DEF SendErr, PC
<1> HIDE DEF j
<1>5. UNCHANGED <<peerVars, hopByHopID, wire, prevHopByHop, forwarded, histVars>>
  BY DEF SendErr
<1>6. Track(o) \/ UNCHANGED pending
  BY DEF SendErr
<1>7. pending' \in [Obj -> SUBSET Pair]
  BY <1>1, <1>6, TrackFacts DEF Typed
<1>8. Typed'
  BY <1>4, <1>5, <1>7, MoveFacts DEF Typed, peerVars, histVars
<1> QED  BY <1>1, <1>2, <1>4, <1>5, <1>6, <1>8

\* The failed transaction is deleted and the message routed again.
LEMMA UndoTxnMoves ==
    ASSUME Typed, NEW o \in Obj, UndoTxn(o)
    PROVE  /\ Typed' /\ job[o].pc = "undo" /\ prevHopByHop' \subseteq prevHopByHop
           /\ UNCHANGED <<hopByHopID, pending, wire, forwarded, histVars>>
           /\ \E j : /\ Moves(o, j) /\ j.pc = "route" /\ j.kind = job[o].kind
                     /\ j.e2e = job[o].e2e /\ j.hbh = job[o].hbh
<1>1. job[o] \in Job /\ Shape(job[o]) /\ job[o].pc = "undo" /\ job[o].next \in Obj
  BY JobFacts DEF UndoTxn, At, Shape
<1> DEFINE j == [job[o] EXCEPT !.pc = "route", !.excl = @ \cup {Key(o)[1]}]
<1>2. j.pc = "route" /\ j.kind = job[o].kind /\ j.e2e = job[o].e2e /\ j.hbh = job[o].hbh
  BY <1>1 DEF Job
<1>3. j \in Job
  <2>1. Key(o)[1] \in Identity
    BY <1>1 DEF Key
  <2> QED  BY <1>1, <2>1 DEF Job, PC
<1>4. job' = [job EXCEPT ![o] = j]
  BY DEF UndoTxn
<1> HIDE DEF j
<1>5. Moves(o, j)
  BY <1>1, <1>2, <1>3, <1>4 DEF Moves, GoodJob, Shape
<1>6. UNCHANGED <<peerVars, hopByHopID, pending, wire, forwarded, histVars>>
  BY DEF UndoTxn
<1>7. prevHopByHop' \subseteq prevHopByHop
  BY DEF UndoTxn, Without
<1>8. Typed'
  BY <1>5, <1>6, <1>7, MoveFacts DEF Typed, peerVars, histVars
<1> QED  BY <1>1, <1>2, <1>5, <1>6, <1>7, <1>8

\* An answer finds a transaction of its key, or is routed as any message.
LEMMA LoadTxnMoves ==
    ASSUME Typed, NEW o \in Obj, LoadTxn(o)
    PROVE  /\ Typed' /\ job[o].pc = "load" /\ prevHopByHop' \subseteq prevHopByHop
           /\ UNCHANGED <<hopByHopID, pending, wire, forwarded, histVars>>
           /\ \E j : /\ Moves(o, j) /\ j.kind = "ans" /\ j.e2e = job[o].e2e
                     /\ \/ j.pc = "route"
                        \/ /\ j.pc = "back"
                           /\ \E x \in prevHopByHop : /\ x.out = IdOf[o] /\ x.hbh = job[o].hbh
                                                      /\ j.hbh = x.back /\ j.orig = x.orig
<1>1. job[o] \in Job /\ Shape(job[o]) /\ job[o].pc = "load" /\ job[o].kind = "ans" /\ RelayEnabled /\ job[o].e2e \in Req
  BY JobFacts DEF LoadTxn, At, Shape
<1>2. Entry(AnswerDest, FALSE) = "route"
  BY <1>1, EntryPC
<1>3. UNCHANGED <<peerVars, hopByHopID, pending, wire, forwarded, histVars>> /\ prevHopByHop' \subseteq prevHopByHop
  <2>1. UNCHANGED <<peerVars, hopByHopID, pending, wire, forwarded, histVars>>
    BY DEF LoadTxn
  <2>2. prevHopByHop' \subseteq prevHopByHop
    BY DEF LoadTxn
  <2> QED  BY <2>1, <2>2
<1>4. ASSUME Goto(o, "route")
      PROVE  \E j : Moves(o, j) /\ j.kind = "ans" /\ j.e2e = job[o].e2e /\ j.pc = "route"
  <2> DEFINE j == [job[o] EXCEPT !.pc = "route"]
  <2>1. j.pc = "route" /\ j.kind = job[o].kind /\ j.e2e = job[o].e2e
    BY <1>1 DEF Job
  <2>2. Shape(j)
    BY <1>1, <2>1 DEF Shape
  <2>3. Moves(o, j)
    BY <1>4, <2>2, GotoGood DEF PC
  <2> HIDE DEF j
  <2> QED  BY <1>1, <2>1, <2>3
<1>5. ASSUME NEW x \in prevHopByHop,
             job' = [job EXCEPT ![o] = [job[o] EXCEPT !.pc = "back", !.hbh = x.back, !.orig = x.orig]]
      PROVE  \E j : /\ Moves(o, j) /\ j.kind = "ans" /\ j.e2e = job[o].e2e /\ j.pc = "back"
                    /\ j.hbh = x.back /\ j.orig = x.orig
  <2> DEFINE j == [job[o] EXCEPT !.pc = "back", !.hbh = x.back, !.orig = x.orig]
  <2>1. x.back \in Nat /\ x.orig \in Identity
    <3>1. x \in Txn
      BY DEF Typed
    <3> QED  BY <3>1 DEF Txn
  <2>2. j \in Job
    BY <1>1, <2>1 DEF Job, PC
  <2>3. /\ j.pc = "back" /\ j.kind = job[o].kind /\ j.e2e = job[o].e2e
        /\ j.hbh = x.back /\ j.orig = x.orig
    BY <1>1 DEF Job
  <2>4. job' = [job EXCEPT ![o] = j]
    BY <1>5
  <2> HIDE DEF j
  <2>5. Shape(j)
    BY <1>1, <2>1, <2>3 DEF Shape
  <2>6. Moves(o, j)
    BY <2>2, <2>4, <2>5 DEF Moves, GoodJob
  <2> QED  BY <1>1, <2>3, <2>6
<1>6. \E j : /\ Moves(o, j) /\ j.kind = "ans" /\ j.e2e = job[o].e2e
             /\ \/ j.pc = "route"
                \/ /\ j.pc = "back"
                   /\ \E x \in prevHopByHop : /\ x.out = IdOf[o] /\ x.hbh = job[o].hbh
                                              /\ j.hbh = x.back /\ j.orig = x.orig
  <2>1. \/ Goto(o, "route")
        \/ \E x \in prevHopByHop : /\ x.out = IdOf[o] /\ x.hbh = job[o].hbh
                                   /\ job' = [job EXCEPT ![o] = [job[o] EXCEPT !.pc = "back", !.hbh = x.back, !.orig = x.orig]]
    BY <1>2 DEF LoadTxn, Goto
  <2>2. CASE Goto(o, "route")
    BY <1>4, <2>2
  <2>3. CASE ~Goto(o, "route")
    <3>1. PICK x \in prevHopByHop :
            /\ x.out = IdOf[o] /\ x.hbh = job[o].hbh
            /\ job' = [job EXCEPT ![o] = [job[o] EXCEPT !.pc = "back", !.hbh = x.back, !.orig = x.orig]]
      BY <2>1, <2>3
    <3>2. PICK j : /\ Moves(o, j) /\ j.kind = "ans" /\ j.e2e = job[o].e2e /\ j.pc = "back"
                   /\ j.hbh = x.back /\ j.orig = x.orig
      BY <1>5, <3>1
    <3> QED  BY <3>1, <3>2
  <2> QED  BY <2>2, <2>3
<1>7. job' \in [Obj -> GoodJob]
  BY <1>6, MoveFacts
<1>8. Typed'
  BY <1>3, <1>7 DEF Typed, peerVars, histVars
<1> QED  BY <1>1, <1>3, <1>6, <1>8

\* The answer goes back, is lost, or is routed as any message.
LEMMA SendBackMoves ==
    ASSUME Typed, NEW o \in Obj, SendBack(o)
    PROVE  /\ Typed' /\ job[o].pc = "back" /\ job[o].e2e \in Req /\ job[o].orig \in Identity
           /\ UNCHANGED <<relayVars, origin>>
           /\ \E j : /\ Moves(o, j) /\ (j.pc = "idle" \/ (j.pc = "route" /\ j.kind = "ans"))
                     /\ \/ UNCHANGED <<sent, lost>>
                        \/ j.pc = "idle" /\ (\/ Answered(job[o].orig, job[o].hbh, job[o].e2e)
                                             \/ AnswerLost(job[o].e2e))
<1>1. /\ job[o] \in Job /\ Shape(job[o]) /\ job[o].pc = "back" /\ job[o].kind = "ans" /\ RelayEnabled
      /\ job[o].e2e \in Req /\ job[o].orig \in Identity
  BY JobFacts DEF SendBack, At, Shape
<1>2. Entry(AnswerDest, FALSE) = "route"
  BY <1>1, EntryPC
<1>3. UNCHANGED <<peerVars, relayVars, origin>>
  BY DEF SendBack
<1>4. ASSUME Goto(o, "route")
      PROVE  \E j : Moves(o, j) /\ j.kind = "ans" /\ j.pc = "route"
  <2> DEFINE j == [job[o] EXCEPT !.pc = "route"]
  <2>1. j.pc = "route" /\ j.kind = job[o].kind /\ j.e2e = job[o].e2e
    BY <1>1 DEF Job
  <2>2. Shape(j)
    BY <1>1, <2>1 DEF Shape
  <2>3. Moves(o, j)
    BY <1>4, <2>2, GotoGood DEF PC
  <2> HIDE DEF j
  <2> QED  BY <1>1, <2>1, <2>3
<1>5. \/ Goto(o, "route") /\ UNCHANGED <<sent, lost>>
      \/ Done(o) /\ (Answered(job[o].orig, job[o].hbh, job[o].e2e) \/ AnswerLost(job[o].e2e))
  BY <1>2 DEF SendBack, Goto
<1>6. \E j : /\ Moves(o, j) /\ (j.pc = "idle" \/ (j.pc = "route" /\ j.kind = "ans"))
             /\ \/ UNCHANGED <<sent, lost>>
                \/ j.pc = "idle" /\ (\/ Answered(job[o].orig, job[o].hbh, job[o].e2e)
                                     \/ AnswerLost(job[o].e2e))
  BY <1>4, <1>5, DoneGood, IdleIsGood
<1>7. (sent \in [Identity \X RemoteID \X Req -> Nat] /\ lost \in SUBSET Req)'
  BY <1>1, <1>5, AnsweredTyped DEF Typed
<1>8. job' \in [Obj -> GoodJob]
  BY <1>6, MoveFacts
<1>9. Typed'
  BY <1>3, <1>7, <1>8 DEF Typed, peerVars, relayVars
<1> QED  BY <1>1, <1>3, <1>6, <1>9

\* A connection opens.
LEMMA OpenTyped ==
    ASSUME Typed, NEW o \in Obj, Open(o) PROVE Typed' /\ UNCHANGED <<relayVars, histVars, job>>
  BY DEF Open, Typed, relayVars, histVars

\* A connection closes, and its pending requests are forgotten.
LEMMA CloseTyped ==
    ASSUME Typed, NEW o \in Obj, Close(o)
    PROVE  /\ Typed' /\ UNCHANGED <<hopByHopID, prevHopByHop, forwarded, histVars, job>>
           /\ \A t \in Obj : pending'[t] \subseteq pending[t] /\ wire'[t] \subseteq wire[t]
<1>1. UNCHANGED <<hopByHopID, prevHopByHop, forwarded, histVars, job>>
  BY DEF Close
<1>2. /\ pending' = [pending EXCEPT ![o] = {}] /\ wire' = [wire EXCEPT ![o] = {}]
      /\ open' = [open EXCEPT ![o] = FALSE] /\ peers' = [peers EXCEPT ![IdOf[o]] = None]
  BY DEF Close
<1>3. \A t \in Obj : pending'[t] \subseteq pending[t] /\ wire'[t] \subseteq wire[t]
  BY <1>2 DEF Typed
<1>4. pending' \in [Obj -> SUBSET Pair] /\ wire' \in [Obj -> SUBSET Pair]
  BY <1>2 DEF Typed
<1>5. Typed'
  BY <1>1, <1>2, <1>3, <1>4 DEF Typed, histVars
<1> QED  BY <1>1, <1>3, <1>5

\* A transaction expires.
LEMMA ExpireTyped ==
    ASSUME Typed, NEW x, ExpireTxn(x)
    PROVE  /\ Typed' /\ prevHopByHop' \subseteq prevHopByHop
           /\ UNCHANGED <<hopByHopID, pending, wire, forwarded, histVars, job>>
  BY DEF ExpireTxn, Typed, peerVars, histVars

\* Nothing happens.
LEMMA StutterTyped ==
    ASSUME Typed, UNCHANGED vars PROVE Typed' /\ UNCHANGED <<relayVars, histVars, job>>
  BY DEF vars, Typed, peerVars, relayVars, histVars

-----------------------------------------------------------------------------
(* A request has one bearer at a time: the goroutine that routes it for the *)
(* first time, then the pending request of the connection it was put on,   *)
(* then the goroutine that carries the answer back.                        *)

\* Job j routes q for the first time; it carries the answer to q; q has not been answered.
First(j, q)   == j.pc # "idle" /\ j.kind = "req" /\ j.e2e = q /\ j.hbh = q
Carried(j, q) == j.pc \in {"load", "back"} /\ j.e2e = q
Unsent(q)     == \A i \in Identity : sent[<<i, q, q>>] = 0

\* One goroutine at most routes q for the first time, and nothing of q is out then.
FirstOnce(q) ==
    \A o \in Obj : First(job[o], q) =>
        /\ origin[q] = IdOf[o] /\ forwarded[q] = 0 /\ Unsent(q)
        /\ \A u \in Obj : First(job[u], q) => u = o
\* q is on one connection at most, once.
WireOnce(q) ==
    \A o \in Obj : \A p \in wire[o] : p.e2e = q =>
        /\ forwarded[q] > 0
        /\ \A u \in Obj : \A r \in wire[u] : r.e2e = q => u = o /\ r = p
\* A pending request has a sender, and one that was really sent has had no answer.
PendingOnce(q) ==
    \A o \in Obj : \A p \in pending[o] : p.e2e = q =>
        origin[q] # None /\ (p \in wire[o] => Unsent(q))
\* One goroutine at most carries the answer to q, and no other answer can come.
CarriedOnce(q) ==
    \A o \in Obj : Carried(job[o], q) =>
        /\ forwarded[q] > 0 /\ Unsent(q)
        /\ \A u \in Obj : /\ Carried(job[u], q) => u = o
                          /\ \A p \in pending[u] \cap wire[u] : p.e2e # q
\* What AtMostOnce counts, and that nothing happens to q before it is received.
Counts(q) ==
    /\ forwarded[q] <= 1 /\ \A i \in Identity : sent[<<i, q, q>>] <= 1
    /\ origin[q] = None => forwarded[q] = 0 /\ Unsent(q)

\* The inductive invariant of AtMostOnce, for one request.
OneBearer(q) == FirstOnce(q) /\ WireOnce(q) /\ PendingOnce(q) /\ CarriedOnce(q) /\ Counts(q)

\* A request that was received has a bearer, or its sender an answer.
Accounted(q) ==
    origin[q] # None =>
        \/ \E o \in Obj : First(job[o], q)
        \/ forwarded[q] > 0 \/ q \in lost \/ sent[<<origin[q], q, q>>] > 0
        \/ Unserved(q)

\* A step that leaves the bearer of q alone, or drops it on the way back.
Quiet(q) ==
    /\ \A o \in Obj : /\ First(job'[o], q) <=> First(job[o], q)
                      /\ Carried(job'[o], q) => Carried(job[o], q)
                      /\ \A p \in wire'[o] : p.e2e = q => p \in wire[o]
                      /\ \A p \in pending'[o] : p.e2e = q =>
                            p \in pending[o] \/ (p \notin wire'[o] /\ origin[q] # None)
    /\ origin'[q] = origin[q] /\ forwarded'[q] = forwarded[q] /\ (q \in lost => q \in lost')
    /\ \A i \in Identity : sent'[<<i, q, q>>] = sent[<<i, q, q>>]

\* Whether a request is for this node, and has a handler, never changes.
LEMMA LocalKept ==
    ASSUME UNCHANGED loaded
    PROVE  \A q : (Local(q)' <=> Local(q)) /\ (Unserved(q)' <=> Unserved(q))
  BY DEF Unserved, Local, DropDestHost, IsLocal

\* A step that is quiet for q keeps what is known of q.
LEMMA QuietKeeps ==
    ASSUME Typed, UNCHANGED loaded, NEW q \in Req, OneBearer(q), Quiet(q)
    PROVE  OneBearer(q)' /\ (Accounted(q) => Accounted(q)')
<1>1. Unsent(q)' <=> Unsent(q)
  BY DEF Unsent, Quiet
<1>2. FirstOnce(q)'
  BY <1>1 DEF OneBearer, FirstOnce, Quiet
<1>3. WireOnce(q)'
  BY DEF OneBearer, WireOnce, Quiet
<1>4. PendingOnce(q)'
  BY <1>1 DEF OneBearer, PendingOnce, Quiet
<1>5. CarriedOnce(q)'
  BY <1>1 DEF OneBearer, CarriedOnce, Quiet
<1>6. Counts(q)'
  BY <1>1 DEF OneBearer, Counts, Quiet
<1>7. ASSUME Accounted(q) PROVE Accounted(q)'
  <2>1. origin[q] \in Identity \cup {None} /\ origin'[q] = origin[q]
    BY DEF Typed, Quiet
  <2>2. Unserved(q)' <=> Unserved(q)
    BY LocalKept
  <2> QED  BY <1>7, <2>1, <2>2 DEF Accounted, Quiet
<1> QED  BY <1>2, <1>3, <1>4, <1>5, <1>6, <1>7 DEF OneBearer

\* When the goroutine that moves bears the same as before, everybody does.
LEMMA QuietMove ==
    ASSUME Typed, NEW o \in Obj, NEW j, Moves(o, j), NEW q \in Req,
           First(j, q) <=> First(job[o], q), Carried(j, q) => Carried(job[o], q)
    PROVE  \A u \in Obj : /\ First(job'[u], q) <=> First(job[u], q)
                          /\ Carried(job'[u], q) => Carried(job[u], q)
  BY MoveFacts

\* A goroutine that waits bears no request.
LEMMA IdleBearsNothing == \A q \in Req : ~First(Idle, q) /\ ~Carried(Idle, q)
  BY IdleIsGood DEF First, Carried

\* What an answer does to the counts of q.
LEMMA AnsweredOther ==
    ASSUME Typed, NEW i, NEW h, NEW e, Answered(i, h, e), NEW q \in Req, ~(h = q /\ e = q)
    PROVE  (\A k \in Identity : sent'[<<k, q, q>>] = sent[<<k, q, q>>]) /\ lost' = lost
<1>1. ASSUME NEW k \in Identity PROVE sent'[<<k, q, q>>] = sent[<<k, q, q>>]
  <2>1. <<k, q, q>> \in Identity \X RemoteID \X Req /\ <<k, q, q>> # <<i, h, e>>
    BY DEF RemoteID
  <2>2. sent' = [sent EXCEPT ![<<i, h, e>>] = @ + 1]
    BY DEF Answered
  <2> QED  BY <2>1, <2>2 DEF Typed
<1> QED  BY <1>1 DEF Answered

\* The first answer to q counts one, for its receiver only.
LEMMA AnsweredThis ==
    ASSUME Typed, NEW i \in Identity, NEW q \in Req, Answered(i, q, q), Unsent(q)
    PROVE  /\ sent'[<<i, q, q>>] = 1 /\ lost' = lost
           /\ \A k \in Identity : sent'[<<k, q, q>>] <= 1
<1>1. \A k \in Identity : <<k, q, q>> \in Identity \X RemoteID \X Req /\ sent[<<k, q, q>>] = 0
  BY DEF RemoteID, Unsent
<1>2. sent' = [sent EXCEPT ![<<i, q, q>>] = @ + 1] /\ lost' = lost
  BY DEF Answered
<1>3. sent'[<<i, q, q>>] = 1
  BY <1>1, <1>2 DEF Typed
<1>4. ASSUME NEW k \in Identity, k # i PROVE sent'[<<k, q, q>>] = 0
  <2>1. <<k, q, q>> # <<i, q, q>>
    BY <1>4
  <2> QED  BY <1>1, <1>2, <2>1 DEF Typed
<1> QED  BY <1>2, <1>3, <1>4

\* The goroutine of o gives up q with an answer to identity i, or without one.
LEMMA RetireKeeps ==
    ASSUME Typed, NEW o \in Obj, NEW j, Moves(o, j), NEW q \in Req, OneBearer(q),
           First(job[o], q) \/ Carried(job[o], q), ~First(j, q), ~Carried(j, q),
           UNCHANGED <<wire, origin, forwarded>>, pending' = pending,
           NEW i \in Identity,
           \/ Answered(i, job[o].hbh, q) \/ AnswerLost(q)
           \/ UNCHANGED <<sent, lost>>
    PROVE  OneBearer(q)'
<1>1. Unsent(q) /\ forwarded[q] \in Nat /\ origin[q] # None
  BY DEF OneBearer, FirstOnce, CarriedOnce, Counts, Typed
<1>2. \A k \in Identity : sent'[<<k, q, q>>] <= 1
  <2>1. CASE Answered(i, job[o].hbh, q) /\ job[o].hbh = q
    BY <1>1, <2>1, AnsweredThis
  <2>2. CASE Answered(i, job[o].hbh, q) /\ job[o].hbh # q
    <3>1. PICK h : h = job[o].hbh
      OBVIOUS
    <3>2. Answered(i, h, q) /\ h # q
      BY <2>2, <3>1
    <3>3. \A k \in Identity : sent'[<<k, q, q>>] = sent[<<k, q, q>>]
      BY <3>2, AnsweredOther
    <3> QED  BY <1>1, <3>3 DEF Unsent
  <2>3. CASE AnswerLost(q) \/ UNCHANGED <<sent, lost>>
    BY <1>1, <2>3 DEF Unsent, AnswerLost
  <2> QED  BY <2>1, <2>2, <2>3
<1>3. \A u \in Obj : ~First(job'[u], q) /\ ~Carried(job'[u], q)
  <2>1. \A u \in Obj : First(job[u], q) \/ Carried(job[u], q) => u = o
    BY <1>1 DEF OneBearer, FirstOnce, CarriedOnce
  <2> QED  BY <2>1, MoveFacts
<1>4. \A u \in Obj : \A p \in pending[u] \cap wire[u] : p.e2e # q
  <2>1. CASE First(job[o], q)
    BY <2>1 DEF OneBearer, FirstOnce, WireOnce
  <2>2. CASE Carried(job[o], q)
    BY <2>2 DEF OneBearer, CarriedOnce
  <2> QED  BY <2>1, <2>2
<1>5. FirstOnce(q)' /\ CarriedOnce(q)'
  BY <1>3 DEF FirstOnce, CarriedOnce
<1>6. WireOnce(q)'
  BY DEF OneBearer, WireOnce
<1>7. PendingOnce(q)'
  BY <1>4 DEF OneBearer, PendingOnce
<1>8. Counts(q)'
  BY <1>1, <1>2 DEF OneBearer, Counts
<1> QED  BY <1>5, <1>6, <1>7, <1>8 DEF OneBearer

\* One lemma per step: it keeps the one bearer of every request, and forgets none that is
\* not for this node.
Handled == \A o \in Obj : job[o].pc = "dispatch" => Local(job[o].e2e)

\* The inductive invariants: of AtMostOnce, and what OnlyUnservedForgotten takes in addition.
Bears == \A q \in Req : OneBearer(q)
Kept  == Handled /\ \A q \in Req : Accounted(q)

\* A step that is quiet for every request.
LEMMA AllQuiet ==
    ASSUME Typed, Bears, UNCHANGED loaded, \A q \in Req : Quiet(q),
           \A o \in Obj : job'[o].pc = "dispatch" => job[o].pc = "dispatch" /\ job'[o].e2e = job[o].e2e
    PROVE  Bears' /\ (Kept => Kept')
<1>1. \A q \in Req : OneBearer(q)' /\ (Accounted(q) => Accounted(q)')
  BY QuietKeeps DEF Bears
<1>2. Bears'
  BY <1>1 DEF Bears
<1>3. Kept => Kept'
  BY <1>1 DEF Kept, Handled, Local, DropDestHost
<1> QED  BY <1>2, <1>3

\* The "Bears" lemmas: each step keeps both.  Steps that touch connections only.
LEMMA OpenBears ==
    ASSUME Typed, Bears, UNCHANGED loaded, UNCHANGED <<relayVars, histVars, job>>
    PROVE  Bears' /\ (Kept => Kept')
<1>1. \A q \in Req : Quiet(q)
  BY DEF Quiet, relayVars, histVars
<1> QED  BY <1>1, AllQuiet

\* A connection closes: a bearer may be dropped, none appears.
LEMMA CloseBears ==
    ASSUME Typed, Bears, UNCHANGED loaded, NEW o \in Obj, Close(o) PROVE Bears' /\ (Kept => Kept')
<1>1. \A q \in Req : Quiet(q)
  BY CloseTyped DEF Quiet, histVars
<1> QED  BY <1>1, AllQuiet, CloseTyped

\* A transaction expires.
LEMMA ExpireBears ==
    ASSUME Typed, Bears, UNCHANGED loaded, NEW x, ExpireTxn(x) PROVE Bears' /\ (Kept => Kept')
<1>1. \A q \in Req : Quiet(q)
  BY ExpireTyped DEF Quiet, histVars
<1> QED  BY <1>1, AllQuiet, ExpireTyped

\* Steps of RouteIn that go on with the same message and leave the connections alone.
LEMMA GoOnBears ==
    ASSUME Typed, Bears, UNCHANGED loaded, NEW o \in Obj, NEW j, Moves(o, j),
           j.kind = job[o].kind, j.e2e = job[o].e2e,
           j.pc \in {"route", "store", "send", "undo", "back"}, job[o].pc # "idle",
           j.kind = "req" => j.hbh = job[o].hbh,
           j.pc = "back" => job[o].pc = "load",
           UNCHANGED <<wire, forwarded, histVars>>,
           \A u \in Obj : \A p \in pending'[u] :
              p \in pending[u] \/ (p \notin wire[u] /\ origin[p.e2e] # None)
    PROVE  Bears' /\ (Kept => Kept')
<1>1. ASSUME NEW q \in Req PROVE Quiet(q)
  <2>1. First(j, q) <=> First(job[o], q)
    <3>1. j.kind = "req" \/ j.kind = "ans"
      BY DEF Moves, GoodJob, Job
    <3> QED  BY <3>1 DEF First
  <2>2. Carried(j, q) => Carried(job[o], q)
    BY DEF Carried
  <2>3. \A u \in Obj : /\ First(job'[u], q) <=> First(job[u], q)
                       /\ Carried(job'[u], q) => Carried(job[u], q)
    BY <2>1, <2>2, QuietMove
  <2> QED  BY <2>3 DEF Quiet, histVars
<1>2. \A u \in Obj : job'[u].pc = "dispatch" => job[u].pc = "dispatch" /\ job'[u].e2e = job[u].e2e
  BY MoveFacts
<1> QED  BY <1>1, <1>2, AllQuiet

\* A next hop is skipped.
LEMMA SkipHopBears ==
    ASSUME Typed, Bears, UNCHANGED loaded, NEW o \in Obj, NEW n \in Choice(o), At(o, "route"), SkipHop(o, n)
    PROVE  Bears' /\ (Kept => Kept')
  BY SkipHopMoves, GoOnBears DEF relayVars

\* A next hop is taken.
LEMMA TakeHopBears ==
    ASSUME Typed, Bears, UNCHANGED loaded, NEW o \in Obj, NEW n \in Choice(o), At(o, "route"), TakeHop(o, n)
    PROVE  Bears' /\ (Kept => Kept')
  BY TakeHopMoves, GoOnBears

\* The transaction is stored.
LEMMA StoreTxnBears ==
    ASSUME Typed, Bears, UNCHANGED loaded, NEW o \in Obj, StoreTxn(o) PROVE Bears' /\ (Kept => Kept')
  BY StoreTxnMoves, GoOnBears

\* The transaction is deleted.
LEMMA UndoTxnBears ==
    ASSUME Typed, Bears, UNCHANGED loaded, NEW o \in Obj, UndoTxn(o) PROVE Bears' /\ (Kept => Kept')
  BY UndoTxnMoves, GoOnBears

\* The transaction of an answer is looked up.
LEMMA LoadTxnBears ==
    ASSUME Typed, Bears, UNCHANGED loaded, NEW o \in Obj, LoadTxn(o) PROVE Bears' /\ (Kept => Kept')
<1>1. job[o].kind = "ans"
  BY LoadTxnMoves, JobFacts DEF Shape
<1> QED  BY <1>1, LoadTxnMoves, GoOnBears

\* A request that is being sent is on no connection.
LEMMA SendingFacts ==
    ASSUME Typed, Bears, NEW o \in Obj, job[o].kind = "req",
           job[o].pc \in {"route", "store", "send", "undo"}
    PROVE  /\ job[o].e2e \in Req /\ job[o].hbh = job[o].e2e /\ First(job[o], job[o].e2e)
           /\ origin[job[o].e2e] = IdOf[o] /\ forwarded[job[o].e2e] = 0
           /\ \A u \in Obj : \A p \in wire[u] : p.e2e # job[o].e2e
<1>1. job[o].e2e \in Req /\ job[o].hbh = job[o].e2e
  BY JobFacts DEF Shape
<1>2. PICK q \in Req : q = job[o].e2e
  BY <1>1
<1>3. First(job[o], q) /\ OneBearer(q)
  BY <1>1, <1>2 DEF First, Bears
<1>4. origin[q] = IdOf[o] /\ forwarded[q] = 0
  BY <1>3 DEF OneBearer, FirstOnce
<1>5. \A u \in Obj : \A p \in wire[u] : p.e2e # q
  BY <1>3, <1>4 DEF OneBearer, WireOnce
<1> QED  BY <1>1, <1>2, <1>3, <1>4, <1>5

\* Send fails: a pending request that was never sent is left behind, and bears nothing.
LEMMA SendErrBears ==
    ASSUME Typed, Bears, UNCHANGED loaded, NEW o \in Obj, SendErr(o) PROVE Bears' /\ (Kept => Kept')
<1>1. job[o].pc = "send" /\ UNCHANGED <<wire, forwarded, histVars>> /\ (Track(o) \/ UNCHANGED pending)
  BY SendErrMoves
<1>2. \A u \in Obj : \A p \in pending'[u] :
         p \in pending[u] \/ (p \notin wire[u] /\ origin[p.e2e] # None)
  <2>1. CASE UNCHANGED pending
    BY <2>1
  <2>2. CASE Track(o)
    <3>1. ASSUME NEW u \in Obj, NEW p \in pending'[u], p \notin pending[u]
          PROVE  job[o].kind = "req" /\ p.e2e = job[o].e2e
      BY <1>1, <2>2, <3>1, TrackFacts
    <3>2. ASSUME NEW u \in Obj, NEW p \in pending'[u], p \notin pending[u]
          PROVE  p \notin wire[u] /\ origin[p.e2e] # None
      <4>1. job[o].kind = "req" /\ p.e2e = job[o].e2e
        BY <3>1, <3>2
      <4>2. origin[p.e2e] = IdOf[o] /\ \A r \in wire[u] : r.e2e # p.e2e
        BY <1>1, <4>1, SendingFacts
      <4> QED  BY <4>2
    <3> QED  BY <3>2
  <2> QED  BY <1>1, <2>1, <2>2
<1> QED  BY <1>1, <1>2, SendErrMoves, GoOnBears

\* The answer to a request goes to its sender, or is lost.
LEMMA ReplyBears ==
    ASSUME Typed, Bears, UNCHANGED loaded, NEW o \in Obj, job[o].kind = "req", job[o].pc # "idle",
           Moves(o, Idle), UNCHANGED <<relayVars, origin>>, Replies(o)
    PROVE  Bears' /\ (Kept => Kept')
<1>1. job[o].e2e \in Req /\ (job[o].hbh = job[o].e2e \/ job[o].hbh = 0)
  BY JobFacts DEF Shape
<1>2. UNCHANGED <<pending, wire, forwarded, origin>>
  BY DEF relayVars
<1>3. Answered(IdOf[o], job[o].hbh, job[o].e2e) \/ AnswerLost(job[o].e2e)
  BY DEF Replies
<1>4. ASSUME NEW q \in Req, First(job[o], q) PROVE OneBearer(q)' /\ (Accounted(q) => Accounted(q)')
  <2>1. job[o].e2e = q /\ job[o].hbh = q /\ OneBearer(q)
    BY <1>4 DEF First, Bears
  <2>2. Answered(IdOf[o], q, q) \/ AnswerLost(q)
    BY <1>3, <2>1
  <2>3. OneBearer(q)'
    BY <1>2, <1>4, <2>1, <2>2, RetireKeeps, IdleBearsNothing
  <2>4. origin[q] = IdOf[o] /\ Unsent(q)
    BY <1>4, <2>1 DEF OneBearer, FirstOnce
  <2>5. CASE Answered(IdOf[o], q, q)
    <3>1. sent'[<<IdOf[o], q, q>>] = 1
      BY <2>4, <2>5, AnsweredThis
    <3> QED  BY <1>2, <2>3, <2>4, <3>1 DEF Accounted
  <2>6. CASE AnswerLost(q)
    BY <2>3, <2>6 DEF AnswerLost, Accounted
  <2> QED  BY <2>2, <2>5, <2>6
<1>5. ASSUME NEW q \in Req, ~First(job[o], q) PROVE OneBearer(q)' /\ (Accounted(q) => Accounted(q)')
  <2>1. \A u \in Obj : /\ First(job'[u], q) <=> First(job[u], q)
                       /\ Carried(job'[u], q) => Carried(job[u], q)
    BY <1>5, QuietMove, IdleBearsNothing
  <2>2. ~(job[o].hbh = q /\ job[o].e2e = q)
    BY <1>5 DEF First
  <2>3. (\A k \in Identity : sent'[<<k, q, q>>] = sent[<<k, q, q>>]) /\ (q \in lost => q \in lost')
    <3>1. PICK h, e : h = job[o].hbh /\ e = job[o].e2e
      OBVIOUS
    <3>2. CASE Answered(IdOf[o], job[o].hbh, job[o].e2e)
      <4>1. Answered(IdOf[o], h, e) /\ ~(h = q /\ e = q)
        BY <2>2, <3>1, <3>2
      <4> QED  BY <4>1, AnsweredOther
    <3>3. CASE AnswerLost(job[o].e2e)
      BY <3>3 DEF AnswerLost
    <3> QED  BY <1>3, <3>2, <3>3
  <2>4. Quiet(q)
    BY <1>2, <2>1, <2>3 DEF Quiet
  <2> QED  BY <2>4, QuietKeeps DEF Bears
<1>6. Bears'
  BY <1>4, <1>5 DEF Bears
<1>7. Handled => Handled'
  BY MoveFacts, IdleIsGood DEF Handled, Local, DropDestHost
<1>8. Kept => Kept'
  BY <1>4, <1>5, <1>7 DEF Kept
<1> QED  BY <1>6, <1>8

\* dispatch answers; without a handler nobody does, and the request is Unserved.
LEMMA DispatchBears ==
    ASSUME Typed, Bears, UNCHANGED loaded, NEW o \in Obj, Dispatch(o) PROVE Bears' /\ (Kept => Kept')
<1>1. /\ Moves(o, Idle) /\ job[o].pc = "dispatch" /\ job[o].kind = "req" /\ UNCHANGED <<relayVars, origin>>
      /\ Replies(o) \/ (UNCHANGED <<sent, lost>> /\ Served \cap {Msg(o).app, AppCommon} = {})
  BY DispatchMoves
<1>2. CASE Replies(o)
  BY <1>1, <1>2, ReplyBears
<1>3. CASE UNCHANGED <<sent, lost>> /\ Served \cap {Msg(o).app, AppCommon} = {}
  <2>1. job[o].e2e \in Req
    BY <1>1, JobFacts DEF Shape
  <2>2. Msg(o).app = Dest[job[o].e2e].app
    BY <1>1, <2>1 DEF Msg, Destination
  <2>3. ASSUME Kept, NEW q \in Req, First(job[o], q) PROVE Accounted(q)'
    <3>1. Unserved(q)
      BY <1>1, <1>3, <2>2, <2>3 DEF Kept, Handled, First, Unserved
    <3> QED  BY <3>1, LocalKept DEF Accounted
  <2>4. UNCHANGED <<pending, wire, forwarded, origin>>
    BY <1>1 DEF relayVars
  <2>5. ASSUME NEW q \in Req, First(job[o], q) PROVE OneBearer(q)'
    <3>1. OneBearer(q) /\ IdOf[o] \in Identity
      BY DEF Bears
    <3> QED  BY <1>1, <1>3, <2>4, <2>5, <3>1, RetireKeeps, IdleBearsNothing
  <2>6. ASSUME NEW q \in Req, ~First(job[o], q) PROVE OneBearer(q)' /\ (Accounted(q) => Accounted(q)')
    <3>1. \A u \in Obj : /\ First(job'[u], q) <=> First(job[u], q)
                         /\ Carried(job'[u], q) => Carried(job[u], q)
      BY <1>1, <2>6, QuietMove, IdleBearsNothing
    <3>2. Quiet(q)
      BY <1>3, <2>4, <3>1 DEF Quiet
    <3> QED  BY <3>2, QuietKeeps DEF Bears
  <2>7. Handled => Handled'
    BY <1>1, MoveFacts, IdleIsGood DEF Handled, Local, DropDestHost
  <2> QED  BY <2>3, <2>5, <2>6, <2>7 DEF Bears, Kept
<1> QED  BY <1>1, <1>2, <1>3

\* A goroutine that is through with an answer bears nothing any more.
LEMMA AnswerDropped ==
    ASSUME Typed, Bears, UNCHANGED loaded, NEW o \in Obj, NEW j, Moves(o, j), j.pc \in {"idle", "route"},
           job[o].kind = "ans", j.pc = "route" => j.kind = "ans",
           UNCHANGED <<pending, wire, forwarded, histVars>>
    PROVE  Bears' /\ (Kept => Kept')
<1>1. ASSUME NEW q \in Req PROVE Quiet(q)
  <2>1. ~First(j, q) /\ ~First(job[o], q) /\ ~Carried(j, q)
    BY DEF First, Carried
  <2>2. \A u \in Obj : /\ First(job'[u], q) <=> First(job[u], q)
                       /\ Carried(job'[u], q) => Carried(job[u], q)
    BY <2>1, QuietMove
  <2> QED  BY <2>2 DEF Quiet, histVars
<1>2. \A u \in Obj : job'[u].pc = "dispatch" => job[u].pc = "dispatch" /\ job'[u].e2e = job[u].e2e
  BY MoveFacts
<1> QED  BY <1>1, <1>2, AllQuiet

\* An error answer ends the routing.
LEMMA ErrorAnswerBears ==
    ASSUME Typed, Bears, UNCHANGED loaded, NEW o \in Obj, ErrorAnswer(o) PROVE Bears' /\ (Kept => Kept')
<1>1. /\ Moves(o, Idle) /\ job[o].pc \in {"refuse", "route"} /\ UNCHANGED <<relayVars, origin>>
      /\ \/ job[o].kind = "ans" /\ UNCHANGED <<sent, lost>>
         \/ job[o].kind = "req" /\ Replies(o)
  BY ErrorAnswerMoves
<1>2. CASE job[o].kind = "req" /\ Replies(o)
  BY <1>1, <1>2, ReplyBears
<1>3. CASE job[o].kind = "ans" /\ UNCHANGED <<sent, lost>>
  BY <1>1, <1>3, AnswerDropped, IdleIsGood DEF relayVars, histVars
<1> QED  BY <1>1, <1>2, <1>3

\* The answer is handed over: q has no bearer any more.
LEMMA SendBackBears ==
    ASSUME Typed, Bears, UNCHANGED loaded, NEW o \in Obj, SendBack(o) PROVE Bears' /\ (Kept => Kept')
<1>1. /\ job[o].pc = "back" /\ job[o].kind = "ans" /\ job[o].orig \in Identity
      /\ UNCHANGED <<pending, wire, forwarded, origin>>
  BY SendBackMoves, JobFacts DEF Shape, relayVars
<1>2. PICK q \in Req : q = job[o].e2e
  BY SendBackMoves
<1>3. PICK j : /\ Moves(o, j) /\ (j.pc = "idle" \/ (j.pc = "route" /\ j.kind = "ans"))
               /\ \/ UNCHANGED <<sent, lost>>
                  \/ j.pc = "idle" /\ (\/ Answered(job[o].orig, job[o].hbh, q)
                                       \/ AnswerLost(q))
  BY <1>2, SendBackMoves
<1>4. CASE UNCHANGED <<sent, lost>>
  BY <1>1, <1>3, <1>4, AnswerDropped DEF histVars
<1>5. CASE j.pc = "idle" /\ (Answered(job[o].orig, job[o].hbh, q) \/ AnswerLost(q))
  <2>1. \A r \in Req : ~First(j, r) /\ ~Carried(j, r) /\ ~First(job[o], r)
    BY <1>1, <1>5 DEF First, Carried
  <2>2. Carried(job[o], q) /\ OneBearer(q)
    BY <1>1, <1>2 DEF Carried, Bears
  <2>3. OneBearer(q)'
    BY <1>1, <1>3, <1>5, <2>1, <2>2, RetireKeeps
  <2>4. Accounted(q)'
    <3>1. forwarded[q] > 0
      BY <2>2 DEF OneBearer, CarriedOnce
    <3> QED  BY <1>1, <3>1 DEF Accounted
  <2>5. ASSUME NEW r \in Req, r # q PROVE Quiet(r)
    <3>1. \A u \in Obj : /\ First(job'[u], r) <=> First(job[u], r)
                         /\ Carried(job'[u], r) => Carried(job[u], r)
      BY <1>3, <2>1, QuietMove
    <3>2. (\A k \in Identity : sent'[<<k, r, r>>] = sent[<<k, r, r>>]) /\ (r \in lost => r \in lost')
      <4>1. CASE Answered(job[o].orig, job[o].hbh, q)
        BY <2>5, <4>1, AnsweredOther
      <4>2. CASE AnswerLost(q)
        BY <4>2 DEF AnswerLost
      <4> QED  BY <1>5, <4>1, <4>2
    <3> QED  BY <1>1, <3>1, <3>2 DEF Quiet
  <2>6. \A r \in Req : OneBearer(r)' /\ (Accounted(r) => Accounted(r)')
    BY <2>3, <2>4, <2>5, QuietKeeps DEF Bears
  <2>7. Handled => Handled'
    BY <1>3, <1>5, MoveFacts DEF Handled, Local, DropDestHost
  <2> QED  BY <2>6, <2>7 DEF Bears, Kept
<1> QED  BY <1>3, <1>4, <1>5

\* The request is handed from the goroutine to the connection.
LEMMA SendOkBears ==
    ASSUME Typed, Bears, UNCHANGED loaded, NEW o \in Obj, SendOk(o) PROVE Bears' /\ (Kept => Kept')
<1>1. /\ Moves(o, Idle) /\ job[o].pc = "send" /\ job[o].next \in Obj /\ Track(o)
      /\ UNCHANGED histVars /\ job[o].kind \in {"req", "ans"}
  BY SendOkMoves, JobFacts DEF Job
<1>2. PICK q \in Req : q = job[o].e2e
  BY SendOkMoves
<1>3. CASE job[o].kind = "ans"
  <2>1. UNCHANGED <<pending, wire, forwarded>>
    BY <1>3, SendOkMoves DEF Track
  <2> QED  BY <1>1, <1>3, <2>1, AnswerDropped, IdleIsGood
<1>4. CASE job[o].kind = "req"
  <2>1. PICK to, p0 : to \in Obj /\ to = job[o].next /\ p0 = [hbh |-> job[o].new, e2e |-> q]
    BY <1>1
  <2>2. wire' = [wire EXCEPT ![to] = @ \cup {p0}] /\ forwarded' = [forwarded EXCEPT ![q] = @ + 1]
    BY <1>2, <1>4, <2>1, SendOkMoves
  <2>3. \A u \in Obj : \A p \in wire'[u] : p \in wire[u] \/ (u = to /\ p = p0)
    BY <2>2 DEF Typed
  <2>4. \A u \in Obj : \A p \in pending'[u] : p \in pending[u] \/ (u = to /\ p = p0)
    BY <1>1, <1>2, <2>1, TrackFacts
  <2>5. /\ First(job[o], q) /\ origin[q] = IdOf[o] /\ forwarded[q] = 0 /\ OneBearer(q)
        /\ \A u \in Obj : \A p \in wire[u] : p.e2e # q
    BY <1>1, <1>2, <1>4, SendingFacts DEF Bears
  <2>6. forwarded'[q] = 1 /\ \A r \in Req \ {q} : forwarded'[r] = forwarded[r]
    BY <2>2, <2>5 DEF Typed
  <2>7. UNCHANGED <<origin, sent, lost>> /\ p0.e2e = q
    BY <1>1, <2>1 DEF histVars
  <2>8. OneBearer(q)'
    <3>1. \A u \in Obj : ~First(job'[u], q) /\ ~Carried(job'[u], q)
      <4>1. \A u \in Obj \ {o} : ~First(job[u], q) /\ ~Carried(job[u], q)
        BY <2>5 DEF OneBearer, FirstOnce, CarriedOnce
      <4> QED  BY <1>1, <4>1, MoveFacts, IdleBearsNothing
    <3>2. FirstOnce(q)' /\ CarriedOnce(q)'
      BY <3>1 DEF FirstOnce, CarriedOnce
    <3>3. WireOnce(q)'
      BY <2>3, <2>5, <2>6 DEF WireOnce
    <3>4. Unsent(q) /\ Unsent(q)'
      BY <2>5, <2>7 DEF OneBearer, FirstOnce, Unsent
    <3>5. origin'[q] # None
      BY <2>5, <2>7
    <3>6. PendingOnce(q)'
      BY <3>4, <3>5 DEF PendingOnce
    <3>7. Counts(q)'
      BY <2>6, <3>4, <3>5 DEF Counts, Unsent
    <3> QED  BY <3>2, <3>3, <3>6, <3>7 DEF OneBearer
  <2>9. Accounted(q)'
    BY <2>6 DEF Accounted
  <2>10. ASSUME NEW r \in Req, r # q PROVE Quiet(r)
    <3>1. ~First(job[o], r)
      BY <1>2, <2>10 DEF First
    <3>2. \A u \in Obj : /\ First(job'[u], r) <=> First(job[u], r)
                         /\ Carried(job'[u], r) => Carried(job[u], r)
      BY <1>1, <3>1, QuietMove, IdleBearsNothing
    <3> QED  BY <2>3, <2>4, <2>6, <2>7, <2>10, <3>2 DEF Quiet
  <2>11. \A r \in Req : OneBearer(r)' /\ (Accounted(r) => Accounted(r)')
    BY <2>8, <2>9, <2>10, QuietKeeps DEF Bears
  <2>12. Handled => Handled'
    BY <1>1, MoveFacts, IdleIsGood DEF Handled, Local, DropDestHost
  <2> QED  BY <2>11, <2>12 DEF Bears, Kept
<1> QED  BY <1>1, <1>3, <1>4

\* A request is received, for the first time as nothing of it is known.
LEMMA RcvRequestBears ==
    ASSUME Typed, Bears, UNCHANGED loaded, NEW o \in Obj, NEW q \in Req, RcvRequest(o, q)
    PROVE  Bears' /\ (Kept => Kept')
<1>1. /\ origin[q] = None /\ origin' = [origin EXCEPT ![q] = IdOf[o]] /\ job[o].pc = "idle"
      /\ UNCHANGED <<pending, wire, forwarded, sent, lost>>
  BY RcvRequestMoves DEF relayVars
<1>2. PICK j : /\ Moves(o, j) /\ j.pc \in {"dispatch", "refuse", "route"} /\ j.kind = "req"
               /\ j.e2e = q /\ j.hbh = q
               /\ j.pc = "dispatch" => IsLocal([Dest[q] EXCEPT !.host = DropDestHost(q)])
  BY RcvRequestMoves
<1>3. First(j, q) /\ \A r \in Req \ {q} : ~First(j, r)
  BY <1>2 DEF First
<1>4. \A r \in Req : ~Carried(j, r) /\ ~First(job[o], r) /\ ~Carried(job[o], r)
  BY <1>1, <1>2 DEF First, Carried
<1>5. origin'[q] = IdOf[o] /\ IdOf[o] # None /\ \A r \in Req \ {q} : origin'[r] = origin[r]
  BY <1>1 DEF Typed
<1>6. OneBearer(q)'
  <2>1. OneBearer(q) /\ forwarded[q] = 0 /\ Unsent(q)
    BY <1>1 DEF Bears, OneBearer, Counts
  <2>2. Unsent(q)' /\ forwarded'[q] = 0
    BY <1>1, <2>1 DEF Unsent
  <2>3. \A u \in Obj : ~First(job[u], q) /\ ~Carried(job[u], q)
    BY <1>1, <2>1 DEF OneBearer, FirstOnce, CarriedOnce
  <2>4. \A u \in Obj : ~Carried(job'[u], q) /\ (First(job'[u], q) => u = o)
    BY <1>2, <1>4, <2>3, MoveFacts
  <2>5. FirstOnce(q)' /\ CarriedOnce(q)'
    BY <1>5, <2>2, <2>4 DEF FirstOnce, CarriedOnce
  <2>6. WireOnce(q)' /\ PendingOnce(q)'
    BY <1>1, <1>5, <2>1, <2>2 DEF OneBearer, WireOnce, PendingOnce
  <2>7. Counts(q)'
    BY <2>2, <1>5 DEF Counts, Unsent
  <2> QED  BY <2>5, <2>6, <2>7 DEF OneBearer
<1>7. Accounted(q)'
  <2>1. First(job'[o], q)
    BY <1>2, <1>3, MoveFacts
  <2> QED  BY <2>1 DEF Accounted
<1>8. ASSUME NEW r \in Req, r # q PROVE Quiet(r)
  <2>1. ~First(j, r)
    BY <1>3, <1>8
  <2>2. \A u \in Obj : /\ First(job'[u], r) <=> First(job[u], r)
                       /\ Carried(job'[u], r) => Carried(job[u], r)
    BY <1>2, <1>4, <2>1, QuietMove
  <2> QED  BY <1>1, <1>5, <1>8, <2>2 DEF Quiet
<1>9. \A r \in Req : OneBearer(r)' /\ (Accounted(r) => Accounted(r)')
  BY <1>6, <1>7, <1>8, QuietKeeps DEF Bears
<1>10. ASSUME Handled PROVE Handled'
  <2>1. j.pc = "dispatch" => Local(j.e2e)
    BY <1>2 DEF Local
  <2>2. job'[o] = j /\ \A u \in Obj \ {o} : job'[u] = job[u]
    BY <1>2, MoveFacts
  <2> QED  BY <1>10, <2>1, <2>2 DEF Handled, Local, DropDestHost
<1> QED  BY <1>9, <1>10 DEF Bears, Kept

\* A request comes back: it is borne by its connection, not by this goroutine.
LEMMA RcvBounceBears ==
    ASSUME Typed, Bears, UNCHANGED loaded, NEW o \in Obj, NEW m \in wire[o], RcvBounce(o, m)
    PROVE  Bears' /\ (Kept => Kept')
<1>1. job[o].pc = "idle" /\ UNCHANGED <<pending, wire, forwarded, origin, sent, lost>>
  BY RcvBounceMoves DEF relayVars, histVars
<1>2. PICK j : /\ Moves(o, j) /\ j.pc \in {"dispatch", "refuse"} /\ j.kind = "req"
               /\ j.e2e = m.e2e /\ j.hbh = 0 /\ m.e2e \in Req
               /\ j.pc = "dispatch" => IsLocal([Dest[m.e2e] EXCEPT !.host = DropDestHost(m.e2e)])
  BY RcvBounceMoves
<1>3. ASSUME NEW q \in Req PROVE Quiet(q)
  <2>1. ~First(j, q) /\ ~Carried(j, q) /\ ~First(job[o], q)
    BY <1>1, <1>2 DEF First, Carried
  <2>2. \A u \in Obj : /\ First(job'[u], q) <=> First(job[u], q)
                       /\ Carried(job'[u], q) => Carried(job[u], q)
    BY <1>2, <2>1, QuietMove
  <2> QED  BY <1>1, <2>2 DEF Quiet
<1>4. \A q \in Req : OneBearer(q)' /\ (Accounted(q) => Accounted(q)')
  BY <1>3, QuietKeeps DEF Bears
<1>5. ASSUME Handled PROVE Handled'
  <2>1. j.pc = "dispatch" => Local(j.e2e)
    BY <1>2 DEF Local
  <2>2. job'[o] = j /\ \A u \in Obj \ {o} : job'[u] = job[u]
    BY <1>2, MoveFacts
  <2> QED  BY <1>5, <2>1, <2>2 DEF Handled, Local, DropDestHost
<1> QED  BY <1>4, <1>5 DEF Bears, Kept

\* The answer takes over from the pending request, which was the only one really sent.
LEMMA RcvAnswerBears ==
    ASSUME Typed, Bears, UNCHANGED loaded, NEW o \in Obj, NEW m \in wire[o], NEW e \in {m.e2e, 0}, RcvAnswer(o, m, e)
    PROVE  Bears' /\ (Kept => Kept')
<1>1. job[o].pc = "idle" /\ UNCHANGED <<wire, forwarded, origin, sent, lost>>
  BY RcvAnswerMoves DEF histVars
<1>2. PICK p \in pending[o] :
        /\ p.hbh = m.hbh /\ pending' = [pending EXCEPT ![o] = @ \ {p}]
        /\ \/ p.e2e # e /\ UNCHANGED job
           \/ \E j : /\ Moves(o, j) /\ j.pc = "load" /\ j.kind = "ans"
                     /\ j.e2e = e /\ j.e2e = p.e2e /\ j.hbh = p.hbh
  BY RcvAnswerMoves
<1>3. p \in Pair /\ m \in Pair
  BY DEF Typed
<1>4. (\A u \in Obj : pending'[u] \subseteq pending[u]) /\ p \notin pending'[o]
  BY <1>2 DEF Typed
<1>5. CASE UNCHANGED job
  <2>1. \A q \in Req : Quiet(q)
    BY <1>1, <1>4, <1>5 DEF Quiet
  <2> QED  BY <1>5, <2>1, AllQuiet
<1>6. CASE ~UNCHANGED job
  <2>1. PICK j : /\ Moves(o, j) /\ j.pc = "load" /\ j.kind = "ans"
                 /\ j.e2e = e /\ j.e2e = p.e2e /\ j.hbh = p.hbh
    BY <1>2, <1>6
  <2>2. PICK q \in Req : q = p.e2e
    BY <1>3 DEF Pair
  <2>3. p = m
    <3>1. q # 0
      OBVIOUS
    <3> QED  BY <1>2, <1>3, <2>1, <2>2, <3>1 DEF Pair
  <2>4. \A r \in Req : ~First(j, r) /\ ~First(job[o], r) /\ ~Carried(job[o], r)
    BY <1>1, <2>1 DEF First, Carried
  <2>5. \A r \in Req \ {q} : ~Carried(j, r)
    BY <2>1, <2>2 DEF Carried
  <2>6. OneBearer(q) /\ Unsent(q) /\ forwarded[q] > 0
    BY <2>2, <2>3 DEF Bears, OneBearer, PendingOnce, WireOnce
  <2>7. OneBearer(q)'
    <3>1. Unsent(q)' /\ forwarded'[q] > 0
      BY <1>1, <2>6 DEF Unsent
    <3>2. \A u \in Obj : ~Carried(job[u], q)
      BY <2>2, <2>3, <2>6 DEF OneBearer, CarriedOnce
    <3>3. \A u \in Obj : Carried(job'[u], q) => u = o
      BY <2>1, <3>2, MoveFacts
    <3>4. \A u \in Obj : \A r \in pending'[u] \cap wire'[u] : r.e2e # q
      BY <1>1, <1>4, <2>2, <2>3, <2>6 DEF OneBearer, WireOnce
    <3>5. CarriedOnce(q)'
      BY <3>1, <3>3, <3>4 DEF CarriedOnce
    <3>6. \A u \in Obj : First(job'[u], q) <=> First(job[u], q)
      BY <2>1, <2>4, MoveFacts
    <3>7. FirstOnce(q)'
      BY <1>1, <2>6, <3>1, <3>6 DEF OneBearer, FirstOnce
    <3>8. WireOnce(q)'
      BY <1>1, <2>6 DEF OneBearer, WireOnce
    <3>9. PendingOnce(q)'
      BY <1>1, <1>4, <2>6, <3>1 DEF OneBearer, PendingOnce
    <3>10. Counts(q)'
      BY <1>1, <2>6, <3>1 DEF OneBearer, Counts
    <3> QED  BY <3>5, <3>7, <3>8, <3>9, <3>10 DEF OneBearer
  <2>8. Accounted(q)'
    BY <1>1, <2>6 DEF Accounted
  <2>9. ASSUME NEW r \in Req, r # q PROVE Quiet(r)
    <3>1. ~Carried(j, r)
      BY <2>5, <2>9
    <3>2. \A u \in Obj : /\ First(job'[u], r) <=> First(job[u], r)
                         /\ Carried(job'[u], r) => Carried(job[u], r)
      BY <2>1, <2>4, <3>1, QuietMove
    <3> QED  BY <1>1, <1>4, <3>2 DEF Quiet
  <2>10. \A r \in Req : OneBearer(r)' /\ (Accounted(r) => Accounted(r)')
    BY <2>7, <2>8, <2>9, QuietKeeps DEF Bears
  <2>11. Handled => Handled'
    BY <2>1, MoveFacts DEF Handled, Local, DropDestHost
  <2> QED  BY <2>10, <2>11 DEF Bears, Kept
<1> QED  BY <1>5, <1>6

\* The routing extensions are loaded once and for all.
LEMMA LoadedKept == ASSUME [Next]_vars PROVE UNCHANGED loaded
<1>1. ASSUME NEW o \in Obj, Open(o) \/ Close(o) \/ Receive(o) PROVE UNCHANGED loaded
  BY <1>1 DEF Open, Close, Receive, RcvRequest, RcvBounce, RcvAnswer, peerVars
<1>2. ASSUME NEW o \in Obj, RouteIn(o) PROVE UNCHANGED loaded
  BY <1>2 DEF RouteIn, Dispatch, ErrorAnswer, SkipHop, TakeHop, StoreTxn, SendOk, SendErr, UndoTxn,
              LoadTxn, SendBack, peerVars
<1> QED  BY <1>1, <1>2 DEF Next, ExpireTxn, vars, peerVars

\* Every step of the relay, by what its lemmas say of it.
LEMMA StepKeeps ==
    ASSUME Typed, Bears, [Next]_vars
    PROVE  Typed' /\ Bears' /\ (Kept => Kept')
<1>0. UNCHANGED loaded
  BY LoadedKept
<1>1. CASE UNCHANGED vars
  BY <1>0, <1>1, StutterTyped, OpenBears
<1>2. ASSUME NEW x, ExpireTxn(x) PROVE Typed' /\ Bears' /\ (Kept => Kept')
  BY <1>0, <1>2, ExpireTyped, ExpireBears
<1>3. ASSUME NEW o \in Obj, Open(o) \/ Close(o) PROVE Typed' /\ Bears' /\ (Kept => Kept')
  BY <1>0, <1>3, OpenTyped, OpenBears, CloseTyped, CloseBears
<1>4. ASSUME NEW o \in Obj, Receive(o) PROVE Typed' /\ Bears' /\ (Kept => Kept')
  <2>1. ASSUME NEW q \in Req, RcvRequest(o, q) PROVE Typed' /\ Bears' /\ (Kept => Kept')
    BY <1>0, <2>1, RcvRequestMoves, RcvRequestBears
  <2>2. ASSUME NEW m \in wire[o], RcvBounce(o, m) PROVE Typed' /\ Bears' /\ (Kept => Kept')
    BY <1>0, <2>2, RcvBounceMoves, RcvBounceBears
  <2>3. ASSUME NEW m \in wire[o], NEW e \in {m.e2e, 0}, RcvAnswer(o, m, e)
        PROVE  Typed' /\ Bears' /\ (Kept => Kept')
    BY <1>0, <2>3, RcvAnswerMoves, RcvAnswerBears
  <2> QED  BY <1>4, <2>1, <2>2, <2>3 DEF Receive
<1>5. ASSUME NEW o \in Obj, RouteIn(o) PROVE Typed' /\ Bears' /\ (Kept => Kept')
  <2>1. ASSUME Dispatch(o) \/ ErrorAnswer(o) PROVE Typed' /\ Bears' /\ (Kept => Kept')
    BY <1>0, <2>1, DispatchMoves, DispatchBears, ErrorAnswerMoves, ErrorAnswerBears
  <2>2. ASSUME At(o, "route"), NEW n \in Choice(o), SkipHop(o, n) \/ TakeHop(o, n)
        PROVE  Typed' /\ Bears' /\ (Kept => Kept')
    BY <1>0, <2>2, SkipHopMoves, SkipHopBears, TakeHopMoves, TakeHopBears
  <2>3. ASSUME StoreTxn(o) \/ UndoTxn(o) PROVE Typed' /\ Bears' /\ (Kept => Kept')
    BY <1>0, <2>3, StoreTxnMoves, StoreTxnBears, UndoTxnMoves, UndoTxnBears
  <2>4. ASSUME SendOk(o) \/ SendErr(o) PROVE Typed' /\ Bears' /\ (Kept => Kept')
    BY <1>0, <2>4, SendOkMoves, SendOkBears, SendErrMoves, SendErrBears
  <2>5. ASSUME LoadTxn(o) \/ SendBack(o) PROVE Typed' /\ Bears' /\ (Kept => Kept')
    BY <1>0, <2>5, LoadTxnMoves, LoadTxnBears, SendBackMoves, SendBackBears
  <2> QED  BY <1>5, <2>1, <2>2, <2>3, <2>4, <2>5 DEF RouteIn
<1> QED  BY <1>1, <1>2, <1>3, <1>4, <1>5 DEF Next

\* Nothing has been received.
LEMMA BearsInit == ASSUME Init PROVE Bears /\ Kept
<1>1. \A o \in Obj : job[o] = Idle /\ wire[o] = {} /\ pending[o] = {}
  BY DEF Init
<1>2. \A q \in Req : /\ origin[q] = None /\ forwarded[q] = 0
                     /\ \A i \in Identity : sent[<<i, q, q>>] = 0
  <2>1. \A q \in Req : \A i \in Identity : <<i, q, q>> \in Identity \X RemoteID \X Req
    BY DEF RemoteID
  <2> QED  BY <2>1 DEF Init
<1>3. Handled
  BY <1>1, IdleIsGood DEF Handled, Local, DropDestHost
<1>4. ASSUME NEW q \in Req PROVE OneBearer(q) /\ Accounted(q)
  BY <1>1, <1>2, IdleBearsNothing
     DEF OneBearer, Accounted, FirstOnce, WireOnce, PendingOnce, CarriedOnce, Counts, Unsent
<1> QED  BY <1>3, <1>4 DEF Bears, Kept

\* Type correctness of the relay and of what its goroutines are doing, and the one bearer
\* of every request.
THEOREM RelayInvariance == Spec => [](Typed /\ Bears)
<1>1. Init => Typed /\ Bears
  BY TypedInit, BearsInit
<1>2. Typed /\ Bears /\ [Next]_vars => (Typed /\ Bears)'
  BY StepKeeps
<1> QED  BY <1>1, <1>2, PTL DEF Spec

\* Retries after a failed Send, answers that come twice, hop-by-hop identifiers that are
\* used again and requests that come back never multiply a request: RouteIn puts it on one
\* connection at most and answers its sender once at most.
THEOREM RelaysAtMostOnce == Spec => []AtMostOnce
<1>1. Bears => AtMostOnce
  BY DEF Bears, OneBearer, Counts, AtMostOnce
<1> QED  BY <1>1, RelayInvariance, PTL

\* Whatever retries, refusals and failed Sends there are, RouteIn passes on or answers every
\* request, or loses the answer at a full queue; the only ones it forgets are those for this
\* node that have no handler.
THEOREM ForgetsOnlyUnserved == Spec => []OnlyUnservedForgotten
<1>1. Init => Typed /\ Bears /\ Kept
  BY TypedInit, BearsInit
<1>2. Typed /\ Bears /\ Kept /\ [Next]_vars => (Typed /\ Bears /\ Kept)'
  BY StepKeeps
<1>3. Typed /\ Bears /\ Kept => OnlyUnservedForgotten
  <2>1. ASSUME NEW q \in Req, NEW o \in Obj, First(job[o], q) PROVE Handling(q)
    BY <2>1 DEF First, Handling
  <2> QED  BY <2>1 DEF Kept, Accounted, OnlyUnservedForgotten
<1> QED  BY <1>1, <1>2, <1>3, PTL DEF Spec

-----------------------------------------------------------------------------
(* Answers find their way back: as long as the hop-by-hop identifiers of no *)
(* Peer object have wrapped, and each identity has one object, a relay     *)
(* transaction and the pending request under the same key belong to the    *)
(* same request.                                                           *)

\* One Peer object per identity; no object has used up its identifiers.
OneObject  == \A o, u \in Obj : IdOf[o] = IdOf[u] => o = u
NotWrapped == \A o \in Obj : hopByHopID[o] + 1 < IDSpace

\* The job holds an identifier of the next hop.
Sending(j) == j.pc \in {"store", "send", "undo"}

\* Every identifier in use was given out by the object it is used with.
Bounded ==
    \A o \in Obj :
        /\ Sending(job[o]) => job[o].new <= hopByHopID[job[o].next]
        /\ \A p \in pending[o] : p.hbh <= hopByHopID[o]
        /\ \A x \in prevHopByHop : x.out = IdOf[o] => x.hbh <= hopByHopID[o]
        /\ job[o].pc = "load" => job[o].hbh <= hopByHopID[o]

\* The identifier of a request that is being sent is nobody else's.
Fresh ==
    \A o \in Obj : Sending(job[o]) =>
        /\ \A u \in Obj : Sending(job[u]) /\ job[u].next = job[o].next /\ job[u].new = job[o].new => u = o
        /\ job[o].pc # "undo" =>
              /\ \A p \in pending[job[o].next] : p.hbh # job[o].new
              /\ job[job[o].next].pc = "load" => job[job[o].next].hbh # job[o].new
              /\ \A x \in prevHopByHop : x.out = IdOf[job[o].next] /\ x.hbh = job[o].new =>
                    job[o].pc = "send" /\ x.orig = IdOf[o] /\ x.back = job[o].hbh

\* A pending request, an answer that is looked up and an answer on its way back agree with
\* the transaction.
Matched ==
    \A o \in Obj :
        /\ \A x \in prevHopByHop : x.out = IdOf[o] =>
              /\ \A p \in pending[o] : p.hbh = x.hbh => Leads(x, p.e2e)
              /\ job[o].pc = "load" /\ job[o].hbh = x.hbh => Leads(x, job[o].e2e)
        /\ job[o].pc = "back" => job[o].hbh = job[o].e2e /\ job[o].orig = origin[job[o].e2e]

\* The inductive invariant of ToSender, beside the types and Bears.
Traced == Bounded /\ Fresh /\ Matched

\* The identifiers are numbers.
LEMMA HopNumbers ==
    ASSUME Typed
    PROVE  /\ \A o \in Obj : /\ hopByHopID[o] \in Nat /\ job[o].new \in Nat /\ job[o].hbh \in Nat
                             /\ \A p \in pending[o] : p.hbh \in Nat /\ p.e2e \in Req
                             /\ Sending(job[o]) => job[o].next \in Obj
           /\ \A x \in prevHopByHop : x.hbh \in Nat
<1>1. \A o \in Obj : hopByHopID[o] \in HopID /\ pending[o] \in SUBSET Pair
  BY DEF Typed
<1>2. \A o \in Obj : job[o].new \in HopID /\ job[o].hbh \in Nat /\ (Sending(job[o]) => job[o].next \in Obj)
  BY JobFacts DEF Job, Shape, Sending
<1>3. \A x \in prevHopByHop : x \in Txn
  BY DEF Typed
<1> QED  BY <1>1, <1>2, <1>3, HopFacts DEF Pair, Txn

\* The sender of a request is known before anything of it is under way.
LEMMA KnownOrigin ==
    ASSUME Typed, Bears
    PROVE  \A o \in Obj : /\ \A p \in pending[o] : origin[p.e2e] # None
                          /\ job[o].pc \in {"load", "back"} => origin[job[o].e2e] # None /\ job[o].e2e \in Req
<1>1. \A o \in Obj : \A p \in pending[o] : origin[p.e2e] # None
  BY HopNumbers DEF Bears, OneBearer, PendingOnce
<1>2. ASSUME NEW o \in Obj, job[o].pc \in {"load", "back"}
      PROVE  origin[job[o].e2e] # None /\ job[o].e2e \in Req
  <2>1. PICK q \in Req : q = job[o].e2e
    BY <1>2, JobFacts DEF Shape
  <2>2. Carried(job[o], q) /\ OneBearer(q)
    BY <1>2, <2>1 DEF Carried, Bears
  <2>3. forwarded[q] > 0
    BY <2>2 DEF OneBearer, CarriedOnce
  <2> QED  BY <2>1, <2>2, <2>3 DEF OneBearer, Counts
<1> QED  BY <1>1, <1>2

\* A goroutine that goes on with j makes no new claim: its job is no longer, or not yet, one
\* with an identifier, or takes over the claim of a pending request or of a transaction.
Inherits(o, j) ==
    \/ j.pc \in {"idle", "dispatch", "refuse", "route"}
    \/ j.pc = "load" /\ \E p \in pending[o] : j.hbh = p.hbh /\ j.e2e = p.e2e
    \/ j.pc = "back" /\ j.hbh = j.e2e /\ j.orig = origin[j.e2e] /\ origin[j.e2e] # None

\* Steps that take pending requests and transactions away and make no claim keep the invariant.
LEMMA ShrinkTraced ==
    ASSUME Typed, Bears, Traced, hopByHopID' = hopByHopID, prevHopByHop' \subseteq prevHopByHop,
           \A o \in Obj : pending'[o] \subseteq pending[o],
           \A q : origin[q] # None => origin'[q] = origin[q],
           \A o \in Obj : job'[o] = job[o] \/ Inherits(o, job'[o])
    PROVE  Traced'
<1>1. ASSUME NEW o \in Obj, Sending(job'[o]) PROVE job'[o] = job[o]
  BY <1>1 DEF Sending, Inherits
<1>2. Bounded'
  BY <1>1 DEF Traced, Bounded, Inherits
<1>3. Fresh'
  <2> SUFFICES ASSUME NEW o \in Obj, Sending(job'[o])
               PROVE  /\ \A u \in Obj : Sending(job'[u]) /\ job'[u].next = job'[o].next /\ job'[u].new = job'[o].new => u = o
                      /\ job'[o].pc # "undo" =>
                          /\ \A p \in pending'[job'[o].next] : p.hbh # job'[o].new
                          /\ job'[job'[o].next].pc = "load" => job'[job'[o].next].hbh # job'[o].new
                          /\ \A x \in prevHopByHop' : x.out = IdOf[job'[o].next] /\ x.hbh = job'[o].new =>
                                job'[o].pc = "send" /\ x.orig = IdOf[o] /\ x.back = job'[o].hbh
    BY DEF Fresh
  <2>1. job'[o] = job[o] /\ Sending(job[o]) /\ job[o].next \in Obj
    BY <1>1, HopNumbers
  <2>2. \A u \in Obj : Sending(job'[u]) /\ job'[u].next = job'[o].next /\ job'[u].new = job'[o].new => u = o
    BY <1>1, <2>1 DEF Traced, Fresh
  <2>3. ASSUME job[o].pc # "undo"
        PROVE  /\ \A p \in pending'[job'[o].next] : p.hbh # job'[o].new
               /\ job'[job'[o].next].pc = "load" => job'[job'[o].next].hbh # job'[o].new
               /\ \A x \in prevHopByHop' : x.out = IdOf[job'[o].next] /\ x.hbh = job'[o].new =>
                     job'[o].pc = "send" /\ x.orig = IdOf[o] /\ x.back = job'[o].hbh
    BY <2>1, <2>3 DEF Traced, Fresh, Inherits
  <2> QED  BY <2>1, <2>2, <2>3
<1>4. Matched'
  <2> SUFFICES ASSUME NEW o \in Obj
               PROVE  /\ \A x \in prevHopByHop' : x.out = IdOf[o] =>
                          /\ \A p \in pending'[o] : p.hbh = x.hbh => Leads(x, p.e2e)'
                          /\ job'[o].pc = "load" /\ job'[o].hbh = x.hbh => Leads(x, job[o].e2e)'
                      /\ job'[o].pc = "back" => job'[o].hbh = job'[o].e2e /\ job'[o].orig = origin'[job'[o].e2e]
    BY DEF Matched
  <2>1. ASSUME NEW x \in prevHopByHop', x.out = IdOf[o]
        PROVE  \A p \in pending'[o] : p.hbh = x.hbh => Leads(x, p.e2e)'
    BY <2>1, KnownOrigin DEF Traced, Matched, Leads
  <2>2. ASSUME NEW x \in prevHopByHop', x.out = IdOf[o], job'[o].pc = "load", job'[o].hbh = x.hbh
        PROVE  Leads(x, job[o].e2e)'
    BY <2>2, KnownOrigin DEF Traced, Matched, Leads, Inherits
  <2>3. job'[o].pc = "back" => job'[o].hbh = job'[o].e2e /\ job'[o].orig = origin'[job'[o].e2e]
    BY KnownOrigin DEF Traced, Matched, Inherits
  <2> QED  BY <2>1, <2>2, <2>3
<1> QED  BY <1>2, <1>3, <1>4 DEF Traced

\* The next identifier of an object is above every one in use with it.
LEMMA TakeHopTraced ==
    ASSUME Typed, Bears, Traced, NotWrapped, NEW o \in Obj, NEW n \in Choice(o),
           At(o, "route"), TakeHop(o, n)
    PROVE  Traced'
<1>1. UNCHANGED <<pending, prevHopByHop, origin>> /\ job[o].pc = "route"
  BY TakeHopMoves DEF histVars
<1>2. PICK j, to : /\ to \in Obj /\ Moves(o, j) /\ j.pc = "store" /\ j.next = to
                   /\ j.new = (hopByHopID[to] + 1) % IDSpace
                   /\ hopByHopID' = [hopByHopID EXCEPT ![to] = j.new]
  BY TakeHopMoves
<1>3. job'[o] = j /\ \A u \in Obj \ {o} : job'[u] = job[u]
  BY <1>2, MoveFacts
<1>4. hopByHopID[to] \in Nat /\ j.new = hopByHopID[to] + 1
  <2>1. hopByHopID[to] \in Nat /\ hopByHopID[to] + 1 < IDSpace
    BY <1>2, HopNumbers DEF NotWrapped
  <2> QED  BY <1>2, <2>1
<1>5. hopByHopID'[to] = j.new /\ \A t \in Obj \ {to} : hopByHopID'[t] = hopByHopID[t]
  BY <1>2 DEF Typed
<1>6. \A t \in Obj : hopByHopID[t] \in Nat /\ hopByHopID[t] <= hopByHopID'[t] /\ hopByHopID'[t] \in Nat
  BY <1>4, <1>5, HopNumbers
<1>7. Bounded'
  <2>1. \A t \in Obj : Sending(job'[t]) => job'[t].new <= hopByHopID'[job'[t].next]
    BY <1>2, <1>3, <1>4, <1>5, <1>6, HopNumbers DEF Traced, Bounded
  <2>2. \A t \in Obj : /\ \A p \in pending[t] : p.hbh <= hopByHopID'[t]
                       /\ \A x \in prevHopByHop : x.out = IdOf[t] => x.hbh <= hopByHopID'[t]
                       /\ job'[t].pc = "load" => job'[t].hbh <= hopByHopID'[t]
    BY <1>2, <1>3, <1>6, HopNumbers DEF Traced, Bounded
  <2> QED  BY <1>1, <2>1, <2>2 DEF Bounded
<1>8. Fresh'
  <2>1. /\ \A p \in pending[to] : p.hbh # j.new
        /\ \A x \in prevHopByHop : x.out = IdOf[to] => x.hbh # j.new
        /\ job'[to].pc = "load" => job'[to].hbh # j.new
        /\ \A u \in Obj \ {o} : Sending(job[u]) /\ job[u].next = to => job[u].new # j.new
    BY <1>2, <1>3, <1>4, HopNumbers DEF Traced, Bounded
  <2>2. ASSUME NEW u \in Obj \ {o}, Sending(job[u]), job[u].pc # "undo"
        PROVE  job'[job[u].next].pc = "load" => job'[job[u].next].hbh # job[u].new
    BY <1>2, <1>3, <2>2, HopNumbers DEF Traced, Fresh
  <2> QED  BY <1>1, <1>2, <1>3, <2>1, <2>2 DEF Traced, Fresh
<1>9. Matched'
  BY <1>1, <1>2, <1>3 DEF Traced, Matched, Leads
<1> QED  BY <1>7, <1>8, <1>9 DEF Traced

\* The transaction that is stored matches no pending request and no answer yet.
LEMMA StoreTxnTraced ==
    ASSUME OneObject, Typed, Bears, Traced, NEW o \in Obj, StoreTxn(o) PROVE Traced'
<1>1. UNCHANGED <<hopByHopID, pending, origin>> /\ job[o].pc = "store" /\ job[o].next \in Obj
  BY StoreTxnMoves DEF histVars
<1>2. PICK j : /\ Moves(o, j) /\ j.pc = "send" /\ j.hbh = job[o].hbh
               /\ j.next = job[o].next /\ j.new = job[o].new
  BY StoreTxnMoves
<1>3. job'[o] = j /\ \A u \in Obj \ {o} : job'[u] = job[u]
  BY <1>2, MoveFacts
<1>4. PICK x0 : /\ x0.out = IdOf[job[o].next] /\ x0.hbh = job[o].new /\ x0.orig = IdOf[o] /\ x0.back = job[o].hbh
                /\ prevHopByHop' = Without(Key(o)) \cup {x0}
  BY StoreTxnMoves
<1>5. \A x \in prevHopByHop' : x = x0 \/ (x \in prevHopByHop /\ ~(x.out = IdOf[job[o].next] /\ x.hbh = job[o].new))
  BY <1>4 DEF Without, Key
<1>6. \A t \in Obj : x0.out = IdOf[t] => t = job[o].next
  BY <1>1, <1>4 DEF OneObject
<1>7. Sending(job[o]) /\ Sending(j)
  BY <1>1, <1>2 DEF Sending
<1>8. Bounded'
  BY <1>1, <1>2, <1>3, <1>4, <1>5, <1>6, <1>7 DEF Traced, Bounded
<1>9. Fresh'
  <2>1. ASSUME NEW u \in Obj, NEW v \in Obj, Sending(job'[u]), Sending(job'[v]),
               job'[v].next = job'[u].next, job'[v].new = job'[u].new
        PROVE  v = u
    BY <1>2, <1>3, <1>7, <2>1 DEF Traced, Fresh
  <2>2. ASSUME NEW u \in Obj, Sending(job'[u]), job'[u].pc # "undo"
        PROVE  /\ \A p \in pending[job'[u].next] : p.hbh # job'[u].new
               /\ job'[job'[u].next].pc = "load" => job'[job'[u].next].hbh # job'[u].new
    BY <1>1, <1>2, <1>3, <1>7, <2>2, HopNumbers DEF Traced, Fresh
  <2>3. ASSUME NEW u \in Obj, Sending(job'[u]), job'[u].pc # "undo", NEW x \in prevHopByHop',
               x.out = IdOf[job'[u].next], x.hbh = job'[u].new
        PROVE  job'[u].pc = "send" /\ x.orig = IdOf[u] /\ x.back = job'[u].hbh
    <3>1. CASE u = o
      BY <1>2, <1>3, <1>4, <1>5, <2>3, <3>1
    <3>2. CASE u # o
      <4>1. job'[u] = job[u] /\ job[u].next \in Obj
        BY <1>3, <2>3, <3>2, HopNumbers
      <4>2. x # x0
        BY <1>4, <1>6, <1>7, <2>3, <3>2, <4>1 DEF Traced, Fresh
      <4> QED  BY <1>5, <2>3, <4>1, <4>2 DEF Traced, Fresh
    <3> QED  BY <3>1, <3>2
  <2> QED  BY <1>1, <2>1, <2>2, <2>3 DEF Fresh
<1>10. Matched'
  <2>1. /\ \A p \in pending[job[o].next] : p.hbh # x0.hbh
        /\ job'[job[o].next].pc = "load" => job'[job[o].next].hbh # x0.hbh
    BY <1>1, <1>2, <1>3, <1>4, <1>7 DEF Traced, Fresh
  <2> QED  BY <1>1, <1>2, <1>3, <1>5, <1>6, <2>1 DEF Traced, Matched, Leads
<1> QED  BY <1>8, <1>9, <1>10 DEF Traced

\* A request is put among the pending ones of the next hop, in Send.
LEMMA TrackTraced ==
    ASSUME OneObject, Typed, Bears, Traced, NEW o \in Obj, job[o].pc = "send", Track(o),
           NEW j, Moves(o, j), j.pc = "idle" \/ (j.pc = "undo" /\ j.next = job[o].next /\ j.new = job[o].new),
           UNCHANGED <<hopByHopID, prevHopByHop, origin>>
    PROVE  Traced'
<1>1. job'[o] = j /\ \A u \in Obj \ {o} : job'[u] = job[u]
  BY MoveFacts
<1>2. Sending(job[o]) /\ job[o].next \in Obj
  BY HopNumbers DEF Sending
<1>3. ASSUME NEW t \in Obj, NEW p \in pending'[t], p \notin pending[t]
      PROVE  t = job[o].next /\ job[o].kind = "req" /\ p.hbh = job[o].new /\ p.e2e = job[o].e2e
  BY <1>3, TrackFacts
<1>4. job[o].kind = "req" => job[o].hbh = job[o].e2e /\ origin[job[o].e2e] = IdOf[o]
  BY SendingFacts
<1>5. Bounded'
  <2>1. \A t \in Obj : Sending(job'[t]) => job'[t].new <= hopByHopID[job'[t].next]
    BY <1>1, <1>2 DEF Traced, Bounded, Sending
  <2>2. \A t \in Obj : job'[t].pc = "load" => job'[t].hbh <= hopByHopID[t]
    BY <1>1 DEF Traced, Bounded
  <2>3. \A t \in Obj : \A p \in pending'[t] : p.hbh <= hopByHopID[t]
    BY <1>2, <1>3 DEF Traced, Bounded
  <2>4. \A t \in Obj : \A x \in prevHopByHop : x.out = IdOf[t] => x.hbh <= hopByHopID[t]
    BY DEF Traced, Bounded
  <2> QED  BY <2>1, <2>2, <2>3, <2>4 DEF Bounded
<1>6. Fresh'
  <2>1. ASSUME NEW u \in Obj, NEW v \in Obj, Sending(job'[u]), Sending(job'[v]),
               job'[v].next = job'[u].next, job'[v].new = job'[u].new
        PROVE  v = u
    BY <1>1, <1>2, <2>1 DEF Traced, Fresh, Sending
  <2>2. ASSUME NEW u \in Obj, Sending(job'[u]), job'[u].pc # "undo"
        PROVE  u # o /\ job'[u] = job[u] /\ Sending(job[u]) /\ job[u].pc # "undo" /\ job[u].next \in Obj
    BY <1>1, <2>2, HopNumbers DEF Sending
  <2>3. ASSUME NEW u \in Obj, Sending(job'[u]), job'[u].pc # "undo"
        PROVE  /\ \A p \in pending'[job'[u].next] : p.hbh # job'[u].new
               /\ job'[job'[u].next].pc = "load" => job'[job'[u].next].hbh # job'[u].new
               /\ \A x \in prevHopByHop' : x.out = IdOf[job'[u].next] /\ x.hbh = job'[u].new =>
                     job'[u].pc = "send" /\ x.orig = IdOf[u] /\ x.back = job'[u].hbh
    <3>1. u # o /\ job'[u] = job[u] /\ Sending(job[u]) /\ job[u].pc # "undo" /\ job[u].next \in Obj
      BY <2>2, <2>3
    <3>2. \A p \in pending'[job[u].next] : p.hbh # job[u].new
      BY <1>2, <1>3, <3>1 DEF Traced, Fresh
    <3>3. job'[job[u].next].pc = "load" => job'[job[u].next].hbh # job[u].new
      BY <1>1, <3>1 DEF Traced, Fresh
    <3> QED  BY <3>1, <3>2, <3>3 DEF Traced, Fresh
  <2> QED  BY <2>1, <2>3 DEF Fresh
<1>7. Matched'
  <2>1. ASSUME NEW t \in Obj, NEW x \in prevHopByHop, x.out = IdOf[t], NEW p \in pending'[t], p.hbh = x.hbh
        PROVE  Leads(x, p.e2e)
    <3>1. CASE p \in pending[t]
      BY <2>1, <3>1 DEF Traced, Matched
    <3>2. CASE p \notin pending[t]
      BY <1>2, <1>3, <1>4, <2>1, <3>2 DEF Traced, Fresh, Leads
    <3> QED  BY <3>1, <3>2
  <2>2. ASSUME NEW t \in Obj
        PROVE  /\ \A x \in prevHopByHop : x.out = IdOf[t] =>
                     (job'[t].pc = "load" /\ job'[t].hbh = x.hbh => Leads(x, job'[t].e2e))
               /\ job'[t].pc = "back" => job'[t].hbh = job'[t].e2e /\ job'[t].orig = origin[job'[t].e2e]
    BY <1>1 DEF Traced, Matched
  <2> QED  BY <2>1, <2>2 DEF Matched, Leads
<1> QED  BY <1>5, <1>6, <1>7 DEF Traced

\* Steps after which the goroutine of o goes on with a job that makes no new claim.
LEMMA InheritTraced ==
    ASSUME Typed, Bears, Traced, hopByHopID' = hopByHopID, prevHopByHop' \subseteq prevHopByHop,
           \A t \in Obj : pending'[t] \subseteq pending[t],
           origin' = origin, NEW o \in Obj, NEW j, Moves(o, j), Inherits(o, j)
    PROVE  Traced'
<1>1. \A t \in Obj : job'[t] = job[t] \/ Inherits(t, job'[t])
  BY MoveFacts
<1> QED  BY <1>1, ShrinkTraced

\* A step that answers nobody keeps ToSender.
LEMMA SentKept ==
    ASSUME Typed, ToSender, UNCHANGED sent, \A q \in Req : origin[q] # None => origin'[q] = origin[q]
    PROVE  ToSender'
  BY DEF ToSender

\* So does an answer to the sender, and one to a request that came back.
LEMMA SentRight ==
    ASSUME Typed, ToSender, origin' = origin, NEW i \in Identity, NEW e \in Req, NEW h,
           h = 0 \/ (h = e /\ i = origin[e]), Answered(i, h, e) \/ AnswerLost(e)
    PROVE  ToSender'
<1>1. CASE AnswerLost(e)
  BY <1>1, SentKept DEF AnswerLost
<1>2. CASE Answered(i, h, e)
  <2>1. sent' = [sent EXCEPT ![<<i, h, e>>] = @ + 1]
    BY <1>2 DEF Answered
  <2>2. ASSUME NEW k \in Identity, NEW g \in RemoteID, NEW q \in Req, sent'[<<k, g, q>>] > 0
        PROVE  g = 0 \/ (g = q /\ k = origin[q])
    <3>1. CASE <<k, g, q>> = <<i, h, e>>
      BY <3>1
    <3>2. CASE <<k, g, q>> # <<i, h, e>>
      <4>1. sent'[<<k, g, q>>] = sent[<<k, g, q>>]
        <5>1. <<k, g, q>> \in Identity \X RemoteID \X Req
          OBVIOUS
        <5> QED  BY <2>1, <3>2, <5>1 DEF Typed
      <4> QED  BY <2>2, <4>1 DEF ToSender
    <3> QED  BY <3>1, <3>2
  <2> QED  BY <2>2 DEF ToSender
<1> QED  BY <1>1, <1>2

\* Every step but RcvRequest leaves origin alone; Dispatch, ErrorAnswer and SendBack answer.
LEMMA ReceiveTraced ==
    ASSUME Typed, Bears, Traced, ToSender, NEW o \in Obj, Receive(o)
    PROVE  Traced' /\ ToSender'
<1>1. ASSUME NEW q \in Req, RcvRequest(o, q) PROVE Traced' /\ ToSender'
  <2>1. /\ origin[q] = None /\ origin' = [origin EXCEPT ![q] = IdOf[o]]
        /\ UNCHANGED <<hopByHopID, pending, prevHopByHop, sent>>
    BY <1>1, RcvRequestMoves DEF relayVars
  <2>2. \A r : origin[r] # None => origin'[r] = origin[r]
    BY <2>1 DEF Typed
  <2>3. PICK j : Moves(o, j) /\ j.pc \in {"dispatch", "refuse", "route"}
    BY <1>1, RcvRequestMoves
  <2>4. \A t \in Obj : job'[t] = job[t] \/ Inherits(t, job'[t])
    BY <2>3, MoveFacts DEF Inherits
  <2>5. Traced'
    BY <2>1, <2>2, <2>4, ShrinkTraced
  <2> QED  BY <2>1, <2>2, <2>5, SentKept
<1>2. ASSUME NEW m \in wire[o], RcvBounce(o, m) PROVE Traced' /\ ToSender'
  <2>1. UNCHANGED <<hopByHopID, pending, prevHopByHop, origin, sent>>
    BY <1>2, RcvBounceMoves DEF relayVars, histVars
  <2>2. PICK j : Moves(o, j) /\ j.pc \in {"dispatch", "refuse"}
    BY <1>2, RcvBounceMoves
  <2>3. Traced'
    BY <2>1, <2>2, InheritTraced DEF Inherits
  <2> QED  BY <2>1, <2>3, SentKept
<1>3. ASSUME NEW m \in wire[o], NEW e \in {m.e2e, 0}, RcvAnswer(o, m, e) PROVE Traced' /\ ToSender'
  <2>1. UNCHANGED <<hopByHopID, prevHopByHop, origin, sent>>
    BY <1>3, RcvAnswerMoves DEF histVars
  <2>2. PICK p \in pending[o] :
          /\ pending' = [pending EXCEPT ![o] = @ \ {p}]
          /\ \/ UNCHANGED job
             \/ \E j : Moves(o, j) /\ j.pc = "load" /\ j.e2e = p.e2e /\ j.hbh = p.hbh
    BY <1>3, RcvAnswerMoves
  <2>3. \A t \in Obj : pending'[t] \subseteq pending[t]
    BY <2>2 DEF Typed
  <2>4. CASE UNCHANGED job
    BY <2>1, <2>3, <2>4, ShrinkTraced, SentKept
  <2>5. CASE ~UNCHANGED job
    <3>1. PICK j : Moves(o, j) /\ j.pc = "load" /\ j.e2e = p.e2e /\ j.hbh = p.hbh
      BY <2>2, <2>5
    <3>2. Inherits(o, j)
      BY <3>1 DEF Inherits
    <3> QED  BY <2>1, <2>3, <3>1, <3>2, InheritTraced, SentKept
  <2> QED  BY <2>4, <2>5
<1> QED  BY <1>1, <1>2, <1>3 DEF Receive

\* This node answers the identity the request came in from.
LEMMA ReplyTraced ==
    ASSUME Typed, Bears, Traced, ToSender, NEW o \in Obj, Dispatch(o) \/ ErrorAnswer(o)
    PROVE  Traced' /\ ToSender'
<1>1. Moves(o, Idle) /\ UNCHANGED <<hopByHopID, pending, prevHopByHop, origin>>
  BY DispatchMoves, ErrorAnswerMoves DEF relayVars
<1>2. Traced'
  BY <1>1, InheritTraced, IdleIsGood DEF Inherits
<1>3. (job[o].kind = "req" /\ job[o].pc # "idle" /\ Replies(o)) \/ UNCHANGED sent
  BY DispatchMoves, ErrorAnswerMoves
<1>4. CASE UNCHANGED sent
  BY <1>1, <1>2, <1>4, SentKept
<1>5. CASE job[o].kind = "req" /\ job[o].pc # "idle" /\ Replies(o)
  <2>1. job[o].e2e \in Req /\ (job[o].hbh = 0 \/ job[o].hbh = job[o].e2e)
    BY <1>5, JobFacts DEF Shape
  <2>2. PICK q \in Req : q = job[o].e2e
    BY <2>1
  <2>3. job[o].hbh = q => origin[q] = IdOf[o]
    <3>1. OneBearer(q)
      BY DEF Bears
    <3> QED  BY <1>5, <2>2, <3>1 DEF First, OneBearer, FirstOnce
  <2>4. Answered(IdOf[o], job[o].hbh, q) \/ AnswerLost(q)
    BY <1>5, <2>2 DEF Replies
  <2> QED  BY <1>1, <1>2, <2>1, <2>2, <2>3, <2>4, SentRight
<1> QED  BY <1>3, <1>4, <1>5

\* Send, whether it succeeds or fails.
LEMMA SendTraced ==
    ASSUME OneObject, Typed, Bears, Traced, ToSender, NEW o \in Obj, SendOk(o) \/ SendErr(o)
    PROVE  Traced' /\ ToSender'
<1>1. ASSUME SendOk(o) PROVE Traced'
  BY <1>1, SendOkMoves, TrackTraced, IdleIsGood DEF histVars
<1>2. ASSUME SendErr(o) PROVE Traced'
  <2>1. UNCHANGED <<hopByHopID, prevHopByHop, origin>> /\ job[o].pc = "send"
    BY <1>2, SendErrMoves DEF histVars
  <2>2. PICK j : Moves(o, j) /\ j.pc = "undo" /\ j.next = job[o].next /\ j.new = job[o].new /\ j.hbh = job[o].hbh
    BY <1>2, SendErrMoves
  <2>3. CASE Track(o)
    BY <2>1, <2>2, <2>3, TrackTraced
  <2>4. CASE UNCHANGED pending
    <3>1. job'[o] = j /\ \A u \in Obj \ {o} : job'[u] = job[u]
      BY <2>2, MoveFacts
    <3>2. Sending(job[o]) /\ Sending(j)
      BY <2>1, <2>2 DEF Sending
    <3>3. Bounded'
      BY <2>1, <2>2, <2>4, <3>1, <3>2 DEF Traced, Bounded
    <3>4. Fresh'
      BY <2>1, <2>2, <2>4, <3>1, <3>2, HopNumbers DEF Traced, Fresh
    <3>5. Matched'
      BY <2>1, <2>2, <2>4, <3>1 DEF Traced, Matched, Leads
    <3> QED  BY <3>3, <3>4, <3>5 DEF Traced
  <2> QED  BY <1>2, <2>3, <2>4, SendErrMoves
<1>3. UNCHANGED <<origin, sent>>
  BY SendOkMoves, SendErrMoves DEF histVars
<1> QED  BY <1>1, <1>2, <1>3, SentKept

\* An answer is led back by its transaction.
LEMMA BackTraced ==
    ASSUME Typed, Bears, Traced, ToSender, NEW o \in Obj, LoadTxn(o) \/ SendBack(o)
    PROVE  Traced' /\ ToSender'
<1>1. ASSUME LoadTxn(o) PROVE Traced' /\ ToSender'
  <2>1. /\ UNCHANGED <<hopByHopID, pending, origin, sent>> /\ prevHopByHop' \subseteq prevHopByHop
        /\ job[o].pc = "load" /\ job[o].e2e \in Req /\ origin[job[o].e2e] # None
    BY <1>1, LoadTxnMoves, KnownOrigin DEF histVars
  <2>2. PICK j : /\ Moves(o, j) /\ j.e2e = job[o].e2e
                 /\ \/ j.pc = "route"
                    \/ /\ j.pc = "back"
                       /\ \E x \in prevHopByHop : /\ x.out = IdOf[o] /\ x.hbh = job[o].hbh
                                                  /\ j.hbh = x.back /\ j.orig = x.orig
    BY <1>1, LoadTxnMoves
  <2>3. Inherits(o, j)
    BY <2>1, <2>2 DEF Inherits, Traced, Matched, Leads
  <2> QED  BY <2>1, <2>2, <2>3, InheritTraced, SentKept
<1>2. ASSUME SendBack(o) PROVE Traced' /\ ToSender'
  <2>1. UNCHANGED <<hopByHopID, pending, prevHopByHop, origin>> /\ job[o].pc = "back" /\ job[o].orig \in Identity
    BY <1>2, SendBackMoves DEF relayVars
  <2>2. PICK q \in Req : q = job[o].e2e
    BY <1>2, SendBackMoves
  <2>3. PICK j : /\ Moves(o, j) /\ j.pc \in {"idle", "route"}
                 /\ \/ UNCHANGED sent
                    \/ Answered(job[o].orig, job[o].hbh, q) \/ AnswerLost(q)
    BY <1>2, <2>2, SendBackMoves
  <2>4. Traced'
    BY <2>1, <2>3, InheritTraced DEF Inherits
  <2>5. job[o].hbh = q /\ job[o].orig = origin[q]
    BY <2>1, <2>2 DEF Traced, Matched
  <2>6. ToSender'
    BY <2>1, <2>3, <2>5, SentKept, SentRight
  <2> QED  BY <2>4, <2>6
<1> QED  BY <1>1, <1>2

\* Every step keeps the invariant, as long as no identifier wraps.
LEMMA TracedStep ==
    ASSUME OneObject, NotWrapped, Typed, Bears, Traced, ToSender, [Next]_vars
    PROVE  Traced' /\ ToSender'
<1>1. ASSUME UNCHANGED <<hopByHopID, origin, sent, job>>, prevHopByHop' \subseteq prevHopByHop,
             \A t \in Obj : pending'[t] \subseteq pending[t]
      PROVE  Traced' /\ ToSender'
  BY <1>1, ShrinkTraced, SentKept
<1>2. CASE UNCHANGED vars
  BY <1>1, <1>2 DEF vars, relayVars, histVars
<1>3. ASSUME NEW x, ExpireTxn(x) PROVE Traced' /\ ToSender'
  BY <1>1, <1>3, ExpireTyped DEF histVars
<1>4. ASSUME NEW o \in Obj, Open(o) \/ Close(o) PROVE Traced' /\ ToSender'
  BY <1>1, <1>4, OpenTyped, CloseTyped DEF relayVars, histVars
<1>5. ASSUME NEW o \in Obj, Receive(o) PROVE Traced' /\ ToSender'
  BY <1>5, ReceiveTraced
<1>6. ASSUME NEW o \in Obj, RouteIn(o) PROVE Traced' /\ ToSender'
  <2>1. ASSUME At(o, "route"), NEW n \in Choice(o), SkipHop(o, n) PROVE Traced' /\ ToSender'
    <3>1. UNCHANGED <<hopByHopID, pending, prevHopByHop, origin, sent>>
      BY <2>1, SkipHopMoves DEF relayVars, histVars
    <3>2. PICK j : Moves(o, j) /\ j.pc = "route"
      BY <2>1, SkipHopMoves
    <3> QED  BY <3>1, <3>2, InheritTraced, SentKept DEF Inherits
  <2>2. ASSUME At(o, "route"), NEW n \in Choice(o), TakeHop(o, n) PROVE Traced' /\ ToSender'
    <3>1. UNCHANGED <<origin, sent>>
      BY <2>2, TakeHopMoves DEF histVars
    <3> QED  BY <2>2, <3>1, TakeHopTraced, SentKept
  <2>3. ASSUME StoreTxn(o) PROVE Traced' /\ ToSender'
    <3>1. UNCHANGED <<origin, sent>>
      BY <2>3, StoreTxnMoves DEF histVars
    <3> QED  BY <2>3, <3>1, StoreTxnTraced, SentKept
  <2>4. ASSUME UndoTxn(o) PROVE Traced' /\ ToSender'
    <3>1. UNCHANGED <<hopByHopID, pending, origin, sent>> /\ prevHopByHop' \subseteq prevHopByHop
      BY <2>4, UndoTxnMoves DEF histVars
    <3>2. PICK j : Moves(o, j) /\ j.pc = "route"
      BY <2>4, UndoTxnMoves
    <3> QED  BY <3>1, <3>2, InheritTraced, SentKept DEF Inherits
  <2> QED  BY <1>6, <2>1, <2>2, <2>3, <2>4, ReplyTraced, SendTraced, BackTraced DEF RouteIn
<1> QED  BY <1>2, <1>3, <1>4, <1>5, <1>6 DEF Next

-----------------------------------------------------------------------------
(* An answer strays only when its way back was cut.                        *)

\* The sender of a request whose way back is not cut is in the table.
Tabled ==
    /\ \A o \in Obj : open[o] => peers[IdOf[o]] = o
    /\ \A q \in Req : origin[q] # None /\ q \notin severed => peers[origin[q]] # None

\* No two requests share an identifier of one connection, on the wire or pending.
Apart ==
    \A o \in Obj :
        /\ \A p \in wire[o] : p.hbh <= hopByHopID[o]
        /\ \A p, r \in pending[o] : p.hbh = r.hbh => p = r
        /\ job[o].pc = "load" => \A p \in pending[o] : p.hbh # job[o].hbh
        /\ Sending(job[o]) =>
              /\ \A p \in wire[job[o].next] : p.hbh # job[o].new
              /\ job[job[o].next].pc = "load" => job[job[o].next].hbh # job[o].new

\* There is a transaction for identifier h of object t.
WayBack(t, h) == \E x \in prevHopByHop : x.out = IdOf[t] /\ x.hbh = h

\* An answer that is routed like a request.
Astray(j) == j.kind = "ans" /\ j.pc \in {"refuse", "route", "store", "send", "undo"}

\* From Send until its answer is looked up a request has a transaction, or its way back was cut.
Ways ==
    \A o \in Obj :
        /\ \A p \in pending[o] \cap wire[o] : p.e2e \in severed \/ WayBack(o, p.hbh)
        /\ job[o].pc = "load" => job[o].e2e \in severed \/ WayBack(o, job[o].hbh)
        /\ job[o].pc = "send" /\ job[o].kind = "req" =>
              job[o].e2e \in severed \/ WayBack(job[o].next, job[o].new)
        /\ Astray(job[o]) => job[o].e2e \in severed

\* The inductive invariant of the second part of AnswerToOrigin, beside Traced.
Guided == Tabled /\ Apart /\ Ways /\ strayed \subseteq severed

\* Nobody needs transaction x any more.
Spared(x) ==
    \A o \in Obj :
        /\ x.out = IdOf[o] =>
              /\ \A p \in pending'[o] \cap wire'[o] : p.hbh = x.hbh => p.e2e \in severed'
              /\ job'[o].pc = "load" /\ job'[o].hbh = x.hbh => job'[o].e2e \in severed'
        /\ job'[o].pc = "send" /\ job'[o].kind = "req" /\ x.out = IdOf[job'[o].next] /\ x.hbh = job'[o].new =>
              job'[o].e2e \in severed'

\* What the goroutine of o claims when it goes on with j holds.
Follows(o, j) ==
    /\ j.pc = "load" => \E p \in pending[o] \cap wire[o] : p.hbh = j.hbh /\ p.e2e = j.e2e
    /\ j.pc = "send" /\ j.kind = "req" =>
          j.e2e \in severed' \/ \E x \in prevHopByHop' : x.out = IdOf[j.next] /\ x.hbh = j.new
    /\ Astray(j) => j.e2e \in severed'

\* A step that deletes no transaction somebody needs keeps the ways back.
LEMMA WaysStep ==
    ASSUME Typed, Ways, severed \subseteq severed',
           \A o \in Obj : \A p \in pending'[o] \cap wire'[o] :
              \/ p \in pending[o] \cap wire[o] \/ p.e2e \in severed'
              \/ \E x \in prevHopByHop' : x.out = IdOf[o] /\ x.hbh = p.hbh,
           \A x \in prevHopByHop \ prevHopByHop' : Spared(x),
           \A o \in Obj : job'[o] = job[o] \/ Follows(o, job'[o])
    PROVE  Ways'
<1> SUFFICES ASSUME NEW o \in Obj
             PROVE  /\ \A p \in pending'[o] \cap wire'[o] : p.e2e \in severed' \/ WayBack(o, p.hbh)'
                    /\ job'[o].pc = "load" => job'[o].e2e \in severed' \/ WayBack(o, job[o].hbh)'
                    /\ job'[o].pc = "send" /\ job'[o].kind = "req" =>
                          job'[o].e2e \in severed' \/ WayBack(job[o].next, job[o].new)'
                    /\ Astray(job'[o]) => job'[o].e2e \in severed'
  BY DEF Ways, Astray
<1>1. ASSUME NEW p \in pending'[o] \cap wire'[o] PROVE p.e2e \in severed' \/ WayBack(o, p.hbh)'
  BY <1>1 DEF Ways, WayBack, Spared
<1>2. ASSUME job'[o].pc = "load" PROVE job'[o].e2e \in severed' \/ WayBack(o, job[o].hbh)'
  BY <1>2 DEF Ways, WayBack, Spared, Follows
<1>3. ASSUME job'[o].pc = "send", job'[o].kind = "req"
      PROVE  job'[o].e2e \in severed' \/ WayBack(job[o].next, job[o].new)'
  BY <1>3 DEF Ways, WayBack, Spared, Follows
<1>4. Astray(job'[o]) => job'[o].e2e \in severed'
  BY DEF Ways, Follows
<1> QED  BY <1>1, <1>2, <1>3, <1>4

\* A job that takes no new identifier.
Takes(o, j) ==
    \/ j.pc \in {"idle", "dispatch", "refuse", "route", "back"}
    \/ Sending(j) /\ Sending(job[o]) /\ j.next = job[o].next /\ j.new = job[o].new
    \/ /\ j.pc = "load"
       /\ \E p \in (pending[o] \cap wire[o]) \ pending'[o] : p.hbh = j.hbh

\* Steps that give out no identifier and put nothing on a connection.
LEMMA ApartShrink ==
    ASSUME Typed, Apart, UNCHANGED hopByHopID,
           \A o \in Obj : pending'[o] \subseteq pending[o] /\ wire'[o] \subseteq wire[o],
           \A o \in Obj : job'[o] = job[o] \/ Takes(o, job'[o])
    PROVE  Apart'
<1> SUFFICES ASSUME NEW o \in Obj
             PROVE  /\ \A p \in wire'[o] : p.hbh <= hopByHopID[o]
                    /\ \A p, r \in pending'[o] : p.hbh = r.hbh => p = r
                    /\ job'[o].pc = "load" => \A p \in pending'[o] : p.hbh # job'[o].hbh
                    /\ Sending(job'[o]) =>
                          /\ \A p \in wire'[job'[o].next] : p.hbh # job'[o].new
                          /\ job'[job'[o].next].pc = "load" => job'[job'[o].next].hbh # job'[o].new
  BY DEF Apart, Sending
<1>1. /\ \A p \in wire'[o] : p.hbh <= hopByHopID[o]
      /\ \A p, r \in pending'[o] : p.hbh = r.hbh => p = r
  BY DEF Apart
<1>2. ASSUME job'[o].pc = "load" PROVE \A p \in pending'[o] : p.hbh # job'[o].hbh
  BY <1>2 DEF Apart, Takes, Sending
<1>3. ASSUME Sending(job'[o])
      PROVE  /\ \A p \in wire'[job'[o].next] : p.hbh # job'[o].new
             /\ job'[job'[o].next].pc = "load" => job'[job'[o].next].hbh # job'[o].new
  <2>1. Sending(job[o]) /\ job'[o].next = job[o].next /\ job'[o].new = job[o].new
    BY <1>3 DEF Takes, Sending
  <2>2. PICK t \in Obj : t = job[o].next
    BY <2>1, HopNumbers
  <2>3. (\A p \in wire[t] : p.hbh # job[o].new) /\ (job[t].pc = "load" => job[t].hbh # job[o].new)
    BY <2>1, <2>2 DEF Apart
  <2>4. job'[t].pc = "load" => job'[t].hbh # job[o].new
    BY <2>3 DEF Takes, Sending
  <2> QED  BY <2>1, <2>2, <2>3, <2>4
<1> QED  BY <1>1, <1>2, <1>3

\* The next identifier of an object is above every one on its wire.
LEMMA TakeHopApart ==
    ASSUME Typed, Bears, Traced, Apart, NotWrapped, NEW o \in Obj, NEW n \in Choice(o),
           At(o, "route"), TakeHop(o, n)
    PROVE  Apart'
<1>1. UNCHANGED <<pending, wire>> /\ job[o].pc = "route"
  BY TakeHopMoves
<1>2. PICK j, to : /\ to \in Obj /\ Moves(o, j) /\ j.pc = "store" /\ j.next = to
                   /\ j.new = (hopByHopID[to] + 1) % IDSpace
                   /\ hopByHopID' = [hopByHopID EXCEPT ![to] = j.new]
  BY TakeHopMoves
<1>3. job'[o] = j /\ \A u \in Obj \ {o} : job'[u] = job[u]
  BY <1>2, MoveFacts
<1>4. hopByHopID[to] \in Nat /\ j.new = hopByHopID[to] + 1
  <2>1. hopByHopID[to] \in Nat /\ hopByHopID[to] + 1 < IDSpace
    BY <1>2, HopNumbers DEF NotWrapped
  <2> QED  BY <1>2, <2>1
<1>5. hopByHopID'[to] = j.new /\ \A t \in Obj \ {to} : hopByHopID'[t] = hopByHopID[t]
  BY <1>2 DEF Typed
<1>6. \A t \in Obj : \A p \in wire[t] : p.hbh \in Nat
  <2>1. \A t \in Obj : wire[t] \in SUBSET Pair
    BY DEF Typed
  <2> QED  BY <2>1, HopFacts DEF Pair
<1>7. \A t \in Obj : \A p \in wire[t] : p.hbh <= hopByHopID'[t]
  BY <1>4, <1>5, <1>6, HopNumbers DEF Apart
<1>8. \A p \in wire[to] : p.hbh # j.new
  BY <1>2, <1>4, <1>6 DEF Apart
<1>9. job'[to].pc = "load" => job'[to].hbh # j.new
  BY <1>2, <1>3, <1>4, HopNumbers DEF Traced, Bounded
<1>10. ASSUME NEW u \in Obj, u # o, Sending(job[u])
       PROVE  /\ \A p \in wire[job[u].next] : p.hbh # job[u].new
              /\ job'[job[u].next].pc = "load" => job'[job[u].next].hbh # job[u].new
  <2>1. job[u].next \in Obj
    BY <1>10, HopNumbers
  <2> QED  BY <1>2, <1>3, <1>10, <2>1 DEF Apart
<1>11. \A u \in Obj : job'[u].pc = "load" => job'[u] = job[u]
  BY <1>2, <1>3
<1> QED  BY <1>1, <1>2, <1>3, <1>7, <1>8, <1>9, <1>10, <1>11 DEF Apart

\* Send puts a request among the pending ones, and on the connection when it succeeds.
LEMMA TrackApart ==
    ASSUME OneObject, Typed, Traced, Apart, NEW o \in Obj, job[o].pc = "send", Track(o),
           NEW j, Moves(o, j), j.pc = "idle" \/ (j.pc = "undo" /\ j.next = job[o].next /\ j.new = job[o].new),
           UNCHANGED hopByHopID,
           \A t \in Obj : \A p \in wire'[t] :
              p \in wire[t] \/ (t = job[o].next /\ p.hbh = job[o].new /\ j.pc = "idle")
    PROVE  Apart'
<1>1. job'[o] = j /\ \A u \in Obj \ {o} : job'[u] = job[u]
  BY MoveFacts
<1>2. Sending(job[o])
  BY DEF Sending
<1>3. PICK to \in Obj : to = job[o].next
  BY <1>2, HopNumbers
<1>4. \A t \in Obj : \A p \in pending'[t] :
         p \in pending[t] \/ (t = to /\ p = [hbh |-> job[o].new, e2e |-> job[o].e2e])
  BY <1>3, TrackFacts
<1>5. /\ \A p \in pending[to] : p.hbh # job[o].new
      /\ job[to].pc = "load" => job[to].hbh # job[o].new
      /\ \A u \in Obj \ {o} : Sending(job[u]) /\ job[u].next = to => job[u].new # job[o].new
  BY <1>2, <1>3 DEF Traced, Fresh
<1>6. job[o].new <= hopByHopID[to]
  BY <1>2, <1>3 DEF Traced, Bounded
<1>7. \A u \in Obj : job'[u].pc = "load" => u # o /\ job'[u] = job[u]
  BY <1>1
<1>8. ASSUME NEW t \in Obj
      PROVE  /\ \A p \in wire'[t] : p.hbh <= hopByHopID[t]
             /\ \A p, r \in pending'[t] : p.hbh = r.hbh => p = r
             /\ job'[t].pc = "load" => \A p \in pending'[t] : p.hbh # job'[t].hbh
  <2>1. \A p \in wire'[t] : p.hbh <= hopByHopID[t]
    BY <1>3, <1>6 DEF Apart
  <2>2. \A p, r \in pending'[t] : p.hbh = r.hbh => p = r
    BY <1>4, <1>5 DEF Apart
  <2>3. job'[t].pc = "load" => \A p \in pending'[t] : p.hbh # job'[t].hbh
    BY <1>4, <1>5, <1>7 DEF Apart
  <2> QED  BY <2>1, <2>2, <2>3
<1>9. ASSUME NEW u \in Obj, Sending(job'[u])
      PROVE  /\ \A p \in wire'[job'[u].next] : p.hbh # job'[u].new
             /\ job'[job'[u].next].pc = "load" => job'[job'[u].next].hbh # job'[u].new
  <2>1. Sending(job[u]) /\ job'[u].next = job[u].next /\ job'[u].new = job[u].new /\ (u = o => j.pc # "idle")
    BY <1>1, <1>2, <1>9 DEF Sending
  <2>2. PICK t \in Obj : t = job[u].next
    BY <2>1, HopNumbers
  <2>3. (\A p \in wire[t] : p.hbh # job[u].new) /\ (job[t].pc = "load" => job[t].hbh # job[u].new)
    BY <2>1, <2>2 DEF Apart
  <2>4. \A p \in wire'[t] : p.hbh # job[u].new
    BY <1>3, <1>5, <2>1, <2>2, <2>3
  <2>5. job'[t].pc = "load" => job'[t].hbh # job[u].new
    BY <1>7, <2>3
  <2> QED  BY <2>1, <2>2, <2>4, <2>5
<1> QED  BY <1>8, <1>9 DEF Apart, Sending

\* Steps that neither open nor close a connection nor receive a request.
LEMMA TabledKept ==
    ASSUME Tabled, UNCHANGED <<open, peers, origin>>, severed \subseteq severed' PROVE Tabled'
  BY DEF Tabled

\* A connection opens or closes.
LEMMA OpenCloseGuided ==
    ASSUME OneObject, Typed, Guided, NEW o \in Obj, Open(o) \/ Close(o) PROVE Guided'
<1>1. /\ UNCHANGED <<hopByHopID, prevHopByHop, origin, job, strayed>> /\ severed \subseteq severed'
      /\ \A t \in Obj : pending'[t] \subseteq pending[t] /\ wire'[t] \subseteq wire[t]
  <2>1. UNCHANGED strayed /\ severed \subseteq severed'
    BY DEF Open, Close, strayVars
  <2> QED  BY <2>1, OpenTyped, CloseTyped DEF relayVars, histVars
<1>2. Apart'
  BY <1>1, ApartShrink DEF Guided
<1>3. Ways'
  BY <1>1, WaysStep DEF Guided
<1>4. ASSUME Open(o) PROVE Tabled'
  <2>1. /\ open' = [open EXCEPT ![o] = TRUE] /\ peers' = [peers EXCEPT ![IdOf[o]] = o]
        /\ UNCHANGED severed
    BY <1>4 DEF Open, strayVars
  <2>2. \A t \in Obj : open'[t] => peers'[IdOf[t]] = t
    BY <2>1 DEF Guided, Tabled, Typed, OneObject
  <2>3. \A i \in Identity : peers[i] # None => peers'[i] # None
    BY <2>1 DEF Typed
  <2> QED  BY <1>1, <2>1, <2>2, <2>3 DEF Guided, Tabled, Typed
<1>5. ASSUME Close(o) PROVE Tabled'
  <2>1. /\ open' = [open EXCEPT ![o] = FALSE] /\ peers' = [peers EXCEPT ![IdOf[o]] = None]
        /\ severed' = severed \cup {q \in Req : origin[q] = IdOf[o]}
    BY <1>5 DEF Close
  <2>2. \A t \in Obj : open'[t] => peers'[IdOf[t]] = t
    BY <2>1 DEF Guided, Tabled, Typed, OneObject
  <2>3. \A i \in Identity \ {IdOf[o]} : peers'[i] = peers[i]
    BY <2>1 DEF Typed
  <2> QED  BY <1>1, <2>1, <2>2, <2>3 DEF Guided, Tabled, Typed
<1> QED  BY <1>1, <1>2, <1>3, <1>4, <1>5 DEF Guided

\* A transaction expires: the way back of its request is cut.
LEMMA ExpireGuided ==
    ASSUME OneObject, Typed, Bears, Traced, Guided, NEW x, ExpireTxn(x) PROVE Guided'
<1>1. /\ UNCHANGED <<hopByHopID, pending, wire, origin, job>>
      /\ UNCHANGED <<open, peers, strayed>>
      /\ prevHopByHop' = prevHopByHop \ {x} /\ x \in prevHopByHop
      /\ severed' = severed \cup {q \in Req : Leads(x, q)}
  BY DEF ExpireTxn, histVars, peerVars
<1>2. Apart'
  BY <1>1, ApartShrink DEF Guided
<1>3. Spared(x)
  <2>1. ASSUME NEW o \in Obj, x.out = IdOf[o]
        PROVE  /\ \A p \in pending[o] : p.hbh = x.hbh => Leads(x, p.e2e) /\ p.e2e \in Req
               /\ job[o].pc = "load" /\ job[o].hbh = x.hbh => Leads(x, job[o].e2e) /\ job[o].e2e \in Req
    BY <1>1, <2>1, HopNumbers, KnownOrigin DEF Traced, Matched
  <2>2. ASSUME NEW o \in Obj, job[o].pc = "send", job[o].kind = "req",
               x.out = IdOf[job[o].next], x.hbh = job[o].new
        PROVE  Leads(x, job[o].e2e) /\ job[o].e2e \in Req
    BY <1>1, <2>2, SendingFacts DEF Traced, Fresh, Sending, Leads
  <2> QED  BY <1>1, <2>1, <2>2 DEF Spared
<1>4. Ways'
  BY <1>1, <1>3, WaysStep DEF Guided
<1>5. Tabled'
  BY <1>1, TabledKept DEF Guided
<1> QED  BY <1>1, <1>2, <1>4, <1>5 DEF Guided

\* Steps of one goroutine that leave connections and transactions alone.
LEMMA MoveGuided ==
    ASSUME Typed, Guided, NEW o \in Obj, NEW j, Moves(o, j), Follows(o, j), Takes(o, j),
           UNCHANGED <<hopByHopID, wire, prevHopByHop>>, UNCHANGED <<open, peers, origin, severed>>,
           \A t \in Obj : pending'[t] \subseteq pending[t], strayed' \subseteq severed
    PROVE  Guided'
<1>1. job'[o] = j /\ \A u \in Obj \ {o} : job'[u] = job[u]
  BY MoveFacts
<1>2. Apart'
  BY <1>1, ApartShrink DEF Guided
<1>3. Ways'
  BY <1>1, WaysStep DEF Guided
<1>4. Tabled'
  BY TabledKept DEF Guided
<1> QED  BY <1>2, <1>3, <1>4 DEF Guided

\* A message is received; the answer takes over the way back of the pending request.
LEMMA ReceiveGuided ==
    ASSUME Typed, Bears, Guided, NEW o \in Obj, Receive(o) PROVE Guided'
<1>1. ASSUME NEW q \in Req, RcvRequest(o, q) PROVE Guided'
  <2>1. /\ origin[q] = None /\ origin' = [origin EXCEPT ![q] = IdOf[o]] /\ open[o]
        /\ UNCHANGED <<hopByHopID, pending, wire, prevHopByHop>>
        /\ UNCHANGED <<open, peers, severed, strayed>>
    BY <1>1 DEF RcvRequest, Up, peerVars, relayVars, strayVars
  <2>2. PICK j : /\ Moves(o, j) /\ j.pc \in {"dispatch", "refuse", "route"} /\ j.kind = "req"
                 /\ j.e2e = q /\ j.hbh = q
                 /\ j.pc = "dispatch" => IsLocal([Dest[q] EXCEPT !.host = DropDestHost(q)])
    BY <1>1, RcvRequestMoves
  <2>3. job'[o] = j /\ \A u \in Obj \ {o} : job'[u] = job[u]
    BY <2>2, MoveFacts
  <2>4. Apart'
    BY <2>1, <2>2, <2>3, ApartShrink DEF Guided, Takes
  <2>5. Ways'
    BY <2>1, <2>2, <2>3, WaysStep DEF Guided, Follows, Astray
  <2>6. peers[IdOf[o]] # None
    BY <2>1 DEF Guided, Tabled
  <2>7. Tabled'
    BY <2>1, <2>6 DEF Guided, Tabled, Typed
  <2> QED  BY <2>1, <2>4, <2>5, <2>7 DEF Guided
<1>2. ASSUME NEW m \in wire[o], RcvBounce(o, m) PROVE Guided'
  <2>1. /\ UNCHANGED <<hopByHopID, pending, wire, prevHopByHop>>
        /\ UNCHANGED <<open, peers, origin, severed, strayed>>
    BY <1>2 DEF RcvBounce, peerVars, relayVars, histVars, strayVars
  <2>2. PICK j : Moves(o, j) /\ j.pc \in {"dispatch", "refuse"} /\ j.kind = "req"
    BY <1>2, RcvBounceMoves
  <2> QED  BY <2>1, <2>2, MoveGuided DEF Follows, Takes, Astray, Guided
<1>3. ASSUME NEW m \in wire[o], NEW e \in {m.e2e, 0}, RcvAnswer(o, m, e) PROVE Guided'
  <2>1. /\ UNCHANGED <<hopByHopID, wire, prevHopByHop>>
        /\ UNCHANGED <<open, peers, origin, severed, strayed>>
    BY <1>3 DEF RcvAnswer, peerVars, histVars, strayVars
  <2>2. PICK p \in pending[o] :
          /\ p.hbh = m.hbh /\ pending' = [pending EXCEPT ![o] = @ \ {p}]
          /\ \/ UNCHANGED job
             \/ \E j : /\ Moves(o, j) /\ j.pc = "load" /\ j.kind = "ans"
                       /\ j.e2e = e /\ j.e2e = p.e2e /\ j.hbh = p.hbh
    BY <1>3, RcvAnswerMoves
  <2>3. (\A t \in Obj : pending'[t] \subseteq pending[t]) /\ p \notin pending'[o]
    BY <2>2 DEF Typed
  <2>4. CASE UNCHANGED job
    <3>1. Apart'
      BY <2>1, <2>3, <2>4, ApartShrink DEF Guided
    <3>2. Ways'
      BY <2>1, <2>3, <2>4, WaysStep DEF Guided
    <3> QED  BY <2>1, <3>1, <3>2, TabledKept DEF Guided
  <2>5. CASE ~UNCHANGED job
    <3>1. PICK j : /\ Moves(o, j) /\ j.pc = "load" /\ j.kind = "ans"
                   /\ j.e2e = e /\ j.e2e = p.e2e /\ j.hbh = p.hbh
      BY <2>2, <2>5
    <3>2. p \in Pair /\ m \in Pair /\ 0 \notin Req
      BY DEF Typed
    <3>3. p = m
      BY <2>2, <3>1, <3>2 DEF Pair
    <3>4. Follows(o, j) /\ Takes(o, j)
      BY <2>3, <3>1, <3>3 DEF Follows, Takes, Astray
    <3> QED  BY <2>1, <2>3, <3>1, <3>4, MoveGuided DEF Guided
  <2> QED  BY <2>4, <2>5
<1> QED  BY <1>1, <1>2, <1>3 DEF Receive

\* The routing ends with an answer of this node, or goes on to another hop.
LEMMA RouteGuided ==
    ASSUME Typed, Bears, Traced, Guided, NEW o \in Obj,
           \/ Dispatch(o) \/ ErrorAnswer(o) \/ SendBack(o)
           \/ At(o, "route") /\ \E n \in Choice(o) : SkipHop(o, n)
    PROVE  Guided'
<1>1. /\ UNCHANGED <<hopByHopID, pending, wire, prevHopByHop>>
      /\ UNCHANGED <<open, peers, origin, severed>>
  BY DEF Dispatch, ErrorAnswer, SendBack, SkipHop, peerVars, relayVars, histVars, strayVars
<1>2. ASSUME Dispatch(o) PROVE Guided'
  <2>1. Moves(o, Idle) /\ UNCHANGED strayed
    BY <1>2, DispatchMoves DEF Dispatch, strayVars
  <2> QED  BY <1>1, <2>1, MoveGuided, IdleIsGood DEF Follows, Takes, Astray, Guided
<1>3. ASSUME ErrorAnswer(o) PROVE Guided'
  <2>1. /\ Moves(o, Idle) /\ job[o].pc \in {"refuse", "route"}
        /\ strayed' = strayed \/ (strayed' = strayed \cup {job[o].e2e} /\ job[o].kind = "ans")
    BY <1>3, ErrorAnswerMoves DEF ErrorAnswer, Strays
  <2>2. strayed' \subseteq severed
    BY <2>1 DEF Guided, Ways, Astray
  <2> QED  BY <1>1, <2>1, <2>2, MoveGuided, IdleIsGood DEF Follows, Takes, Astray
<1>4. ASSUME At(o, "route"), NEW n \in Choice(o), SkipHop(o, n) PROVE Guided'
  <2>1. UNCHANGED strayed /\ job[o].pc = "route"
    BY <1>4 DEF SkipHop, strayVars, At
  <2>2. PICK j : Moves(o, j) /\ j.pc = "route" /\ j.kind = job[o].kind /\ j.e2e = job[o].e2e
    BY <1>4, SkipHopMoves
  <2>3. Follows(o, j) /\ Takes(o, j)
    BY <1>1, <2>1, <2>2 DEF Follows, Takes, Astray, Guided, Ways
  <2> QED  BY <1>1, <2>1, <2>2, <2>3, MoveGuided DEF Guided
<1>5. ASSUME SendBack(o) PROVE Guided'
  <2>1. UNCHANGED strayed /\ job[o].pc = "back" /\ job[o].orig \in Identity /\ job[o] \in Job
    BY <1>5, SendBackMoves, JobFacts DEF SendBack, strayVars
  <2>2. PICK q \in Req : q = job[o].e2e
    BY <1>5, SendBackMoves
  <2>3. job[o].orig = origin[q] /\ origin[q] # None
    BY <1>5, <2>1, <2>2, KnownOrigin DEF Traced, Matched
  <2>4. CASE peers[job[o].orig] # None
    <3>1. Moves(o, Idle)
      BY <1>5, <2>4, DoneGood DEF SendBack
    <3> QED  BY <1>1, <2>1, <3>1, MoveGuided, IdleIsGood DEF Follows, Takes, Astray, Guided
  <2>5. CASE peers[job[o].orig] = None
    <3>1. q \in severed
      BY <2>3, <2>5 DEF Guided, Tabled
    <3>2. job' = [job EXCEPT ![o].pc = Entry(AnswerDest, FALSE)]
      BY <1>5, <2>5 DEF SendBack, Goto
    <3>3. PICK j : Moves(o, j) /\ j.pc \in {"idle", "route"}
      BY <1>5, SendBackMoves
    <3>4. j = job'[o] /\ j.e2e = q
      <4>1. job'[o] = [job[o] EXCEPT !.pc = Entry(AnswerDest, FALSE)]
        BY <3>2 DEF Typed
      <4>2. job'[o] = j
        BY <3>3, MoveFacts
      <4> QED  BY <2>1, <2>2, <4>1, <4>2 DEF Job
    <3>5. Follows(o, j) /\ Takes(o, j)
      BY <1>1, <3>1, <3>3, <3>4 DEF Follows, Takes, Astray
    <3> QED  BY <1>1, <2>1, <3>3, <3>5, MoveGuided DEF Guided
  <2> QED  BY <2>4, <2>5
<1> QED  BY <1>2, <1>3, <1>4, <1>5

\* A hop is taken, with an identifier nobody else has.
LEMMA TakeHopGuided ==
    ASSUME NotWrapped, Typed, Bears, Traced, Guided, NEW o \in Obj, NEW n \in Choice(o),
           At(o, "route"), TakeHop(o, n)
    PROVE  Guided'
<1>1. /\ UNCHANGED <<pending, wire, prevHopByHop>> /\ job[o].pc = "route"
      /\ UNCHANGED <<open, peers, origin, severed, strayed>>
  BY DEF TakeHop, At, peerVars, histVars, strayVars
<1>2. PICK j : Moves(o, j) /\ j.pc = "store" /\ j.kind = job[o].kind /\ j.e2e = job[o].e2e
  BY TakeHopMoves
<1>3. job'[o] = j /\ \A u \in Obj \ {o} : job'[u] = job[u]
  BY <1>2, MoveFacts
<1>4. Follows(o, j)
  BY <1>1, <1>2 DEF Follows, Astray, Guided, Ways
<1>5. Ways'
  BY <1>1, <1>3, <1>4, WaysStep DEF Guided
<1>6. Apart'
  BY TakeHopApart DEF Guided
<1> QED  BY <1>1, <1>5, <1>6, TabledKept DEF Guided

\* The transaction a hop is given replaces none that somebody needs, nor does deleting it again
\* take one away.
LEMMA TxnGuided ==
    ASSUME OneObject, Typed, Bears, Traced, Guided, NEW o \in Obj, StoreTxn(o) \/ UndoTxn(o)
    PROVE  Guided'
<1>1. /\ UNCHANGED <<hopByHopID, pending, wire>> /\ Sending(job[o])
      /\ UNCHANGED <<open, peers, origin, severed, strayed>>
  BY DEF StoreTxn, UndoTxn, At, Sending, peerVars, histVars, strayVars
<1>2. PICK to \in Obj : to = job[o].next
  BY <1>1, HopNumbers
<1>3. PICK j : /\ Moves(o, j) /\ j.kind = job[o].kind /\ j.e2e = job[o].e2e
               /\ \/ j.pc = "route" /\ UndoTxn(o)
                  \/ j.pc = "send" /\ StoreTxn(o) /\ j.next = to /\ j.new = job[o].new
  BY <1>2, StoreTxnMoves, UndoTxnMoves
<1>4. job'[o] = j /\ \A u \in Obj \ {o} : job'[u] = job[u]
  BY <1>3, MoveFacts
<1>5. Astray(j) => Astray(job[o])
  BY <1>1, <1>3 DEF Astray, Sending
<1>6. StoreTxn(o) => \E x \in prevHopByHop' : x.out = IdOf[to] /\ x.hbh = job[o].new
  <2>1. ASSUME StoreTxn(o) PROVE \E x \in prevHopByHop' : x.out = IdOf[to] /\ x.hbh = job[o].new
    <3>1. PICK x0 : /\ x0 = [out |-> IdOf[to], hbh |-> job[o].new, orig |-> IdOf[o], back |-> job[o].hbh]
                    /\ prevHopByHop' = Without(Key(o)) \cup {x0}
      BY <1>2, <2>1, StoreTxnMoves
    <3>2. x0.out = IdOf[to] /\ x0.hbh = job[o].new /\ x0 \in prevHopByHop'
      BY <3>1
    <3> QED  BY <3>2
  <2> QED  BY <2>1
<1>7. Follows(o, j)
  BY <1>1, <1>3, <1>5, <1>6 DEF Follows, Astray, Guided, Ways
<1>8. ASSUME NEW x \in prevHopByHop \ prevHopByHop' PROVE Spared(x)
  <2>1. x.out = IdOf[to] /\ x.hbh = job[o].new
    <3>1. Without(Key(o)) \subseteq prevHopByHop'
      BY DEF StoreTxn, UndoTxn
    <3> QED  BY <1>2, <3>1 DEF Without, Key
  <2>2. \A t \in Obj : x.out = IdOf[t] => t = to
    BY <2>1 DEF OneObject
  <2>3. /\ \A p \in wire[to] : p.hbh # x.hbh
        /\ job[to].pc = "load" => job[to].hbh # x.hbh
    BY <1>1, <1>2, <2>1 DEF Guided, Apart
  <2>4. job'[to].pc = "load" => job'[to] = job[to]
    BY <1>3, <1>4
  <2>5. ASSUME NEW u \in Obj, job'[u].pc = "send", x.out = IdOf[job'[u].next], x.hbh = job'[u].new
        PROVE  FALSE
    <3>1. CASE u = o
      <4>1. StoreTxn(o)
        BY <1>3, <1>4, <2>5, <3>1
      <4>2. job[o].pc = "store"
        BY <4>1, StoreTxnMoves
      <4> QED  BY <1>1, <1>2, <2>1, <4>2 DEF Traced, Fresh
    <3>2. CASE u # o
      <4>1. job'[u] = job[u] /\ Sending(job[u]) /\ job[u].next \in Obj
        BY <1>4, <2>5, <3>2, HopNumbers DEF Sending
      <4>2. job[u].next = job[o].next /\ job[u].new = job[o].new
        BY <1>2, <2>1, <2>2, <2>5, <4>1
      <4> QED  BY <1>1, <3>2, <4>1, <4>2 DEF Traced, Fresh
    <3> QED  BY <3>1, <3>2
  <2> QED  BY <1>1, <2>2, <2>3, <2>4, <2>5 DEF Spared
<1>9. Ways'
  BY <1>1, <1>4, <1>7, <1>8, WaysStep DEF Guided
<1>10. Takes(o, j)
  BY <1>1, <1>2, <1>3 DEF Takes, Sending
<1>11. Apart'
  BY <1>1, <1>4, <1>10, ApartShrink DEF Guided
<1> QED  BY <1>1, <1>9, <1>11, TabledKept DEF Guided

\* Send takes the transaction's way over to the pending request; an answer has strayed.
LEMMA SendGuided ==
    ASSUME OneObject, Typed, Bears, Traced, Guided, NEW o \in Obj, SendOk(o) \/ SendErr(o)
    PROVE  Guided'
<1>1. /\ UNCHANGED <<hopByHopID, prevHopByHop>> /\ job[o].pc = "send" /\ Sending(job[o])
      /\ UNCHANGED <<open, peers, origin, severed>>
  BY DEF SendOk, SendErr, At, Sending, peerVars, histVars, strayVars
<1>2. PICK to \in Obj : to = job[o].next
  BY <1>1, HopNumbers
<1>3. /\ strayed' = strayed \/ (strayed' = strayed \cup {job[o].e2e} /\ job[o].kind = "ans")
      /\ Astray(job[o]) => job[o].e2e \in severed
  BY DEF SendOk, SendErr, Strays, strayVars, Guided, Ways
<1>4. strayed' \subseteq severed
  BY <1>1, <1>3 DEF Guided, Astray
<1>5. PICK j : /\ Moves(o, j)
               /\ \/ j.pc = "idle" /\ SendOk(o)
                  \/ /\ j.pc = "undo" /\ SendErr(o) /\ j.kind = job[o].kind /\ j.e2e = job[o].e2e
                     /\ j.next = to /\ j.new = job[o].new
  BY <1>2, SendOkMoves, SendErrMoves, IdleIsGood
<1>6. job'[o] = j /\ \A u \in Obj \ {o} : job'[u] = job[u]
  BY <1>5, MoveFacts
<1>7. ASSUME NEW t \in Obj, NEW p \in wire'[t], p \notin wire[t]
      PROVE  /\ t = to /\ p = [hbh |-> job[o].new, e2e |-> job[o].e2e]
             /\ job[o].kind = "req" /\ j.pc = "idle"
  <2>1. SendOk(o) /\ job[o].kind = "req"
    BY <1>7, SendOkMoves, SendErrMoves
  <2>2. wire' = [wire EXCEPT ![to] = @ \cup {[hbh |-> job[o].new, e2e |-> job[o].e2e]}]
    BY <1>2, <2>1, SendOkMoves
  <2>3. j.pc = "idle"
    BY <1>5, <1>6, <2>1, SendOkMoves, MoveFacts, IdleIsGood
  <2> QED  BY <1>7, <2>1, <2>2, <2>3 DEF Typed
<1>8. Track(o) \/ (UNCHANGED pending /\ SendErr(o))
  BY SendOkMoves, SendErrMoves
<1>9. \A t \in Obj : \A p \in pending'[t] : p \in pending[t] \/
         (t = to /\ job[o].kind = "req" /\ p = [hbh |-> job[o].new, e2e |-> job[o].e2e])
  BY <1>1, <1>2, <1>8, TrackFacts
<1>10. Apart'
  <2>1. CASE Track(o)
    <3>1. \A t \in Obj : \A p \in wire'[t] :
             p \in wire[t] \/ (t = job[o].next /\ p.hbh = job[o].new /\ j.pc = "idle")
      BY <1>2, <1>7
    <3> QED  BY <1>1, <1>2, <1>5, <2>1, <3>1, TrackApart DEF Guided
  <2>2. CASE UNCHANGED pending /\ SendErr(o)
    <3>1. UNCHANGED wire /\ Takes(o, j)
      BY <1>1, <1>2, <1>5, <2>2, SendErrMoves DEF Takes, Sending
    <3> QED  BY <1>1, <1>6, <2>2, <3>1, ApartShrink DEF Guided
  <2> QED  BY <1>8, <2>1, <2>2
<1>11. ASSUME NEW t \in Obj, NEW p \in pending'[t] \cap wire'[t]
       PROVE  \/ p \in pending[t] \cap wire[t] \/ p.e2e \in severed'
              \/ \E x \in prevHopByHop' : x.out = IdOf[t] /\ x.hbh = p.hbh
  <2>1. CASE p \notin wire[t]
    <3>1. t = to /\ p.hbh = job[o].new /\ p.e2e = job[o].e2e /\ job[o].kind = "req"
      BY <1>7, <1>11, <2>1
    <3> QED  BY <1>1, <1>2, <3>1 DEF Guided, Ways, WayBack
  <2>2. CASE p \in wire[t] /\ p \notin pending[t]
    <3>1. job[o].kind = "req" /\ p.e2e = job[o].e2e
      BY <1>9, <1>11, <2>2
    <3> QED  BY <1>1, <2>2, <3>1, SendingFacts
  <2> QED  BY <1>11, <2>1, <2>2
<1>12. Follows(o, j)
  BY <1>1, <1>3, <1>5 DEF Follows, Astray
<1>13. Ways'
  BY <1>1, <1>6, <1>11, <1>12, WaysStep DEF Guided
<1> QED  BY <1>1, <1>4, <1>10, <1>13, TabledKept DEF Guided

\* An answer that finds no transaction has lost its way before; the one it finds is its own.
LEMMA LoadGuided ==
    ASSUME OneObject, Typed, Bears, Traced, Guided, NEW o \in Obj, LoadTxn(o) PROVE Guided'
<1>1. /\ UNCHANGED <<hopByHopID, pending, wire>> /\ job[o].pc = "load" /\ job[o] \in Job
      /\ UNCHANGED <<open, peers, origin, severed, strayed>>
  BY JobFacts DEF LoadTxn, At, peerVars, histVars, strayVars
<1> DEFINE found == {x \in prevHopByHop : x.out = IdOf[o] /\ x.hbh = job[o].hbh}
<1>2. prevHopByHop' = prevHopByHop \ found
  BY DEF LoadTxn
<1>3. PICK j : /\ Moves(o, j) /\ j.kind = "ans" /\ j.e2e = job[o].e2e /\ j.pc \in {"route", "back"}
  BY LoadTxnMoves
<1>4. job'[o] = j /\ \A u \in Obj \ {o} : job'[u] = job[u]
  BY <1>3, MoveFacts
<1>5. j.pc = "route" => found = {}
  <2>1. ASSUME NEW x \in found,
               job' = [job EXCEPT ![o] = [job[o] EXCEPT !.pc = "back", !.hbh = x.back, !.orig = x.orig]]
        PROVE  job'[o].pc = "back"
    BY <1>1, <2>1 DEF Typed, Job
  <2> QED  BY <1>4, <2>1 DEF LoadTxn
<1>6. Follows(o, j)
  BY <1>1, <1>3, <1>5 DEF Follows, Astray, Guided, Ways, WayBack
<1>7. ASSUME NEW x \in prevHopByHop \ prevHopByHop' PROVE Spared(x)
  <2>1. x.out = IdOf[o] /\ x.hbh = job[o].hbh
    BY <1>2, <1>7
  <2>2. \A t \in Obj : x.out = IdOf[t] => t = o
    BY <2>1 DEF OneObject
  <2>3. \A p \in pending[o] : p.hbh # x.hbh
    BY <1>1, <2>1 DEF Guided, Apart
  <2>4. ASSUME NEW u \in Obj, job'[u].pc = "send", x.out = IdOf[job'[u].next], x.hbh = job'[u].new
        PROVE  FALSE
    <3>1. job'[u] = job[u] /\ Sending(job[u]) /\ job[u].next \in Obj
      BY <1>3, <1>4, <2>4, HopNumbers DEF Sending
    <3> QED  BY <1>1, <2>1, <2>2, <2>4, <3>1 DEF Guided, Apart
  <2> QED  BY <1>1, <1>3, <1>4, <2>2, <2>3, <2>4 DEF Spared
<1> HIDE DEF found
<1>8. Ways'
  BY <1>1, <1>4, <1>6, <1>7, WaysStep DEF Guided
<1>9. Apart'
  BY <1>1, <1>3, <1>4, ApartShrink DEF Guided, Takes
<1> QED  BY <1>1, <1>8, <1>9, TabledKept DEF Guided

\* Every step keeps the ways back, as long as no identifier wraps.
LEMMA GuidedStep ==
    ASSUME OneObject, NotWrapped, Typed, Bears, Traced, Guided, [Next]_vars PROVE Guided'
<1>1. CASE UNCHANGED vars
  BY <1>1 DEF vars, peerVars, relayVars, histVars, strayVars, Guided, Tabled, Apart, Ways, WayBack, Astray
<1>2. ASSUME NEW o \in Obj, RouteIn(o) PROVE Guided'
  BY <1>2, RouteGuided, TakeHopGuided, TxnGuided, SendGuided, LoadGuided DEF RouteIn
<1> QED  BY <1>1, <1>2, ExpireGuided, OpenCloseGuided, ReceiveGuided DEF Next

\* As long as no Peer object has given out all its hop-by-hop identifiers (2^32 - 1 requests
\* on one object) and each identity has one object, an answer that is led back goes to the
\* identity its request came from, under the identifier that request had there, whatever
\* failovers, late answers, expired transactions and reconnections there were; and it is handed
\* to anybody else only after the sender's connection closed or the transaction was deleted.
THEOREM AnswersFindOrigin == OneObject => (Spec /\ []NotWrapped => []AnswerToOrigin)
<1> SUFFICES ASSUME OneObject PROVE Spec /\ []NotWrapped => []AnswerToOrigin
  OBVIOUS
<1>1. Init => Traced /\ ToSender
  <2> SUFFICES ASSUME Init PROVE Traced /\ ToSender
    OBVIOUS
  <2>1. /\ prevHopByHop = {} /\ \A o \in Obj : job[o] = Idle /\ pending[o] = {}
    BY DEF Init
  <2>2. Traced
    BY <2>1, IdleIsGood DEF Traced, Bounded, Fresh, Matched, Sending
  <2>3. \A a \in Identity \X RemoteID \X Req : sent[a] = 0
    BY DEF Init
  <2>4. ToSender
    <3>1. \A i \in Identity, h \in RemoteID, q \in Req : <<i, h, q>> \in Identity \X RemoteID \X Req
      OBVIOUS
    <3> QED  BY <2>3, <3>1 DEF ToSender
  <2> QED  BY <2>2, <2>4
<1>2. Init => Guided
  <2> SUFFICES ASSUME Init PROVE Guided
    OBVIOUS
  <2>1. /\ severed = {} /\ strayed = {} /\ \A q \in Req : origin[q] = None
        /\ \A o \in Obj : job[o] = Idle /\ pending[o] = {} /\ wire[o] = {} /\ ~open[o]
    BY DEF Init
  <2>2. Tabled
    BY <2>1 DEF Tabled
  <2>3. Apart /\ Ways
    BY <2>1, IdleIsGood DEF Apart, Ways, Sending, Astray
  <2> QED  BY <2>1, <2>2, <2>3 DEF Guided
<1>3. NotWrapped /\ Typed /\ Bears /\ Traced /\ ToSender /\ Guided /\ [Next]_vars => (Traced /\ ToSender /\ Guided)'
  BY TracedStep, GuidedStep
<1>4. ToSender /\ Guided => AnswerToOrigin
  BY DEF Guided, AnswerToOrigin
<1> QED  BY <1>1, <1>2, <1>3, <1>4, RelayInvariance, PTL DEF Spec
=============================================================================
