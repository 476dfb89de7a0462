----------------------------- MODULE RelayRouter ----------------------------
(***************************************************************************)
(* A relay: Router.RouteIn (pkg/core/routing) as the state machine         *)
(* goroutines of several peers run it at once, the relay transactions      *)
(* prevHopByHop, and the pending requests each Peer object keeps           *)
(* (pkg/core/peer).  A goroutine handles one message at a time; each access *)
(* to shared state on its way through RouteIn is a step.                   *)
(*                                                                         *)
(* The remote nodes are free: they send requests, answer what they were    *)
(* sent once, often, wrongly or never, and send a request back to where it *)
(* came from.                                                              *)
(***************************************************************************)
EXTENDS RouteTable

CONSTANTS
    Obj,             \* Peer objects
    IdOf,            \* [Obj -> Identity]: who is at the other end
    Outbound,        \* dialled objects; they may reconnect, accepted ones are gone
    MaxOpens,        \* bound on the connections of one object
    Req,             \* requests, named by their End-to-End identifiers: positive
    Dest,            \* [Req -> Destination]
    From,            \* [Req -> SUBSET Obj]: the objects a request may come in on
    AnswerDest,      \* the destination of an answer: no host and no realm
    Self,            \* Router.localIdentity
    LocalRealm,      \* Router.localRealm
    Served,          \* applications with a dispatch handler
    AppCommon,       \* application 0, whose handler serves the others as well
    RelayEnabled,    \* Router.relayEnabled
    Loads,           \* sets of routing extensions the node may have loaded
    eregRules,       \* rules of rt_ereg: [reqs, server, score], reqs being what they match
    IDSpace          \* number of hop-by-hop identifiers: 2^32 in the code

ASSUME ObjAssumption  == IdOf \in [Obj -> Identity] /\ Outbound \subseteq Obj
ASSUME ReqAssumption  == Req \subseteq Nat \ {0} /\ Dest \in [Req -> Destination]
ASSUME SelfAssumption == Self \in Identity /\ AnswerDest \in Destination /\ AnswerDest.host = None
ASSUME IDAssumption   == IDSpace \in Nat \ {0} /\ MaxOpens \in Nat
ASSUME NoneIsNoObject == None \notin Obj \cup Identity

VARIABLES
    open,            \* IsOpen of each object
    opens,           \* connections it has had
    peers,           \* Server.peers, the lookup function of the router
    loaded,          \* the routing extensions that are loaded
    hopByHopID,      \* Peer.hopByHopID
    pending,         \* Peer.pending: (hop-by-hop, end-to-end) pairs
    wire,            \* requests the remote end of the connection has been sent
    bounced,         \* requests a remote end has sent back
    job,             \* the message an object's goroutine is routing
    prevHopByHop,    \* relay transactions
    origin,          \* who sent a request: Identity, or None
    forwarded,       \* how often a request was put on a connection
    sent,            \* <<to, hop-by-hop, end-to-end>> -> answers sent
    lost,            \* requests whose answer could not be queued
    severed,         \* requests whose sender's connection closed, or whose transaction was swept
    strayed          \* requests whose answer was handed to a next hop instead of led back

relayVars == <<hopByHopID, pending, wire, prevHopByHop, forwarded>>
peerVars  == <<open, opens, peers, loaded>>
histVars  == <<origin, sent, lost>>
strayVars == <<severed, strayed>>
vars      == <<peerVars, relayVars, histVars, strayVars, bounced, job>>

\* Identifiers the remote ends choose: the request's own name, or 0 on a request
\* that comes back.
RemoteID == Req \cup {0}
HopID    == 0 .. (IDSpace - 1)

Idle == [pc |-> "idle", kind |-> "req", e2e |-> 0, hbh |-> 0, dh |-> None, excl |-> {}, next |-> None, new |-> 0, orig |-> None]

Init ==
    /\ open = [o \in Obj |-> FALSE] /\ opens = [o \in Obj |-> 0]
    /\ peers = [i \in Identity |-> None] /\ loaded \in Loads
    /\ hopByHopID = [o \in Obj |-> 0]
    /\ pending = [o \in Obj |-> {}] /\ wire = [o \in Obj |-> {}] /\ bounced = {}
    /\ job = [o \in Obj |-> Idle] /\ prevHopByHop = {}
    /\ origin = [q \in Req |-> None] /\ forwarded = [q \in Req |-> 0]
    /\ sent = [a \in Identity \X RemoteID \X Req |-> 0] /\ lost = {}
    /\ severed = {} /\ strayed = {}

-----------------------------------------------------------------------------
(* Connections                                                             *)

Up(o) == open[o] /\ job[o].pc = "idle"

\* The object opens, and its callback enters it in the table.
Open(o) ==
    /\ ~open[o] /\ opens[o] < (IF o \in Outbound THEN MaxOpens ELSE 1)
    /\ open' = [open EXCEPT ![o] = TRUE] /\ opens' = [opens EXCEPT ![o] = @ + 1]
    /\ peers' = [peers EXCEPT ![IdOf[o]] = o]
    /\ UNCHANGED <<loaded, relayVars, histVars, strayVars, bounced, job>>

\* It closes, between two messages: errorCleanup with clearPending; the callback
\* removes the entry of its identity.
Close(o) ==
    /\ Up(o)
    /\ open' = [open EXCEPT ![o] = FALSE]
    /\ peers' = [peers EXCEPT ![IdOf[o]] = None]
    /\ pending' = [pending EXCEPT ![o] = {}] /\ wire' = [wire EXCEPT ![o] = {}]
    /\ severed' = severed \cup {q \in Req : origin[q] = IdOf[o]}
    /\ UNCHANGED <<opens, loaded, hopByHopID, prevHopByHop, forwarded, histVars, strayed, bounced, job>>

-----------------------------------------------------------------------------
(* processInboundMessage                                                   *)

\* Whether the message is for this node: relays look at the host only.
IsLocal(msg) ==
    IF RelayEnabled \/ msg.host # None THEN msg.host = Self
    ELSE msg.realm \in {None, LocalRealm}

MutEntry(msg, loop) ==
    IF IsLocal(msg) THEN "dispatch" ELSE IF RelayEnabled THEN "route" ELSE "refuse"

\* What RouteIn does with a message: a request whose Route-Record names this node,
\* or any message for another node when relaying is off, is refused.
Entry(msg, loop) ==
    CASE IsLocal(msg)                            -> "dispatch"
      [] ~IsLocal(msg) /\ (loop \/ ~RelayEnabled) -> "refuse"
      [] OTHER                                   -> "route"

\* rt_ignore_dh: the Destination-Host is taken out on the way in, and put back by the
\* first choice of a next hop.
DropDestHost(q) == IF "rt_ignore_dh" \in loaded THEN None ELSE Dest[q].host
RestoreDestHost(j) == IF j.kind = "req" THEN Dest[j.e2e].host ELSE None

\* A request to route, with Hop-by-Hop identifier h.
Request(q, h, loop) ==
    [Idle EXCEPT !.pc = Entry([Dest[q] EXCEPT !.host = DropDestHost(q)], loop),
                 !.e2e = q, !.hbh = h, !.dh = DropDestHost(q)]

\* A request from the remote end.
RcvRequest(o, q) ==
    /\ Up(o) /\ origin[q] = None /\ o \in From[q]
    /\ origin' = [origin EXCEPT ![q] = IdOf[o]]
    /\ job' = [job EXCEPT ![o] = Request(q, q, FALSE)]
    /\ UNCHANGED <<peerVars, relayVars, sent, lost, strayVars, bounced>>

\* A request this node has relayed comes back: its Route-Record names this node.
RcvBounce(o, m) ==
    /\ Up(o) /\ m \in wire[o] /\ m.e2e \notin bounced
    /\ bounced' = bounced \cup {m.e2e}
    /\ job' = [job EXCEPT ![o] = Request(m.e2e, 0, TRUE)]
    /\ UNCHANGED <<peerVars, relayVars, histVars, strayVars>>

\* An answer with the identifiers m.hbh and e, where 0 is a wrong one.  One that matches no pending request
\* is dropped; popPending comes before the End-to-End identifiers are compared.
RcvAnswer(o, m, e) ==
    /\ Up(o) /\ m \in wire[o]
    /\ \E p \in pending[o] :
          /\ p.hbh = m.hbh
          /\ pending' = [pending EXCEPT ![o] = @ \ {p}]
          /\ job' = IF p.e2e # e THEN job
                    ELSE [job EXCEPT ![o] = [Idle EXCEPT !.pc = "load", !.kind = "ans",
                                                         !.e2e = e, !.hbh = m.hbh]]
    /\ UNCHANGED <<peerVars, hopByHopID, wire, prevHopByHop, forwarded, histVars, strayVars, bounced>>

-----------------------------------------------------------------------------
(* RouteIn                                                                 *)

At(o, pc) == job[o].pc = pc
Goto(o, pc) == job' = [job EXCEPT ![o].pc = pc]
Done(o) == job' = [job EXCEPT ![o] = Idle]

Msg(o) ==
    IF job[o].kind = "req" THEN [Dest[job[o].e2e] EXCEPT !.host = job[o].dh] ELSE AnswerDest

\* An answer with identifier h goes to identity i, on whichever connection.
Answered(i, h, e) == sent' = [sent EXCEPT ![<<i, h, e>>] = @ + 1] /\ UNCHANGED lost
AnswerLost(e) == lost' = lost \cup {e} /\ UNCHANGED sent

\* dispatch: the handler answers the request; without one the DispatchError is
\* logged and nobody answers.
Dispatch(o) ==
    /\ At(o, "dispatch") /\ Done(o)
    /\ IF Served \cap {Msg(o).app, AppCommon} # {}
       THEN Answered(IdOf[o], job[o].hbh, job[o].e2e) \/ AnswerLost(job[o].e2e)
       ELSE UNCHANGED <<sent, lost>>
    /\ UNCHANGED <<peerVars, relayVars, origin, strayVars, bounced>>

Connected == {i \in Identity : peers[i] # None}
PendingCount(i) == IF i \in Connected THEN Cardinality(pending[peers[i]]) ELSE 0

\* What RouteOutWithExclusion may return.
Choice(o) ==
    LET matching == {r \in eregRules : job[o].kind = "req" /\ job[o].e2e \in r.reqs}
    IN  UNION {BestTier(cs, job[o].excl) :
                  cs \in OutHandlers(BuildCandidates(Msg(o), Connected), loaded, matching,
                                     [i \in Identity |-> PendingCount(i)])}

\* RouteIn has refused the message or has no hop left, and makes an error answer.
Fails(o) == At(o, "refuse") \/ (At(o, "route") /\ Choice(o) = {})

MutErrorAnswer(o) ==
    /\ Fails(o) /\ Done(o)
    /\ IF At(o, "refuse") THEN Answered(IdOf[o], job[o].hbh, job[o].e2e)
       ELSE UNCHANGED <<sent, lost>>
    /\ UNCHANGED <<peerVars, relayVars, origin, strayVars, bounced>>

\* The answer to q is handed to somebody its transaction does not name.
Strays(q) == strayed' = strayed \cup {q}

\* It is sent, and once more by handleRoutingError if that fails.  The one to an answer
\* goes to the peer that answered.
ErrorAnswer(o) ==
    /\ Fails(o) /\ Done(o)
    /\ \/ job[o].kind = "ans" /\ UNCHANGED <<sent, lost>> /\ (Strays(job[o].e2e) \/ UNCHANGED strayed)
       \/ job[o].kind = "req" /\ Answered(IdOf[o], job[o].hbh, job[o].e2e) /\ UNCHANGED strayed
       \/ job[o].kind = "req" /\ AnswerLost(job[o].e2e) /\ UNCHANGED strayed
    /\ UNCHANGED <<peerVars, relayVars, origin, severed, bounced>>

MutSkipHop(o, n) ==
    /\ peers[n] = None
    /\ UNCHANGED <<peerVars, relayVars, histVars, strayVars, bounced, job>>

\* The next hop chosen is not in the table: exclude it and choose again.
SkipHop(o, n) ==
    /\ peers[n] = None
    /\ job' = [job EXCEPT ![o].excl = @ \cup {n}, ![o].dh = RestoreDestHost(job[o])]
    /\ UNCHANGED <<peerVars, relayVars, histVars, strayVars, bounced>>

\* NextHopByHopID of the peer object that was looked up.
TakeHop(o, n) ==
    LET to == peers[n] IN
    /\ to # None
    /\ LET h == (hopByHopID[to] + 1) % IDSpace IN
       /\ hopByHopID' = [hopByHopID EXCEPT ![to] = h]
       /\ job' = [job EXCEPT ![o] = [job[o] EXCEPT !.pc = "store", !.next = to, !.new = h,
                                                !.dh = RestoreDestHost(job[o])]]
    /\ UNCHANGED <<peerVars, pending, wire, prevHopByHop, forwarded, histVars, strayVars, bounced>>

\* relayKey of the request as it leaves.
Key(o) == <<IdOf[job[o].next], job[o].new>>
Without(key) == {x \in prevHopByHop : <<x.out, x.hbh>> # key}

StoreTxn(o) ==
    /\ At(o, "store") /\ Goto(o, "send")
    /\ prevHopByHop' = Without(Key(o)) \cup
          {[out |-> Key(o)[1], hbh |-> Key(o)[2], orig |-> IdOf[o], back |-> job[o].hbh]}
    /\ UNCHANGED <<peerVars, hopByHopID, pending, wire, forwarded, histVars, strayVars, bounced>>

\* trackPending, in Peer.Send: not for answers, nor for identifier 0.
Track(o) ==
    LET to == job[o].next IN
    pending' = IF job[o].kind = "ans" \/ job[o].new = 0 THEN pending
               ELSE [pending EXCEPT ![to] = {p \in @ : p.hbh # job[o].new}
                        \cup {[hbh |-> job[o].new, e2e |-> job[o].e2e]}]

\* Peer.Send succeeds and RouteIn returns; an answer has gone to a next hop.
SendOk(o) ==
    LET to == job[o].next  q == job[o].e2e IN
    /\ At(o, "send") /\ open[to] /\ Track(o) /\ Done(o)
    /\ IF job[o].kind = "ans" THEN Strays(q) /\ UNCHANGED <<wire, forwarded>>
       ELSE /\ UNCHANGED strayed
            /\ wire' = [wire EXCEPT ![to] = @ \cup {[hbh |-> job[o].new, e2e |-> q]}]
            /\ forwarded' = [forwarded EXCEPT ![q] = @ + 1]
    /\ UNCHANGED <<peerVars, hopByHopID, prevHopByHop, histVars, severed, bounced>>

\* It fails: the peer is not open, or both its queues are full, after trackPending.
SendErr(o) ==
    /\ At(o, "send") /\ Goto(o, "undo")
    /\ IF open[job[o].next] THEN Track(o) ELSE UNCHANGED pending
    /\ UNCHANGED <<peerVars, hopByHopID, wire, prevHopByHop, forwarded, histVars, strayVars, bounced>>

\* The transaction is deleted, the next hop excluded and the loop goes on.
UndoTxn(o) ==
    /\ At(o, "undo") /\ prevHopByHop' = Without(Key(o))
    /\ job' = [job EXCEPT ![o] = [job[o] EXCEPT !.pc = "route", !.excl = @ \cup {Key(o)[1]}]]
    /\ UNCHANGED <<peerVars, hopByHopID, pending, wire, forwarded, histVars, strayVars, bounced>>

MutLoadTxn(o) ==
    LET found == {x \in prevHopByHop : x.hbh = job[o].hbh} IN
    /\ At(o, "load") /\ prevHopByHop' = prevHopByHop \ found
    /\ \/ found = {} /\ Goto(o, Entry(AnswerDest, FALSE))
       \/ \E x \in found :
             job' = [job EXCEPT ![o] = [job[o] EXCEPT !.pc = "back", !.hbh = x.back, !.orig = x.orig]]
    /\ UNCHANGED <<peerVars, hopByHopID, pending, wire, forwarded, histVars, strayVars, bounced>>

\* LoadAndDelete of the transaction an answer belongs to; without one the answer is
\* routed like any other message.
LoadTxn(o) ==
    LET found == {x \in prevHopByHop : x.out = IdOf[o] /\ x.hbh = job[o].hbh} IN
    /\ At(o, "load") /\ prevHopByHop' = prevHopByHop \ found
    /\ \/ found = {} /\ Goto(o, Entry(AnswerDest, FALSE))
       \/ \E x \in found :
             job' = [job EXCEPT ![o] = [job[o] EXCEPT !.pc = "back", !.hbh = x.back, !.orig = x.orig]]
    /\ UNCHANGED <<peerVars, hopByHopID, pending, wire, forwarded, histVars, strayVars, bounced>>

\* The answer goes to the previous hop, if that is still in the table.
SendBack(o) ==
    LET i == job[o].orig IN
    /\ At(o, "back")
    /\ IF peers[i] = None THEN Goto(o, Entry(AnswerDest, FALSE)) /\ UNCHANGED <<sent, lost>>
       ELSE /\ Done(o)
            /\ \/ open[peers[i]] /\ Answered(i, job[o].hbh, job[o].e2e)
               \/ AnswerLost(job[o].e2e)
    /\ UNCHANGED <<peerVars, relayVars, origin, strayVars, bounced>>

RouteIn(o) ==
    \/ Dispatch(o) \/ ErrorAnswer(o)
    \/ At(o, "route") /\ \E n \in Choice(o) : SkipHop(o, n) \/ TakeHop(o, n)
    \/ StoreTxn(o) \/ SendOk(o) \/ SendErr(o) \/ UndoTxn(o)
    \/ LoadTxn(o) \/ SendBack(o)

\* The transaction leads back to the sender of q, under the identifier q had there.
Leads(x, q) == x.back = q /\ x.orig = origin[q]

\* FailoverPeer and sweepExpired delete transactions one key at a time.
ExpireTxn(x) ==
    /\ x \in prevHopByHop /\ prevHopByHop' = prevHopByHop \ {x}
    /\ severed' = severed \cup {q \in Req : Leads(x, q)}
    /\ UNCHANGED <<peerVars, hopByHopID, pending, wire, forwarded, histVars, strayed, bounced, job>>

Receive(o) ==
    \/ \E q \in Req : RcvRequest(o, q)
    \/ \E m \in wire[o] : RcvBounce(o, m) \/ \E e \in {m.e2e, 0} : RcvAnswer(o, m, e)

Next ==
    \/ \E o \in Obj : Open(o) \/ Close(o) \/ Receive(o) \/ RouteIn(o)
    \/ \E x \in prevHopByHop : ExpireTxn(x)

Spec == Init /\ [][Next]_vars

\* A goroutine that has a message to route goes on.
FairSpec == Spec /\ \A o \in Obj : WF_vars(RouteIn(o))

-----------------------------------------------------------------------------
(* Properties                                                              *)

\* What is answered is answered to the sender, under the identifier its request had there;
\* 0 is the identifier of a request that came back.
ToSender ==
    \A i \in Identity, h \in RemoteID, q \in Req :
        sent[<<i, h, q>>] > 0 => h = 0 \/ (h = q /\ i = origin[q])

\* An answer that is led back reaches the identity its request came from, under the
\* identifier that request had there (relayKey, relayTxn).  One that is routed on like a
\* request instead (router.go:621-722), and reaches whoever its application's routes name,
\* has lost its way back: the connection of the sender closed after the request, or the
\* transaction was failed over or swept.
AnswerToOrigin == ToSender /\ strayed \subseteq severed

\* Retries and late answers never multiply a request: it is put on one connection
\* at most, and its sender gets one answer at most.
AtMostOnce ==
    \A q \in Req : forwarded[q] <= 1 /\ \A i \in Identity : sent[<<i, q, q>>] <= 1

Handling(q) == \E o \in Obj : job[o].pc # "idle" /\ job[o].e2e = q

\* README.md:290: a final recipient "either processes the request or answers with
\* an error": once RouteIn is through with a request it was passed on or answered,
\* unless the answer could not be queued.  What dispatch does without a handler
\* contradicts it: the DispatchError is logged and nobody answers.
NobodyForgotten ==
    \A q \in Req : origin[q] # None /\ ~Handling(q) =>
        forwarded[q] > 0 \/ q \in lost \/ sent[<<origin[q], q, q>>] > 0

\* The request is for this node, which has no handler for it.
Local(q) == IsLocal([Dest[q] EXCEPT !.host = DropDestHost(q)])
Unserved(q) == Local(q) /\ Served \cap {Dest[q].app, AppCommon} = {}

\* A request that is for this node and has no handler is the only one the relay forgets:
\* no retry, refusal, exclusion or failed Send of RouteIn ends without the request being
\* passed on or answered, or its answer being lost at a full queue.
OnlyUnservedForgotten ==
    \A q \in Req : origin[q] # None /\ ~Handling(q) =>
        forwarded[q] > 0 \/ q \in lost \/ sent[<<origin[q], q, q>>] > 0 \/ Unserved(q)

\* The exclusion loop of RouteIn ends, whatever peers come and go meanwhile.
RelayEnds == \A o \in Obj : job[o].pc # "idle" ~> job[o].pc = "idle"

=============================================================================
