----------------------------- MODULE PeerTable -----------------------------
(***************************************************************************)
(* The table of peers that pkg/core/server keeps.  Every accepted          *)
(* connection and every configured outbound peer is a Peer object of its   *)
(* own; an object enters the table Server.peers and the registry of edge   *)
(* partners (pkg/core/edge), and leaves them, in the OnStateChange callback *)
(* that its state machine goroutine runs after the state has changed.      *)
(*                                                                         *)
(* A Peer is reduced to the states that callback and Server.Stop tell      *)
(* apart; module PeerFSM has the machine itself.                           *)
(***************************************************************************)
EXTENDS Naturals, FiniteSets

CONSTANTS
    Obj,          \* Peer objects
    Outbound,     \* the ones made by connectToPeer; the others are accepted
    Identity,     \* Diameter identities remote nodes present
    None,         \* no entry, or an identity not known yet
    Persistent,   \* PeerConfig.Persistent of the outbound peers
    MayStop       \* Server.Stop may be called

ASSUME ObjAssumption      == Outbound \subseteq Obj
ASSUME NoneAssumption     == None \notin Obj \cup Identity
ASSUME FlagAssumption     == {Persistent, MayStop} \subseteq BOOLEAN

Inbound == Obj \ Outbound

VARIABLES
    peers,        \* Server.peers: identity -> object
    bound,        \* Registry.boundPeers: identities bound to a partner
    st,           \* state of each object
    id,           \* Peer.diameterID
    cb,           \* what is left of the callback its goroutine is running
    ctx,          \* Peer.ctx: "live", or "done" once cancelled
    srv,          \* the server: "up", "stopping" or "down"
    toStop        \* peers Server.Stop has yet to stop

vars == <<peers, bound, st, id, cb, ctx, srv, toStop>>

(* States of an object:                                                    *)
(*   none        not created            refused   CER not accepted; Closed *)
(*   cer         waiting for the CER    retiring  Closed, scheduleReconnect *)
(*   admitted    CER accepted                     still to come            *)
(*   connecting  the outbound handshake closed    Closed                   *)
(*   open, suspect, closing             zombie    Zombie, goroutine gone   *)
ObjState == {"none", "cer", "admitted", "connecting", "open", "suspect", "closing",
             "refused", "retiring", "closed", "zombie"}

\* Server.Start has called connectToPeer for the outbound peers.
Init ==
    /\ peers = [i \in Identity |-> None] /\ bound = {}
    /\ st = [o \in Obj |-> IF o \in Outbound THEN "connecting" ELSE "none"]
    /\ id = [o \in Obj |-> None]
    /\ cb = [o \in Obj |-> "none"] /\ ctx = [o \in Obj |-> "live"]
    /\ srv = "up" /\ toStop = {}

-----------------------------------------------------------------------------
(* The state machine goroutine of an object.  Its callback is part of      *)
(* setState: the goroutine does nothing else before it has returned.       *)

\* The machine of o is in a state of S and free to take its next step.
Running(o, S) == cb[o] = "none" /\ st[o] \in S

\* setState(s), and the callback c it leads to.
SetState(o, s, c) ==
    st' = [st EXCEPT ![o] = s] /\ cb' = [cb EXCEPT ![o] = c]

TableSame  == UNCHANGED <<peers, bound>>
ServerSame == UNCHANGED <<srv, toStop>>

\* acceptLoop, handleConnection.
AcceptConn(o) ==
    /\ o \in Inbound /\ st[o] = "none" /\ srv = "up"
    /\ SetState(o, "cer", "none")
    /\ UNCHANGED <<id, ctx>> /\ TableSame /\ ServerSame

\* processCER with the policy of handleConnection: identity i is admitted, and
\* bound at run time if its realm made it member p of a partner.
Admit(o, i, p) ==
    /\ st[o] = "cer"
    /\ SetState(o, "admitted", "none") /\ id' = [id EXCEPT ![o] = i]
    /\ bound' = IF p THEN bound \cup {i} ELSE bound
    /\ UNCHANGED <<peers, ctx>> /\ ServerSame

\* The policy refuses identity i, or the CER names none.
Refuse(o, i) ==
    /\ st[o] = "cer"
    /\ SetState(o, "refused", "none") /\ id' = [id EXCEPT ![o] = i]
    /\ UNCHANGED ctx /\ TableSame /\ ServerSame

\* No CER came, and the object is never started.
NoCER(o) ==
    /\ st[o] = "cer" /\ SetState(o, "none", "none")
    /\ UNCHANGED <<id, ctx>> /\ TableSame /\ ServerSame

\* The CEA is sent: R-Open.  If that fails the state stays Closed.
OpenInbound(o) ==
    /\ st[o] = "admitted"
    /\ SetState(o, "open", "put") \/ SetState(o, "refused", "none")
    /\ UNCHANGED <<id, ctx>> /\ TableSame /\ ServerSame

\* A CEA from identity i is accepted: I-Open.
OpenOutbound(o, i) ==
    /\ Running(o, {"connecting"})
    /\ SetState(o, "open", "put") /\ id' = [id EXCEPT ![o] = i]
    /\ UNCHANGED ctx /\ TableSame /\ ServerSame

\* A failed handshake, a lost connection: errorCleanup, Closed and then
\* scheduleReconnect.
Lose(o) ==
    /\ Running(o, {"connecting", "open", "suspect"})
    /\ SetState(o, "retiring", "delete")
    /\ UNCHANGED <<id, ctx>> /\ TableSame /\ ServerSame

\* Paths to Closed without scheduleReconnect: DPR/DPA, or a CER that could not
\* be sent or a CEA that was refused.
Leave(o) ==
    /\ \/ Running(o, {"open"}) /\ SetState(o, "closing", "none")
       \/ Running(o, {"closing", "connecting"}) /\ SetState(o, "closed", "delete")
    /\ UNCHANGED <<id, ctx>> /\ TableSame /\ ServerSame

\* The watchdog expires, and the peer shows up again.
Watchdog(o) ==
    /\ \/ Running(o, {"open"}) /\ SetState(o, "suspect", "none")
       \/ Running(o, {"suspect"}) /\ SetState(o, "open", "put")
    /\ UNCHANGED <<id, ctx>> /\ TableSame /\ ServerSame

\* scheduleReconnect: a persistent peer dials again, any other turns Zombie.
ScheduleReconnect(o) ==
    /\ Running(o, {"retiring"})
    /\ IF Persistent /\ o \in Outbound
       THEN SetState(o, "connecting", "none")
       ELSE SetState(o, "zombie", "delete")
    /\ UNCHANGED <<id, ctx>> /\ TableSame /\ ServerSame

Started == ObjState \ {"none", "cer", "admitted"}

\* ctx.Done: Zombie.
CtxDone(o) ==
    /\ ctx[o] = "done" /\ Running(o, Started \ {"retiring", "zombie"})
    /\ SetState(o, "zombie", "delete")
    /\ UNCHANGED <<id, ctx>> /\ TableSame /\ ServerSame

StateMachine(o) ==
    \/ AcceptConn(o) \/ NoCER(o) \/ OpenInbound(o)
    \/ Lose(o) \/ Leave(o) \/ Watchdog(o)
    \/ \E i \in Identity :
          \/ OpenOutbound(o, i)
          \/ \E p \in BOOLEAN : Admit(o, i, p)
    \/ \E i \in Identity \cup {None} : Refuse(o, i)
    \/ ScheduleReconnect(o) \/ CtxDone(o)

-----------------------------------------------------------------------------
(* The callbacks of handleConnection and connectToPeer                     *)

\* Open: enter the table, whoever was there.
CallbackPut(o) ==
    /\ cb[o] = "put" /\ cb' = [cb EXCEPT ![o] = "none"]
    /\ peers' = [peers EXCEPT ![id[o]] = o]
    /\ UNCHANGED <<bound, st, id, ctx>> /\ ServerSame

MutCallbackDelete(o) ==
    /\ cb[o] = "delete"
    /\ cb' = [cb EXCEPT ![o] = IF o \in Inbound THEN "unbind" ELSE "none"]
    /\ peers' = IF id[o] = None \/ st[o] # "zombie" THEN peers
                ELSE [peers EXCEPT ![id[o]] = None]
    /\ UNCHANGED <<bound, st, id, ctx>> /\ ServerSame

\* Closed or Zombie: leave the table, whoever is there.
CallbackDelete(o) ==
    /\ cb[o] = "delete"
    /\ cb' = [cb EXCEPT ![o] = IF o \in Inbound THEN "unbind" ELSE "none"]
    /\ peers' = IF id[o] = None THEN peers ELSE [peers EXCEPT ![id[o]] = None]
    /\ UNCHANGED <<bound, st, id, ctx>> /\ ServerSame

MutCallbackUnbindForgetsStop(o) ==
    /\ cb[o] = "unbind" /\ cb' = [cb EXCEPT ![o] = "none"]
    /\ bound' = bound \ {id[o]}
    /\ UNCHANGED <<peers, st, id, ctx>> /\ ServerSame

MutCallbackUnbindWaits(o) ==
    /\ cb[o] = "unbind" /\ st[o] = "zombie" /\ cb' = [cb EXCEPT ![o] = "none"]
    /\ bound' = bound \ {id[o]}
    /\ ctx' = [ctx EXCEPT ![o] = "done"]
    /\ UNCHANGED <<peers, st, id>> /\ ServerSame

\* ... and, for an accepted peer, the registry; "go Stop" cancels its context.
CallbackUnbind(o) ==
    /\ cb[o] = "unbind" /\ cb' = [cb EXCEPT ![o] = "none"]
    /\ bound' = bound \ {id[o]}
    /\ ctx' = [ctx EXCEPT ![o] = "done"]
    /\ UNCHANGED <<peers, st, id>> /\ ServerSame

Callback(o) == CallbackPut(o) \/ CallbackDelete(o) \/ CallbackUnbind(o)

-----------------------------------------------------------------------------
(* Server.Stop                                                             *)

MutStopSnapshot ==
    /\ MayStop /\ srv = "up" /\ srv' = "stopping"
    /\ toStop' = {peers[i] : i \in Identity}
    /\ UNCHANGED <<st, id, cb, ctx>> /\ TableSame

\* Close the listeners and take a copy of the table.
StopSnapshot ==
    /\ MayStop /\ srv = "up" /\ srv' = "stopping"
    /\ toStop' = {peers[i] : i \in Identity} \ {None}
    /\ UNCHANGED <<st, id, cb, ctx>> /\ TableSame

\* p.Stop for one of them: cancel ...
StopPeer(o) ==
    /\ srv = "stopping" /\ o \in toStop /\ ctx[o] = "live"
    /\ \A q \in toStop \ {o} : ctx[q] = "live" \/ (st[q] = "zombie" /\ cb[q] = "none")
    /\ ctx' = [ctx EXCEPT ![o] = "done"]
    /\ UNCHANGED <<st, id, cb>> /\ TableSame /\ ServerSame

\* ... and wait for its goroutine.
StopReturns(o) ==
    /\ srv = "stopping" /\ o \in toStop
    /\ ctx[o] = "done" /\ st[o] = "zombie" /\ cb[o] = "none"
    /\ toStop' = toStop \ {o}
    /\ UNCHANGED <<st, id, cb, ctx, srv>> /\ TableSame

StopDone ==
    /\ srv = "stopping" /\ toStop = {} /\ srv' = "down"
    /\ UNCHANGED <<st, id, cb, ctx, toStop>> /\ TableSame

ServerStop == StopDone \/ \E o \in Obj : StopPeer(o) \/ StopReturns(o)

Next ==
    \/ \E o \in Obj : StateMachine(o) \/ Callback(o)
    \/ StopSnapshot \/ ServerStop

Spec == Init /\ [][Next]_vars

-----------------------------------------------------------------------------
(* Fairness: goroutines that can run do, and the handshake, the watchdog   *)
(* and the disconnection of a peer are bounded by their timers.            *)

Fairness ==
    /\ \A o \in Obj :
          /\ WF_vars(Callback(o)) /\ WF_vars(ScheduleReconnect(o))
          /\ SF_vars(CtxDone(o))
    /\ WF_vars(ServerStop)

FairSpec == Spec /\ Fairness

-----------------------------------------------------------------------------
(* Properties                                                              *)

\* Types; Server.Stop is never asked to stop an absent peer.
TypeOK ==
    /\ peers \in [Identity -> Obj \cup {None}] /\ bound \subseteq Identity
    /\ st \in [Obj -> ObjState] /\ id \in [Obj -> Identity \cup {None}]
    /\ cb \in [Obj -> {"none", "put", "delete", "unbind"}]
    /\ ctx \in [Obj -> {"live", "done"}]
    /\ srv \in {"up", "stopping", "down"} /\ toStop \subseteq Obj

Connected == {"open", "suspect", "closing"}

\* The table never keeps a dead object, nor one under a foreign identity: an entry
\* is connected, or its goroutine is just about to remove it.
NoDanglingPeer ==
    \A i \in Identity : peers[i] # None =>
        LET o == peers[i] IN
        /\ id[o] = i
        /\ st[o] \in Connected \/ cb[o] = "delete"

\* Server.Stop returns, although every callback it waits for takes the lock of the
\* table.
ServerStopReturns == srv = "stopping" ~> srv = "down"

\* The goroutine of an accepted peer that has left ends: "go peerConn.Stop()".
InboundEnds ==
    \A o \in Inbound : st[o] \in {"retiring", "closed"} ~> st[o] = "zombie"

Settled == \A o \in Obj : cb[o] = "none"

=============================================================================
