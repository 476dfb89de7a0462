-------------------------- MODULE PeerTable_proofs --------------------------
(* Theorems about the peer table, for any number of objects and identities. *)
EXTENDS PeerTable, TLAPS

USE ObjAssumption, NoneAssumption, FlagAssumption

Gone == {"retiring", "closed", "zombie"}

\* What a goroutine still has to do in its callback follows from the state it
\* has set, and an admitted or connected object knows its remote.
CallbackMatches ==
    \A o \in Obj : /\ cb[o] = "put" => st[o] = "open"
                   /\ cb[o] \in {"delete", "unbind"} => st[o] \in Gone
                   /\ st[o] \in Connected \cup {"admitted"} => id[o] \in Identity

\* NoDanglingPeer is inductive only with CallbackMatches: without it an object
\* could enter the table after it was closed.
TableInv == TypeOK /\ CallbackMatches /\ NoDanglingPeer

LEMMA TableInit == Init => TableInv
  BY DEF Init, TableInv, TypeOK, CallbackMatches, NoDanglingPeer, ObjState, Connected

\* A step of the machine of o that leaves the table alone.
LEMMA MachineInv ==
    ASSUME TableInv, NEW o \in Obj, NEW s \in ObjState,
           NEW c \in {"none", "put", "delete"}, SetState(o, s, c),
           peers' = peers, bound' \subseteq Identity,
           id' \in [Obj -> Identity \cup {None}],
           \A q \in Obj \ {o} : id'[q] = id[q],
           ctx' \in [Obj -> {"live", "done"}], UNCHANGED <<srv, toStop>>,
           c = "put" => s = "open",
           c = "delete" => s \in Gone,
           s \in Connected \cup {"admitted"} => id'[o] \in Identity,
           st[o] \in Connected => id'[o] = id[o] /\ (s \in Connected \/ c = "delete"),
           cb[o] # "delete"
    PROVE  TableInv'
<1> USE DEF TableInv
<1>1. /\ st \in [Obj -> ObjState] /\ st' = [st EXCEPT ![o] = s]
      /\ cb' = [cb EXCEPT ![o] = c]
      /\ cb \in [Obj -> {"none", "put", "delete", "unbind"}]
  BY DEF SetState, TypeOK
<1>2. TypeOK'
  BY <1>1 DEF TypeOK
<1>3. CallbackMatches'
  BY <1>1 DEF CallbackMatches
<1>4. NoDanglingPeer'
  <2> SUFFICES ASSUME NEW i \in Identity, peers[i] # None
               PROVE  /\ id'[peers[i]] = i
                      /\ st'[peers[i]] \in Connected \/ cb'[peers[i]] = "delete"
    BY DEF NoDanglingPeer
  <2>1. /\ peers[i] \in Obj /\ id[peers[i]] = i
        /\ st[peers[i]] \in Connected \/ cb[peers[i]] = "delete"
    BY DEF NoDanglingPeer, TypeOK
  <2>2. CASE peers[i] = o
    BY <1>1, <2>1, <2>2
  <2>3. CASE peers[i] # o
    BY <1>1, <2>1, <2>3
  <2> QED  BY <2>2, <2>3
<1> QED  BY <1>2, <1>3, <1>4

LEMMA StateMachineInv ==
    ASSUME TableInv, NEW o \in Obj, StateMachine(o) PROVE TableInv'
<1> USE DEF TableInv, TableSame, ServerSame, Gone
<1>0. /\ id \in [Obj -> Identity \cup {None}] /\ bound \subseteq Identity
      /\ ctx \in [Obj -> {"live", "done"}] /\ st[o] \in ObjState
      /\ cb[o] \in {"none", "put", "delete", "unbind"}
      /\ st[o] \in Connected \cup {"admitted"} => id[o] \in Identity
      /\ cb[o] = "put" => st[o] = "open"
      /\ cb[o] \in {"delete", "unbind"} => st[o] \in Gone
  BY DEF TypeOK, CallbackMatches
<1>1. CASE AcceptConn(o)
  BY <1>0, <1>1, MachineInv DEF AcceptConn, ObjState, Connected
<1>2. CASE NoCER(o)
  BY <1>0, <1>2, MachineInv DEF NoCER, ObjState, Connected
<1>3. CASE OpenInbound(o) /\ SetState(o, "refused", "none")
  BY <1>0, <1>3, MachineInv DEF OpenInbound, ObjState, Connected
<1>4. CASE OpenInbound(o) /\ SetState(o, "open", "put")
  BY <1>0, <1>4, MachineInv DEF OpenInbound, ObjState, Connected
<1>5. CASE Lose(o)
  <2>1. /\ SetState(o, "retiring", "delete") /\ cb[o] = "none"
        /\ UNCHANGED <<peers, bound, id, ctx, srv, toStop>>
    BY <1>5 DEF Lose, Running
  <2> QED  BY <1>0, <2>1, MachineInv DEF ObjState, Connected
<1>6. CASE Leave(o)
  <2>1. CASE Running(o, {"open"}) /\ SetState(o, "closing", "none")
    BY <1>0, <1>6, <2>1, MachineInv DEF Leave, Running, ObjState, Connected
  <2>2. CASE Running(o, {"closing", "connecting"}) /\ SetState(o, "closed", "delete")
    BY <1>0, <1>6, <2>2, MachineInv DEF Leave, Running, ObjState, Connected
  <2> QED  BY <1>6, <2>1, <2>2 DEF Leave
<1>7. CASE Watchdog(o)
  <2>1. CASE Running(o, {"open"}) /\ SetState(o, "suspect", "none")
    BY <1>0, <1>7, <2>1, MachineInv DEF Watchdog, Running, ObjState, Connected
  <2>2. CASE Running(o, {"suspect"}) /\ SetState(o, "open", "put")
    BY <1>0, <1>7, <2>2, MachineInv DEF Watchdog, Running, ObjState, Connected
  <2> QED  BY <1>7, <2>1, <2>2 DEF Watchdog
<1>8. CASE \E i \in Identity \cup {None} : Refuse(o, i)
  <2>1. PICK i \in Identity \cup {None} : Refuse(o, i)
    BY <1>8
  <2> QED  BY <1>0, <2>1, MachineInv DEF Refuse, ObjState, Connected
<1>9. CASE \E i \in Identity : OpenOutbound(o, i)
  <2>1. PICK i \in Identity : OpenOutbound(o, i)
    BY <1>9
  <2> QED  BY <1>0, <2>1, MachineInv DEF OpenOutbound, Running, ObjState, Connected
<1>10. CASE \E i \in Identity, p \in BOOLEAN : Admit(o, i, p)
  <2>1. PICK i \in Identity, p \in BOOLEAN : Admit(o, i, p)
    BY <1>10
  <2>2. bound' \subseteq Identity
    BY <1>0, <2>1 DEF Admit
  <2> QED  BY <1>0, <2>1, <2>2, MachineInv DEF Admit, ObjState, Connected
<1>11. CASE ScheduleReconnect(o)
  <2>1. CASE SetState(o, "connecting", "none")
    BY <1>0, <1>11, <2>1, MachineInv DEF ScheduleReconnect, Running, ObjState,
                                         Connected
  <2>2. CASE SetState(o, "zombie", "delete")
    BY <1>0, <1>11, <2>2, MachineInv DEF ScheduleReconnect, Running, ObjState,
                                         Connected
  <2> QED  BY <1>11, <2>1, <2>2 DEF ScheduleReconnect
<1>12. CASE CtxDone(o)
  BY <1>0, <1>12, MachineInv DEF CtxDone, Running, Started, ObjState, Connected
<1> QED  BY <1>1, <1>2, <1>3, <1>4, <1>5, <1>6, <1>7, <1>8, <1>9, <1>10, <1>11,
            <1>12 DEF StateMachine, OpenInbound

LEMMA CallbackInv ==
    ASSUME TableInv, NEW o \in Obj, Callback(o) PROVE TableInv'
<1> USE DEF TableInv, ServerSame
<1>1. CASE CallbackPut(o)
  <2>1. st[o] = "open" /\ id[o] \in Identity
    BY <1>1 DEF CallbackPut, CallbackMatches, Connected
  <2>2. TypeOK'
    BY <1>1, <2>1 DEF CallbackPut, TypeOK
  <2>3. CallbackMatches'
    BY <1>1 DEF CallbackPut, CallbackMatches, TypeOK
  <2>4. NoDanglingPeer'
    BY <1>1, <2>1 DEF CallbackPut, NoDanglingPeer, TypeOK, Connected
  <2> QED  BY <2>2, <2>3, <2>4
<1>2. CASE CallbackDelete(o)
  <2>1. st[o] \in Gone /\ id[o] \in Identity \cup {None}
    BY <1>2 DEF CallbackDelete, CallbackMatches, TypeOK
  <2>2. TypeOK'
    BY <1>2, <2>1 DEF CallbackDelete, TypeOK
  <2>3. CallbackMatches'
    BY <1>2, <2>1 DEF CallbackDelete, CallbackMatches, TypeOK
  <2>4. \A i \in Identity : peers'[i] = o => FALSE
    BY <1>2, <2>1 DEF CallbackDelete, NoDanglingPeer, TypeOK
  <2>5. NoDanglingPeer'
    BY <1>2, <2>4 DEF CallbackDelete, NoDanglingPeer, TypeOK
  <2> QED  BY <2>2, <2>3, <2>5
<1>3. CASE CallbackUnbind(o)
  <2>1. TypeOK'
    BY <1>3 DEF CallbackUnbind, TypeOK
  <2>2. CallbackMatches'
    BY <1>3 DEF CallbackUnbind, CallbackMatches, TypeOK
  <2>3. NoDanglingPeer'
    BY <1>3 DEF CallbackUnbind, NoDanglingPeer, TypeOK
  <2> QED  BY <2>1, <2>2, <2>3
<1> QED  BY <1>1, <1>2, <1>3 DEF Callback

LEMMA StopInv == ASSUME TableInv, StopSnapshot \/ ServerStop PROVE TableInv'
<1> USE DEF TableInv, TableSame, ServerSame
<1>1. TypeOK'
  BY DEF StopSnapshot, ServerStop, StopDone, StopPeer, StopReturns, TypeOK
<1>2. UNCHANGED <<peers, st, id, cb>>
  BY DEF StopSnapshot, ServerStop, StopDone, StopPeer, StopReturns
<1> QED  BY <1>1, <1>2 DEF CallbackMatches, NoDanglingPeer

LEMMA TableStep == TableInv /\ [Next]_vars => TableInv'
<1> SUFFICES ASSUME TableInv, [Next]_vars PROVE TableInv'
  OBVIOUS
<1>1. CASE Next
  BY <1>1, StateMachineInv, CallbackInv, StopInv DEF Next
<1>2. CASE UNCHANGED vars
  BY <1>2 DEF vars, TableInv, TypeOK, CallbackMatches, NoDanglingPeer
<1> QED  BY <1>1, <1>2

\* The inductive invariant of the table.
THEOREM TableInvariance == Spec => []TableInv
  BY TableInit, TableStep, PTL DEF Spec

\* Types of the table, of the OnStateChange callbacks in flight and of Server.Stop's
\* snapshot: whatever connects, closes or stops, Server.peers stays a partial map
\* from identities to peer objects.
THEOREM TableTypeCorrect == Spec => []TypeOK
  BY TableInvariance, PTL DEF TableInv

\* Server.peers maps an identity only to an object that presented it and is
\* connected, or whose OnStateChange callback is about to delete the entry:
\* GetPeer, Peers and the router's lookup never see a dead peer for longer.
THEOREM EntriesAreLive == Spec => []NoDanglingPeer
  BY TableInvariance, PTL DEF TableInv
=============================================================================
