--------------------------- MODULE PeerFSM_proofs ---------------------------
(* Theorems about one Peer, for every number of connections and capacity:     *)
(* type correctness, the timed waits and the election's CER in every role,    *)
(* and, while attempts do not overlap, which connection each state has.       *)
EXTENDS PeerFSM, FiniteSetTheorems, TLAPS

USE NoneAssumption, EventCapAssumption, FlagAssumption

\* The queue after its head was taken.
LEMMA ReceiveFacts ==
    ASSUME NEW q \in Seq(EventMessage), q # <<>>
    PROVE  /\ Head(q) \in EventMessage
           /\ Tail(q) \in Seq(EventMessage)
           /\ Len(Tail(q)) = Len(q) - 1
           /\ Head(q) = q[1]
           /\ \A i \in DOMAIN q : i # 1 => /\ i - 1 \in DOMAIN Tail(q)
                                          /\ Tail(q)[i - 1] = q[i]
  OBVIOUS

\* The queue after an event was appended.
LEMMA SendFacts ==
    ASSUME NEW q \in Seq(EventMessage), NEW e \in EventMessage
    PROVE  /\ Append(q, e) \in Seq(EventMessage)
           /\ Len(Append(q, e)) = Len(q) + 1
           /\ Append(q, e)[Len(q) + 1] = e
           /\ DOMAIN q \subseteq DOMAIN Append(q, e)
           /\ Len(q) + 1 \in DOMAIN Append(q, e)
           /\ \A i \in DOMAIN q : Append(q, e)[i] = q[i]
  OBVIOUS

\* The initial states have their types, whichever end starts the peer.
LEMMA TypeInit == Init => TypeOK
<1> SUFFICES ASSUME Init PROVE TypeOK
  OBVIOUS
<1>1. queue \in Seq(EventMessage) /\ Len(queue) = 1
  <2>1. CASE queue = <<Ev("Start")>>
    <3>1. Ev("Start") \in EventMessage
      BY DEF Ev, EventMessage, Name, Side
    <3> QED  BY <2>1, <3>1
  <2>2. CASE \E c \in Conn : queue = <<RConnCER(c)>>
    <3>1. PICK c \in Conn : queue = <<RConnCER(c)>>
      BY <2>2
    <3>2. RConnCER(c) \in EventMessage
      BY DEF RConnCER, EventMessage
    <3> QED  BY <3>1, <3>2
  <2> QED  BY <2>1, <2>2 DEF Init
<1>2. conn \in [Conn -> {"idle", "up", "dead", "closed"}]
  BY DEF Init
<1>3. /\ rdTop \in [Side -> Nat] /\ rdOn \in [Side -> [Conn -> Nat]]
      /\ rdPost \in [Side -> [PeerEvent -> Nat]]
  BY DEF Init
<1> QED  BY <1>1, <1>2, <1>3 DEF Init, TypeOK, State, Timer

-----------------------------------------------------------------------------
(* The inductive invariant.  WaitIsTimed and ElectionHasCER are inductive   *)
(* relative to the types: TypeOK says that only R-Conn-CER events carry a   *)
(* connection, which is what makes the kept CER exist.                      *)

Inv == TypeOK /\ WaitIsTimed /\ ElectionHasCER

QueueOK == queue \in Seq(EventMessage) /\ Len(queue) <= EventCap

\* What a handler knows of the event it received: only a Timeout can end a pending one.
LEMMA Receive ==
    ASSUME TypeOK, NEW st, NEW w, On(st, w)
    PROVE  /\ Head(queue) \in EventMessage /\ Head(queue).what = w
           /\ QueueOK' /\ state = st /\ pc = "run"
           /\ timeouts' = timeouts /\ w # "Timeout" /\ TimeoutPending
                => TimeoutPending'
<1>1. queue \in Seq(EventMessage) /\ queue # <<>> /\ queue' = Tail(queue)
      /\ Len(queue) \in Nat /\ Len(queue) <= EventCap
  BY DEF TypeOK, On
<1>2. QueueOK'
  BY <1>1, ReceiveFacts DEF QueueOK
<1>3. Head(queue) \in EventMessage /\ Head(queue).what = w /\ state = st
      /\ pc = "run"
  BY <1>1, ReceiveFacts DEF On
<1>4. ASSUME timeouts' = timeouts, w # "Timeout", TimeoutPending
      PROVE  TimeoutPending'
  <2>1. CASE timeouts > 0
    BY <2>1, <1>4 DEF TimeoutPending
  <2>2. CASE \E i \in DOMAIN queue : queue[i].what = "Timeout"
    <3>1. PICK i \in DOMAIN queue : queue[i].what = "Timeout"
      BY <2>2
    <3>2. i # 1
      BY <3>1, <1>1, <1>3, <1>4, ReceiveFacts
    <3>3. i - 1 \in DOMAIN queue' /\ queue'[i - 1] = queue[i]
      BY <3>1, <3>2, <1>1, ReceiveFacts
    <3> QED  BY <3>1, <3>3 DEF TimeoutPending
  <2> QED  BY <2>1, <2>2, <1>4 DEF TimeoutPending
<1> QED  BY <1>2, <1>3, <1>4

\* A sent event keeps the queue within its capacity and loses no Timeout.
LEMMA Sent ==
    ASSUME TypeOK, NEW e \in EventMessage, Room, queue' = Append(queue, e)
    PROVE  /\ QueueOK'
           /\ timeouts' = timeouts /\ TimeoutPending => TimeoutPending'
           /\ e.what = "Timeout" => TimeoutPending'
<1>1. queue \in Seq(EventMessage) /\ Len(queue) \in Nat /\ Len(queue) < EventCap
  BY DEF TypeOK, Room
<1>2. QueueOK'
  BY <1>1, SendFacts DEF QueueOK
<1>3. ASSUME timeouts' = timeouts, TimeoutPending
      PROVE  TimeoutPending'
  <2>1. CASE timeouts > 0
    BY <2>1, <1>3 DEF TimeoutPending
  <2>2. CASE \E i \in DOMAIN queue : queue[i].what = "Timeout"
    BY <2>2, <1>1, SendFacts DEF TimeoutPending
  <2> QED  BY <2>1, <2>2, <1>3 DEF TimeoutPending
<1>4. ASSUME e.what = "Timeout"
      PROVE  TimeoutPending'
  BY <1>1, <1>4, SendFacts DEF TimeoutPending
<1> QED  BY <1>2, <1>3, <1>4

\* Leaving for Closed or Zombie with both connections cleaned up.
LEMMA RetireInv ==
    ASSUME Inv, QueueOK', Retire PROVE Inv'
<1>1. TypeOK'
  BY DEF Inv, TypeOK, QueueOK, Retire, ErrorCleanup, StopTimers, Close,
         ScheduleReconnect, NoSpawn, History, Frame, State, Timer
<1>2. state' \in {"Closed", "Zombie"}
  BY DEF Retire, ScheduleReconnect
<1> QED  BY <1>1, <1>2 DEF Inv, WaitIsTimed, ElectionHasCER, TimedWait, WatchedStates

\* Leaving for Closed without a reconnect timer.
LEMMA AbandonInv ==
    ASSUME Inv, QueueOK', Abandon PROVE Inv'
<1>1. TypeOK'
  BY DEF Inv, TypeOK, QueueOK, Abandon, ErrorCleanup, StopTimers, Close,
         NoSpawn, History, Frame, State, Timer
<1>2. state' = "Closed"
  BY DEF Abandon
<1> QED  BY <1>1, <1>2 DEF Inv, WaitIsTimed, ElectionHasCER, TimedWait, WatchedStates

\* What a refused connection leaves behind.
LEMMA RejectInv ==
    ASSUME Inv, NEW st, NEW w, On(st, w), w # "Timeout",
           NEW c, Reject(c)
    PROVE  Inv'
<1>1. QueueOK' /\ (timeouts' = timeouts => (TimeoutPending => TimeoutPending'))
  BY Receive DEF Inv
<1>2. TypeOK'
  BY <1>1 DEF Inv, TypeOK, QueueOK, Reject, Close, NoSpawn, History, Frame, State,
              Timer
<1>3. WaitIsTimed'
  BY <1>1 DEF Inv, WaitIsTimed, Reject, Frame
<1>4. ElectionHasCER'
  BY DEF Inv, ElectionHasCER, Reject
<1> QED  BY <1>2, <1>3, <1>4 DEF Inv

\* The CER is sent: the state machine waits for the CEA, under its timer.
LEMMA SendCERInv ==
    ASSUME Inv, QueueOK', NEW next \in {"WaitICEA", "WaitReturns"},
           SendCER(next), pc' \in {"run", "elect"},
           next = "WaitReturns" => state = "WaitConnAckElect"
    PROVE  Inv'
<1>1. ActiveConn \in Conn
  BY DEF Inv, TypeOK, SendCER, CanSend, ActiveConn
<1>a. rdTop' \in [Side -> Nat]
  BY DEF Inv, TypeOK, SendCER, SpawnReader, Side
<1>2. TypeOK'
  BY <1>1, <1>a DEF Inv, TypeOK, QueueOK, SendCER, connVars, Frame, State, Timer
<1>3. WaitIsTimed' /\ ElectionHasCER'
  BY DEF Inv, WaitIsTimed, ElectionHasCER, SendCER, connVars, WatchedStates
<1> QED  BY <1>2, <1>3 DEF Inv

\* A CER that arrives during the own attempt is kept with its connection.
LEMMA AcceptCERInv ==
    ASSUME Inv,
           NEW st \in {"WaitConnAck", "WaitICEA"},
           NEW next \in {"WaitConnAckElect", "WaitReturns"},
           AcceptCER(st, next)
    PROVE  Inv'
<1>1. On(st, "ConnCER")
  BY DEF AcceptCER
<1>2. CASE Reject(Head(queue).conn)
  BY <1>1, <1>2, RejectInv
<1>3. CASE ~Reject(Head(queue).conn)
  <2> DEFINE c == Head(queue).conn
  <2>1. /\ rConn' = c /\ pendingCER' = c /\ state' = next
        /\ pc' \in {"run", "elect"}
        /\ UNCHANGED <<iConn, conn, tmo, wd, reconnect>>
        /\ NoSpawn /\ History /\ Frame
    BY <1>1, <1>3, Receive DEF AcceptCER, Elect, Inv
  <2>2. c \in Conn
    BY <1>1, Receive DEF Inv, EventMessage
  <2>3. /\ QueueOK' /\ state = st
        /\ (timeouts' = timeouts => (TimeoutPending => TimeoutPending'))
    BY <1>1, Receive DEF Inv
  <2>4. TypeOK'
    BY <2>1, <2>2, <2>3 DEF Inv, TypeOK, QueueOK, NoSpawn, History, Frame, State,
                            Timer
  <2>5. WaitIsTimed'
    BY <2>1, <2>3 DEF Inv, WaitIsTimed, TimedWait, WatchedStates, Frame
  <2>6. ElectionHasCER'
    BY <2>1, <2>2 DEF ElectionHasCER
  <2> QED  BY <2>4, <2>5, <2>6 DEF Inv
<1> QED  BY <1>2, <1>3

\* The responder connection is opened, or lost on the way.
LEMMA OpenResponderInv ==
    ASSUME Inv, QueueOK', pc = "run", NEW iConns, OpenResponder(iConns)
    PROVE  Inv'
<1>1. iConn' \in Conn \cup {None}
  BY DEF Inv, TypeOK, OpenResponder
<1>2. conn' \in [Conn -> {"idle", "up", "dead", "closed"}]
  BY DEF Inv, TypeOK, OpenResponder, Close
<1>3. CASE CanFail(rConn) /\ rConn' = None /\ state' = "Closed"
           /\ UNCHANGED <<pc, pendingCER, wd, reconnect>> /\ NoSpawn
  <2>1. TypeOK'
    BY <1>1, <1>2, <1>3 DEF Inv, TypeOK, QueueOK, OpenResponder, NoSpawn, History,
                            Frame, State, Timer
  <2> QED  BY <2>1, <1>3 DEF Inv, WaitIsTimed, ElectionHasCER, TimedWait,
                             WatchedStates
<1>4. CASE /\ CanSend(rConn) /\ pendingCER' = None /\ state' = "ROpen"
           /\ wd' = "armed" /\ SpawnReader("R")
           /\ writers' = writers \cup {rConn}
           /\ UNCHANGED <<pc, rConn, reconnect, dialing>>
  <2>1. rConn \in Conn
    BY <1>4 DEF Inv, TypeOK, CanSend
  <2>2. TypeOK'
    BY <1>1, <1>2, <1>4, <2>1
    DEF Inv, TypeOK, QueueOK, OpenResponder, SpawnReader, History, Frame, State,
        Timer, Side
  <2> QED  BY <2>2, <1>4 DEF Inv, WaitIsTimed, ElectionHasCER, TimedWait
<1> QED  BY <1>3, <1>4 DEF OpenResponder

\* The initiator connection is opened.
LEMMA OpenInitiatorInv ==
    ASSUME Inv, QueueOK', OpenInitiator,
           rConn' \in Conn \cup {None}, pendingCER' \in Conn \cup {None},
           conn' \in [Conn -> {"idle", "up", "dead", "closed"}]
    PROVE  Inv'
<1>1. TypeOK'
  BY DEF Inv, TypeOK, QueueOK, OpenInitiator, History, Frame, State, Timer
<1>2. state' = "IOpen" /\ wd' = "armed"
  BY DEF OpenInitiator
<1> QED  BY <1>1, <1>2 DEF Inv, WaitIsTimed, ElectionHasCER, TimedWait

\* The responder connection goes, and the kept CER with it.
LEMMA DropResponderInv ==
    ASSUME Inv,
           NEW st \in {"WaitConnAckElect", "WaitReturns"},
           NEW next \in {"WaitConnAck", "WaitICEA"},
           DropResponder(st, next)
    PROVE  Inv'
<1>1. On(st, "PeerDisc")
  BY DEF DropResponder, OnSide
<1>2. /\ QueueOK' /\ state = st
      /\ (timeouts' = timeouts => (TimeoutPending => TimeoutPending'))
  BY <1>1, Receive DEF Inv
<1>3. TypeOK'
  BY <1>2 DEF Inv, TypeOK, QueueOK, DropResponder, Close, NoSpawn, History, Frame,
              State, Timer
<1>4. WaitIsTimed'
  BY <1>2 DEF Inv, WaitIsTimed, DropResponder, TimedWait, WatchedStates, Frame
<1>5. ElectionHasCER'
  BY DEF ElectionHasCER, DropResponder
<1> QED  BY <1>3, <1>4, <1>5 DEF Inv

-----------------------------------------------------------------------------
(* The handlers of the state machine, one step each.                        *)

\* Every handler of the state machine keeps the invariant.
LEMMA HandlerInv == ASSUME Inv, HandleEvent PROVE Inv'
<1> USE DEF Inv
<1>1. CASE ClosedStart
  <2>1. QueueOK'
    BY <1>1, Receive DEF ClosedStart
  <2>2. TypeOK'
    BY <1>1, <2>1 DEF TypeOK, QueueOK, ClosedStart, connVars, History, Frame, State,
                      Timer
  <2> QED  BY <1>1, <2>2 DEF ClosedStart, WaitIsTimed, ElectionHasCER, WatchedStates
<1>2. CASE ClosedRConnCER
  <2> DEFINE c == Head(queue).conn
  <2>1. On("Closed", "ConnCER")
    BY <1>2 DEF ClosedRConnCER
  <2>2. QueueOK' /\ state = "Closed" /\ c \in Conn
    BY <2>1, Receive DEF EventMessage
  <2>3. CASE Reject(c)
    BY <2>1, <2>3, RejectInv
  <2>4. CASE /\ rConn' = c /\ Close({c})
             /\ UNCHANGED <<state, pc, iConn, pendingCER, tmo, wd, reconnect>>
             /\ NoSpawn /\ History /\ Frame
    <3>1. TypeOK'
      BY <2>2, <2>4 DEF TypeOK, QueueOK, Close, NoSpawn, History, Frame, State, Timer
    <3> QED  BY <3>1, <2>2, <2>4 DEF WaitIsTimed, ElectionHasCER, TimedWait,
                                     WatchedStates
  <2>5. CASE /\ rConn' = c /\ state' = "ROpen" /\ wd' = "armed"
             /\ SpawnReader("R") /\ writers' = writers \cup {c}
             /\ UNCHANGED <<pc, iConn, conn, pendingCER, tmo, reconnect, dialing>>
             /\ History /\ Frame
    <3>1. rdTop' \in [Side -> Nat]
      BY <2>5 DEF TypeOK, SpawnReader, Side
    <3>2. TypeOK'
      BY <3>1, <2>2, <2>5 DEF TypeOK, QueueOK, History, Frame, State, Timer
    <3> QED  BY <3>2, <2>5 DEF WaitIsTimed, ElectionHasCER, TimedWait
  <2> QED  BY <1>2, <2>3, <2>4, <2>5 DEF ClosedRConnCER
<1>3. CASE WaitConnAckAck
  <2>1. QueueOK' /\ pc = "run"
    BY <1>3, Receive DEF WaitConnAckAck
  <2> QED  BY <1>3, <2>1, SendCERInv, AbandonInv DEF WaitConnAckAck
<1>4. CASE WaitConnAckNack
  BY <1>4, Receive, RetireInv DEF WaitConnAckNack
<1>5. CASE WaitConnAckRConnCER
  BY <1>5, AcceptCERInv DEF WaitConnAckRConnCER
<1>6. CASE WaitConnAckElectAck
  <2>1. QueueOK' /\ state = "WaitConnAckElect"
    BY <1>6, Receive DEF WaitConnAckElectAck
  <2>2. CASE SendCER("WaitReturns") /\ Elect
    <3>1. pc' \in {"run", "elect"}
      BY <2>2 DEF Elect
    <3> QED  BY <2>1, <2>2, <3>1, SendCERInv
  <2>3. CASE Abandon
    BY <2>1, <2>3, AbandonInv
  <2> QED  BY <1>6, <2>2, <2>3 DEF WaitConnAckElectAck
<1>7. CASE WaitConnAckElectNack
  BY <1>7, Receive, OpenResponderInv DEF WaitConnAckElectNack
<1>8. CASE WaitConnAckElectRDisc
  BY <1>8, DropResponderInv DEF WaitConnAckElectRDisc
<1>9. CASE WaitICEACEA
  <2>1. QueueOK'
    BY <1>9, Receive DEF WaitICEACEA, OnSide
  <2>2. CASE Abandon
    BY <2>1, <2>2, AbandonInv
  <2>3. CASE OpenInitiator /\ UNCHANGED <<rConn, conn, pendingCER>>
    BY <2>1, <2>3, OpenInitiatorInv DEF TypeOK
  <2> QED  BY <1>9, <2>2, <2>3 DEF WaitICEACEA
<1>10. CASE WaitICEARConnCER
  BY <1>10, AcceptCERInv DEF WaitICEARConnCER
<1>11. CASE WaitICEAIDisc
  BY <1>11, Receive, RetireInv DEF WaitICEAIDisc, OnSide
<1>12. CASE WaitReturnsWin
  BY <1>12, Receive, OpenResponderInv DEF WaitReturnsWin
<1>13. CASE WaitReturnsIDisc
  BY <1>13, Receive, OpenResponderInv DEF WaitReturnsIDisc, OnSide
<1>14. CASE WaitReturnsCEA
  <2>1. QueueOK' /\ rConn' = None /\ pendingCER' = None
    BY <1>14, Receive DEF WaitReturnsCEA, OnSide
  <2>2. CASE OpenInitiator /\ Close({rConn})
    <3>1. conn' \in [Conn -> {"idle", "up", "dead", "closed"}]
      BY <2>2 DEF TypeOK, Close
    <3> QED  BY <2>1, <2>2, <3>1, OpenInitiatorInv
  <2>3. CASE /\ Close({rConn, iConn}) /\ iConn' = None
             /\ state' = "Closed" /\ tmo' = "nil"
             /\ UNCHANGED <<pc, wd, reconnect>> /\ NoSpawn /\ History /\ Frame
    <3>1. TypeOK'
      BY <2>1, <2>3 DEF TypeOK, QueueOK, Close, NoSpawn, History, Frame, State, Timer
    <3> QED  BY <3>1, <2>3 DEF WaitIsTimed, ElectionHasCER, TimedWait, WatchedStates
  <2> QED  BY <1>14, <2>2, <2>3 DEF WaitReturnsCEA
<1>15. CASE WaitReturnsRDisc
  BY <1>15, DropResponderInv DEF WaitReturnsRDisc
<1>16. CASE RejectRConnCER
  BY <1>16, RejectInv DEF RejectRConnCER
<1>17. CASE \E s \in Side : OpenRcv(s)
  <2>1. PICK s \in Side : OpenRcv(s)
    BY <1>17
  <2>2. PICK k \in {"Message", "DWR", "DWA"} : On(OpenState(s), k)
    BY <2>1 DEF OpenRcv, OnSide
  <2>3. QueueOK' /\ (timeouts' = timeouts => (TimeoutPending => TimeoutPending'))
    BY <2>2, Receive
  <2>4. TypeOK'
    BY <2>1, <2>3 DEF TypeOK, QueueOK, OpenRcv, ResetWatchdog, connVars, NoSpawn,
                      History, Frame, State, Timer
  <2>5. WaitIsTimed' /\ ElectionHasCER'
    BY <2>1, <2>3 DEF OpenRcv, ResetWatchdog, connVars, Frame, WaitIsTimed,
                      ElectionHasCER, TypeOK, Timer
  <2> QED  BY <2>4, <2>5
<1>18. CASE \E s \in Side : OpenStop(s) \/ OpenRcvDPR(s)
  <2>1. PICK s \in Side : OpenStop(s) \/ OpenRcvDPR(s)
    BY <1>18
  <2>2. QueueOK'
    BY <2>1, Receive DEF OpenStop, OpenRcvDPR, OnSide
  <2>3. TypeOK'
    BY <2>1, <2>2 DEF TypeOK, QueueOK, OpenStop, OpenRcvDPR, connVars, NoSpawn,
                      History, Frame, State, Timer
  <2>4. state' = "Closing"
    BY <2>1 DEF OpenStop, OpenRcvDPR
  <2> QED  BY <2>3, <2>4 DEF WaitIsTimed, ElectionHasCER, TimedWait, WatchedStates
<1>19. CASE \E s \in Side : OpenPeerDisc(s)
  BY <1>19, Receive, RetireInv DEF OpenPeerDisc, OnSide
<1>20. CASE \E s \in Side : OpenTimeout(s)
  <2>1. PICK s \in Side : OpenTimeout(s)
    BY <1>20
  <2>2. QueueOK' /\ state \in {"IOpen", "ROpen"}
    BY <2>1, Receive DEF OpenTimeout, OpenState
  <2>3. TypeOK'
    BY <2>1, <2>2 DEF TypeOK, QueueOK, OpenTimeout, connVars, NoSpawn, Frame, State,
                      Timer
  <2> QED  BY <2>1, <2>3 DEF OpenTimeout, WaitIsTimed, ElectionHasCER, TimedWait
<1>21. CASE SuspectAlive
  <2>1. PICK k \in {"DWA", "Message"} : On("Suspect", k)
    BY <1>21 DEF SuspectAlive
  <2>2. /\ QueueOK' /\ state = "Suspect"
        /\ (timeouts' = timeouts => (TimeoutPending => TimeoutPending'))
    BY <2>1, Receive
  <2>3. TypeOK'
    BY <1>21, <2>2 DEF TypeOK, QueueOK, SuspectAlive, ResetWatchdog, connVars,
                       NoSpawn, History, Frame, State, Timer
  <2>4. WaitIsTimed' /\ ElectionHasCER'
    BY <1>21, <2>2 DEF SuspectAlive, ResetWatchdog, Frame, WaitIsTimed,
        ElectionHasCER, TypeOK, Timer, TimedWait, WatchedStates
  <2> QED  BY <2>3, <2>4
<1>22. CASE SuspectPeerDisc
  BY <1>22, Receive, RetireInv DEF SuspectPeerDisc
<1>23. CASE ClosingDone
  BY <1>23, Receive, AbandonInv DEF ClosingDone
<1>24. CASE Timeout
  BY <1>24, Receive, RetireInv DEF Timeout
<1>25. CASE Ignore
  <2> DEFINE w == Head(queue).what
  <2>1. On(state, w)
    BY <1>25 DEF Ignore, On
  <2>2. state \in TimedWait \cup WatchedStates => w # "Timeout"
    BY <1>25 DEF Ignore, Handled, TimedWait, WatchedStates
  <2>3. QueueOK' /\ (w # "Timeout" /\ timeouts' = timeouts
                       => (TimeoutPending => TimeoutPending'))
    BY <2>1, Receive
  <2>4. TypeOK'
    BY <1>25, <2>3 DEF TypeOK, QueueOK, Ignore, connVars, NoSpawn, History, Frame,
                       State, Timer
  <2>5. WaitIsTimed' /\ ElectionHasCER'
    BY <1>25, <2>2, <2>3 DEF Ignore, connVars, Frame, WaitIsTimed, ElectionHasCER
  <2> QED  BY <2>4, <2>5
<1> QED  BY <1>1, <1>2, <1>3, <1>4, <1>5, <1>6, <1>7, <1>8, <1>9, <1>10, <1>11,
            <1>12, <1>13, <1>14, <1>15, <1>16, <1>17, <1>18, <1>19, <1>20, <1>21,
            <1>22, <1>23, <1>24, <1>25 DEF HandleEvent

\* So do the end of the state machine and the election it wins.
LEMMA StateMachineInv == ASSUME Inv, StateMachine PROVE Inv'
<1>1. CASE HandleEvent
  BY <1>1, HandlerInv
<1>2. CASE CtxDone
  <2>1. TypeOK'
    BY <1>2 DEF Inv, TypeOK, CtxDone, ErrorCleanup, StopTimers, Close, NoSpawn,
                History, Frame, State, Timer
  <2>2. state' = "Zombie"
    BY <1>2 DEF CtxDone
  <2> QED  BY <2>1, <2>2 DEF Inv, WaitIsTimed, ElectionHasCER, TimedWait,
                             WatchedStates
<1>3. CASE PostWinElection
  <2>1. Ev("WinElection") \in EventMessage
    BY DEF Ev, EventMessage, Name, Side
  <2>2. QueueOK' /\ (timeouts' = timeouts => (TimeoutPending => TimeoutPending'))
    BY <1>3, <2>1, Sent DEF Inv, PostWinElection
  <2>3. TypeOK'
    BY <1>3, <2>2 DEF Inv, TypeOK, QueueOK, PostWinElection, connVars, NoSpawn,
                      History, Frame, State, Timer
  <2>4. WaitIsTimed' /\ ElectionHasCER'
    BY <1>3, <2>2 DEF Inv, PostWinElection, connVars, Frame, WaitIsTimed,
                      ElectionHasCER
  <2> QED  BY <2>3, <2>4 DEF Inv
<1> QED  BY <1>1, <1>2, <1>3 DEF StateMachine

-----------------------------------------------------------------------------
(* The other goroutines and the environment leave what the state machine    *)
(* owns alone; they must not lose a Timeout.                                *)

\* A step outside the state machine.
LEMMA OutsideInv ==
    ASSUME Inv, TypeOK', UNCHANGED <<state, rConn, pendingCER>>,
           tmo' = tmo \/ TimeoutPending', wd' = wd \/ TimeoutPending',
           TimeoutPending => TimeoutPending'
    PROVE  Inv'
  BY DEF Inv, WaitIsTimed, ElectionHasCER

\* What the goroutines send are events.
LEMMA PostedEvents ==
    /\ \A w \in Name \ {"ConnCER"} : Ev(w) \in EventMessage
    /\ \A s \in Side, w \in PeerEvent : SideEv(s, w) \in EventMessage
    /\ \A c \in Conn : RConnCER(c) \in EventMessage
  BY DEF Ev, SideEv, RConnCER, EventMessage, Name, Side, PeerEvent, Kind

\* Dialers, timers, read loops and writers keep the invariant.
LEMMA GoroutineInv == ASSUME Inv, Goroutines PROVE Inv'
<1> USE DEF SMVars, TimerVars, DialVars, LoopVars
<1>0. TypeOK
  BY DEF Inv
<1>1. CASE \E c \in Conn : DialOk(c)
  <2>1. PICK c \in Conn : DialOk(c)
    BY <1>1
  <2>2. conn' \in [Conn -> {"idle", "up", "dead", "closed"}]
    BY <1>0, <2>1 DEF TypeOK, DialOk
  <2>3. TypeOK'
    BY <1>0, <2>1, <2>2 DEF TypeOK, DialOk, State, Timer
  <2> QED  BY <2>1, <2>3, OutsideInv DEF DialOk, TimeoutPending
<1>2. CASE DialFail
  <2>1. TypeOK'
    BY <1>0, <1>2 DEF TypeOK, DialFail, State, Timer
  <2> QED  BY <1>2, <2>1, OutsideInv DEF DialFail, TimeoutPending
<1>3. CASE PostAck
  <2>1. QueueOK' /\ (TimeoutPending => TimeoutPending')
    BY <1>0, <1>3, Sent, PostedEvents DEF PostAck, Post, Name
  <2>2. TypeOK'
    BY <1>0, <1>3, <2>1 DEF TypeOK, QueueOK, PostAck, State, Timer
  <2> QED  BY <1>3, <2>1, <2>2, OutsideInv DEF PostAck
<1>4. CASE PostNack
  <2>1. QueueOK' /\ (TimeoutPending => TimeoutPending')
    BY <1>0, <1>4, Sent, PostedEvents DEF PostNack, Post, Name
  <2>2. TypeOK'
    BY <1>0, <1>4, <2>1 DEF TypeOK, QueueOK, PostNack, State, Timer
  <2> QED  BY <1>4, <2>1, <2>2, OutsideInv DEF PostNack
<1>5. CASE FireTimeout \/ FireWatchdog
  <2>1. TypeOK'
    BY <1>0, <1>5 DEF TypeOK, FireTimeout, FireWatchdog, State, Timer
  <2>2. TimeoutPending'
    BY <1>0, <1>5 DEF TypeOK, FireTimeout, FireWatchdog, TimeoutPending
  <2> QED  BY <1>5, <2>1, <2>2, OutsideInv DEF FireTimeout, FireWatchdog
<1>6. CASE PostTimeout
  <2>1. Ev("Timeout") \in EventMessage /\ Ev("Timeout").what = "Timeout"
    BY PostedEvents DEF Ev, Name
  <2>2. QueueOK' /\ TimeoutPending'
    BY <1>0, <1>6, <2>1, Sent DEF PostTimeout, Post
  <2>3. TypeOK'
    BY <1>0, <1>6, <2>2 DEF TypeOK, QueueOK, PostTimeout, State, Timer
  <2> QED  BY <1>6, <2>2, <2>3, OutsideInv DEF PostTimeout
<1>7. CASE FireReconnect
  <2>1. TypeOK'
    BY <1>0, <1>7 DEF TypeOK, FireReconnect, State, Timer
  <2> QED  BY <1>7, <2>1, OutsideInv DEF FireReconnect, TimeoutPending
<1>8. CASE PostStart
  <2>1. QueueOK' /\ (TimeoutPending => TimeoutPending')
    BY <1>0, <1>8, Sent, PostedEvents DEF PostStart, Post, Name
  <2>2. TypeOK'
    BY <1>0, <1>8, <2>1 DEF TypeOK, QueueOK, PostStart, State, Timer
  <2> QED  BY <1>8, <2>1, <2>2, OutsideInv DEF PostStart
<1>9. CASE \E s \in Side : ReadTop(s)
  <2>1. PICK s \in Side : ReadTop(s)
    BY <1>9
  <2>2. rdTop' \in [Side -> Nat]
    BY <1>0, <2>1 DEF TypeOK, ReadTop
  <2>3. rdOn' \in [Side -> [Conn -> Nat]]
    <3> DEFINE c == IF s = "I" THEN iConn ELSE rConn
    <3>1. CASE rdOn' = rdOn
      BY <1>0, <3>1 DEF TypeOK
    <3>2. CASE c \in Conn /\ rdOn' = [rdOn EXCEPT ![s][c] = @ + 1]
      BY <1>0, <3>2 DEF TypeOK
    <3> QED  BY <1>0, <2>1, <3>1, <3>2 DEF TypeOK, ReadTop
  <2>4. TypeOK'
    BY <1>0, <2>1, <2>2, <2>3 DEF TypeOK, ReadTop, State, Timer
  <2> QED  BY <2>1, <2>4, OutsideInv DEF ReadTop, TimeoutPending
<1>10. CASE \E s \in Side, c \in Conn, e \in PeerEvent : ReadReturns(s, c, e)
  <2>1. PICK s \in Side, c \in Conn, e \in PeerEvent : ReadReturns(s, c, e)
    BY <1>10
  <2>2. rdOn' \in [Side -> [Conn -> Nat]]
    BY <1>0, <2>1 DEF TypeOK, ReadReturns
  <2>3. rdPost' \in [Side -> [PeerEvent -> Nat]]
    BY <1>0, <2>1 DEF TypeOK, ReadReturns
  <2>4. TypeOK'
    BY <1>0, <2>1, <2>2, <2>3 DEF TypeOK, ReadReturns, State, Timer
  <2> QED  BY <2>1, <2>4, OutsideInv DEF ReadReturns, TimeoutPending
<1>11. CASE \E s \in Side, e \in PeerEvent : ReadPost(s, e)
  <2>1. PICK s \in Side, e \in PeerEvent : ReadPost(s, e)
    BY <1>11
  <2>2. QueueOK' /\ (TimeoutPending => TimeoutPending')
    BY <1>0, <2>1, Sent, PostedEvents DEF ReadPost, Post
  <2>3. rdTop' \in [Side -> Nat] /\ rdPost' \in [Side -> [PeerEvent -> Nat]]
    BY <1>0, <2>1 DEF TypeOK, ReadPost
  <2>4. TypeOK'
    BY <1>0, <2>1, <2>2, <2>3 DEF TypeOK, QueueOK, ReadPost, State, Timer
  <2> QED  BY <2>1, <2>2, <2>4, OutsideInv DEF ReadPost
<1>12. CASE \E c \in Conn : WriteFails(c)
  <2>1. PICK c \in Conn : WriteFails(c)
    BY <1>12
  <2> DEFINE e == SideEv(IF iConn # None THEN "I" ELSE "R", "PeerDisc")
  <2>2. e \in EventMessage
    BY PostedEvents DEF Side, PeerEvent
  <2>3. QueueOK' /\ (TimeoutPending => TimeoutPending')
    <3>1. CASE Room
      <4> HIDE DEF e
      <4> QED  BY <1>0, <2>1, <2>2, <3>1, Sent DEF WriteFails, e
    <3>2. CASE ~Room
      BY <1>0, <2>1, <3>2 DEF WriteFails, TypeOK, QueueOK, TimeoutPending
    <3> QED  BY <3>1, <3>2
  <2>4. TypeOK'
    BY <1>0, <2>1, <2>3 DEF TypeOK, QueueOK, WriteFails, State, Timer
  <2> QED  BY <2>1, <2>3, <2>4, OutsideInv DEF WriteFails
<1>13. CASE \E c \in Conn : WriterStops(c)
  <2>1. PICK c \in Conn : WriterStops(c)
    BY <1>13
  <2>2. TypeOK'
    BY <1>0, <2>1 DEF TypeOK, WriterStops, State, Timer
  <2> QED  BY <2>1, <2>2, OutsideInv DEF WriterStops, TimeoutPending
<1> QED  BY <1>1, <1>2, <1>3, <1>4, <1>5, <1>6, <1>7, <1>8, <1>9, <1>10, <1>11,
            <1>12, <1>13 DEF Goroutines

\* So do the remote end and the application.
LEMMA EnvironmentInv == ASSUME Inv, Environment PROVE Inv'
<1> USE DEF SMVars, TimerVars, DialVars, LoopVars
<1>0. TypeOK
  BY DEF Inv
<1>1. CASE \E c \in Conn : RemoteCloses(c)
  <2>1. TypeOK'
    BY <1>0, <1>1 DEF TypeOK, RemoteCloses, State, Timer
  <2> QED  BY <1>1, <2>1, OutsideInv DEF RemoteCloses, TimeoutPending
<1>2. CASE \E c \in Conn : InjectRConnCER(c)
  <2>1. PICK c \in Conn : InjectRConnCER(c)
    BY <1>2
  <2>2. QueueOK' /\ (TimeoutPending => TimeoutPending')
    BY <1>0, <2>1, Sent, PostedEvents DEF InjectRConnCER, Post
  <2>3. conn' \in [Conn -> {"idle", "up", "dead", "closed"}]
    BY <1>0, <2>1 DEF TypeOK, InjectRConnCER
  <2>4. TypeOK'
    BY <1>0, <2>1, <2>2, <2>3 DEF TypeOK, QueueOK, InjectRConnCER, State, Timer
  <2> QED  BY <2>1, <2>2, <2>4, OutsideInv DEF InjectRConnCER
<1>3. CASE Disconnect
  <2>1. QueueOK' /\ (TimeoutPending => TimeoutPending')
    BY <1>0, <1>3, Sent, PostedEvents DEF Disconnect, Post, Name
  <2>2. TypeOK'
    BY <1>0, <1>3, <2>1 DEF TypeOK, QueueOK, Disconnect, State, Timer
  <2> QED  BY <1>3, <2>1, <2>2, OutsideInv DEF Disconnect
<1>4. CASE Stop
  <2>1. TypeOK'
    BY <1>0, <1>4 DEF TypeOK, Stop, State, Timer
  <2> QED  BY <1>4, <2>1, OutsideInv DEF Stop, TimeoutPending
<1> QED  BY <1>1, <1>2, <1>3, <1>4 DEF Environment

-----------------------------------------------------------------------------
(* The theorems.                                                            *)

\* The invariant holds initially.
LEMMA InitInv == Init => Inv
<1>1. Init => TypeOK
  BY TypeInit
<1>2. Init => state = "Closed"
  BY DEF Init
<1> QED  BY <1>1, <1>2 DEF Inv, WaitIsTimed, ElectionHasCER, TimedWait, WatchedStates

\* Every step keeps it.
LEMMA StepInv == Inv /\ [Next]_vars => Inv'
<1> SUFFICES ASSUME Inv, [Next]_vars PROVE Inv'
  OBVIOUS
<1>1. CASE Next
  BY <1>1, StateMachineInv, GoroutineInv, EnvironmentInv DEF Next
<1>2. CASE UNCHANGED vars
  BY <1>2 DEF vars, Inv, TypeOK, WaitIsTimed, ElectionHasCER, TimeoutPending, State,
              Timer
<1> QED  BY <1>1, <1>2

\* The inductive invariant holds in every behaviour, for every set of
\* connections, channel capacity, role and timing of the peer.
THEOREM Invariance == Spec => []Inv
  BY InitInv, StepInv, PTL DEF Spec

\* Every variable keeps its type; in particular no goroutine overfills
\* eventChan (peer.New gives it 256 slots) and only R-Conn-CER carries a
\* connection.
THEOREM TypeCorrect == Spec => []TypeOK
  BY Invariance, PTL DEF Inv

\* Wait-Conn-Ack, Wait-I-CEA, Wait-Conn-Ack/Elect and Wait-Returns always have
\* their startTimeout running, the open states and Suspect their watchdog, or a
\* Timeout is already on its way to eventChan: the peer never waits for an
\* answer that nothing bounds.
THEOREM WaitsAreTimed == Spec => []WaitIsTimed
  BY Invariance, PTL DEF Inv

\* The pendingCER that Win-Election, I-Rcv-Conn-Nack and I-Peer-Disc answer on
\* the responder connection exists, and came on that connection.
THEOREM ElectionKeepsCER == Spec => []ElectionHasCER
  BY Invariance, PTL DEF Inv

-----------------------------------------------------------------------------
(* One connection attempt at a time.  A peer that is not persistent starts  *)
(* once; a persistent one that is only dialled out, and whose timers outlast *)
(* its dials (Timely), starts again only when nothing of the last attempt is *)
(* left.  Either way an attempt is in one place: an armed reconnect timer, a *)
(* goroutine, or an event of the queue.                                     *)

SingleTry == ~Persistent \/ (StartedBy = {"Start"} /\ ~Responder /\ Timely)

Token      == {"Start", "ConnAck", "ConnNack"}
InQueue(W) == \E i \in DOMAIN queue : queue[i].what \in W
Live       == pc # "exited"
Attempts   == reconnect + starts + dialing + acks + nacks

\* The attempt is yet to begin; it is under way.
Restarts == reconnect > 0 \/ starts > 0 \/ InQueue({"Start"})
Dials    == dialing > 0 \/ acks > 0 \/ nacks > 0 \/ InQueue({"ConnAck", "ConnNack"})

\* There is one attempt at most.
OneAttempt ==
    /\ Attempts <= 1
    /\ \A i, j \in DOMAIN queue : queue[i].what \in Token /\ queue[j].what \in Token => i = j
    /\ InQueue(Token) => Attempts = 0

\* The state machine is where the attempt is expected.
Placed ==
    /\ state = "Zombie" <=> pc = "exited"
    /\ Live /\ Restarts => state = "Closed" /\ rConn = None
    /\ Live /\ Dials => state \in {"WaitConnAck", "WaitConnAckElect"}

\* A peer that is not persistent handles its Start first; a persistent one accepts nothing.
Kinds ==
    /\ ~Persistent => /\ reconnect = 0 /\ starts = 0
                      /\ \A i \in DOMAIN queue : queue[i].what = "Start" => i = 1
    /\ Persistent => \A i \in DOMAIN queue : queue[i].what # "ConnCER"

\* No old Timeout meets a new attempt, and none overtakes the result of the dial.
Calm ==
    Persistent =>
        /\ Restarts => tmo = "nil" /\ wd = "nil"
        /\ Live /\ (starts > 0 \/ InQueue({"Start"}) \/ dialing + acks + nacks > 0) => ~TimeoutPending
        /\ Live => \A i, j \in DOMAIN queue :
              queue[i].what \in {"ConnAck", "ConnNack"} /\ queue[j].what = "Timeout" => i < j

\* The connections a peer has in each state, and while it dials.
Dialled ==
    /\ Live /\ (dialing > 0 \/ nacks > 0 \/ InQueue({"ConnNack"})) => iConn = None
    /\ Live /\ (acks > 0 \/ InQueue({"ConnAck"})) => iConn # None
Connected ==
    /\ state = "Closed" => iConn = None
    /\ state \in {"WaitConnAck", "WaitICEA", "IOpen"} => rConn = None
    /\ state \in {"WaitICEA", "WaitReturns", "IOpen"} => iConn # None /\ iConn = cerConn
    /\ state = "ROpen" => iConn = None /\ rConn # None
    /\ state = "Suspect" => \/ lastOpen = "IOpen" /\ iConn # None /\ iConn = cerConn /\ rConn = None
                            \/ lastOpen = "ROpen" /\ iConn = None /\ rConn # None

AttemptInv == OneAttempt /\ Placed /\ Kinds /\ Calm /\ Dialled /\ Connected

\* What receiving an event leaves of the attempt.
LEMMA ReceivedTokens ==
    ASSUME TypeOK, OneAttempt, Kinds, NEW st, NEW w, On(st, w)
    PROVE  /\ \A i \in DOMAIN queue' : i \in Nat /\ i + 1 \in DOMAIN queue /\ queue'[i] = queue[i + 1]
           /\ 1 \in DOMAIN queue /\ queue[1].what = w /\ state = st /\ pc = "run"
           /\ \A W : InQueue(W)' => InQueue(W)
           /\ w \in Token => ~InQueue(Token)' /\ Attempts = 0
           /\ ~Persistent => ~InQueue({"Start"})'
<1>1. queue \in Seq(EventMessage) /\ queue # <<>> /\ queue' = Tail(queue) /\ Head(queue).what = w
  BY DEF TypeOK, On
<1>2. ASSUME NEW q \in Seq(EventMessage), q # <<>>
      PROVE  /\ \A i \in DOMAIN Tail(q) : i \in Nat /\ i + 1 \in DOMAIN q /\ Tail(q)[i] = q[i + 1] /\ i + 1 # 1
             /\ 1 \in DOMAIN q /\ Head(q) = q[1]
  BY <1>2
<1>3. /\ \A i \in DOMAIN queue' : i \in Nat /\ i + 1 \in DOMAIN queue /\ queue'[i] = queue[i + 1] /\ i + 1 # 1
      /\ 1 \in DOMAIN queue /\ queue[1].what = w
  BY <1>1, <1>2
<1>4. \A W : InQueue(W)' => InQueue(W)
  BY <1>3 DEF InQueue
<1>5. w \in Token => ~InQueue(Token)' /\ Attempts = 0
  <2>1. w \in Token => Attempts = 0
    BY <1>3 DEF OneAttempt, InQueue
  <2>2. w \in Token => ~InQueue(Token)'
    BY <1>3 DEF OneAttempt, InQueue
  <2> QED  BY <2>1, <2>2
<1>6. ~Persistent => ~InQueue({"Start"})'
  BY <1>3 DEF Kinds, InQueue
<1> QED  BY <1>3, <1>4, <1>5, <1>6 DEF On

\* A handler that neither dials nor arms a reconnect timer.
LEMMA KeptAttempt ==
    ASSUME TypeOK, OneAttempt, Kinds, NEW st, NEW w, On(st, w),
           UNCHANGED <<reconnect, starts, dialing, acks, nacks>>
    PROVE  /\ OneAttempt' /\ Kinds' /\ (Restarts' => Restarts) /\ (Dials' => Dials)
           /\ w \in Token => ~Restarts' /\ ~Dials'
<1>1. /\ \A i \in DOMAIN queue' : i \in Nat /\ i + 1 \in DOMAIN queue /\ queue'[i] = queue[i + 1]
      /\ \A W : InQueue(W)' => InQueue(W)
      /\ w \in Token => ~InQueue(Token)' /\ Attempts = 0
      /\ ~Persistent => ~InQueue({"Start"})'
  BY ReceivedTokens
<1>2. Attempts' = Attempts
  BY DEF Attempts
<1>3. OneAttempt'
  <2>1. \A i, j \in DOMAIN queue' : queue'[i].what \in Token /\ queue'[j].what \in Token => i = j
    <3> SUFFICES ASSUME NEW i \in DOMAIN queue', NEW j \in DOMAIN queue',
                        queue'[i].what \in Token, queue'[j].what \in Token
                 PROVE  i = j
      OBVIOUS
    <3>1. i + 1 = j + 1 /\ i \in Nat /\ j \in Nat
      BY <1>1 DEF OneAttempt
    <3> QED  BY <3>1
  <2> QED  BY <1>1, <1>2, <2>1 DEF OneAttempt
<1>4. Kinds'
  BY <1>1 DEF Kinds, InQueue
<1>5. (Restarts' => Restarts) /\ (Dials' => Dials)
  BY <1>1 DEF Restarts, Dials
<1>6. ASSUME w \in Token PROVE ~Restarts' /\ ~Dials'
  <2>1. reconnect \in Nat /\ starts \in Nat /\ dialing \in Nat /\ acks \in Nat /\ nacks \in Nat
    BY DEF TypeOK
  <2>2. reconnect = 0 /\ starts = 0 /\ dialing = 0 /\ acks = 0 /\ nacks = 0
    BY <1>1, <1>6, <2>1 DEF Attempts
  <2>3. ~InQueue({"Start"})' /\ ~InQueue({"ConnAck", "ConnNack"})'
    BY <1>1, <1>6 DEF InQueue, Token
  <2> QED  BY <2>2, <2>3 DEF Restarts, Dials
<1> QED  BY <1>3, <1>4, <1>5, <1>6

\* After a step that leaves nothing of an attempt.
LEMMA NoAttempt ==
    ASSUME TypeOK', OneAttempt', Kinds', ~Restarts', ~Dials',
           (state' = "Zombie") = (pc' = "exited"), Connected'
    PROVE  AttemptInv'
<1>1. ~InQueue({"Start"})' /\ ~InQueue({"ConnAck"})' /\ ~InQueue({"ConnNack"})'
  BY DEF Restarts, Dials, InQueue
<1>2. reconnect' = 0 /\ starts' = 0 /\ dialing' = 0 /\ acks' = 0 /\ nacks' = 0
  BY DEF Restarts, Dials, TypeOK
<1>3. Calm'
  BY <1>1, <1>2 DEF Calm, InQueue, Restarts
<1>4. Dialled'
  BY <1>1, <1>2 DEF Dialled
<1>5. Placed'
  BY DEF Placed
<1> QED  BY <1>3, <1>4, <1>5 DEF AttemptInv

\* A handler that starts no attempt, in a state that has none or on the event
\* that ends one.
LEMMA Ends ==
    ASSUME TypeOK, TypeOK', AttemptInv, NEW st, NEW w, On(st, w),
           UNCHANGED <<reconnect, starts, dialing, acks, nacks>>,
           \/ w \in Token
           \/ st \notin {"Closed", "WaitConnAck", "WaitConnAckElect"},
           (state' = "Zombie") = (pc' = "exited"), Connected'
    PROVE  AttemptInv'
<1>1. /\ OneAttempt' /\ Kinds' /\ (Restarts' => Restarts) /\ (Dials' => Dials)
      /\ (w \in Token => ~Restarts' /\ ~Dials')
  BY KeptAttempt DEF AttemptInv
<1>2. state = st /\ pc = "run"
  BY DEF On
<1>3. ~Restarts' /\ ~Dials'
  BY <1>1, <1>2 DEF AttemptInv, Placed, Live
<1> QED  BY <1>1, <1>3, NoAttempt

\* The timers of a handler that goes on with the attempt: no Timeout is new and
\* the order of the queue is kept.
LEMMA CalmKept ==
    ASSUME TypeOK, AttemptInv, NEW st, NEW w, On(st, w),
           UNCHANGED <<reconnect, starts, dialing, acks, nacks, timeouts>>,
           tmo = "nil" => tmo' = "nil", wd = "nil" => wd' = "nil"
    PROVE  Calm'
<1>1. /\ \A i \in DOMAIN queue' : i \in Nat /\ i + 1 \in DOMAIN queue
                                  /\ queue'[i] = queue[i + 1]
      /\ \A W : InQueue(W)' => InQueue(W)
      /\ pc = "run"
  BY ReceivedTokens DEF AttemptInv
<1>2. (Restarts' => Restarts) /\ (TimeoutPending' => TimeoutPending)
  BY <1>1, KeptAttempt DEF AttemptInv, TimeoutPending
<1>3. SUFFICES ASSUME Persistent PROVE Calm'
  BY DEF Calm
<1>4. /\ Restarts => tmo = "nil" /\ wd = "nil"
      /\ starts > 0 \/ InQueue({"Start"}) \/ dialing + acks + nacks > 0 => ~TimeoutPending
      /\ \A i, j \in DOMAIN queue :
            queue[i].what \in {"ConnAck", "ConnNack"} /\ queue[j].what = "Timeout" => i < j
  BY <1>1, <1>3 DEF AttemptInv, Calm, Live
<1>5. \A i, j \in DOMAIN queue' :
        queue'[i].what \in {"ConnAck", "ConnNack"} /\ queue'[j].what = "Timeout" => i < j
  <2> SUFFICES ASSUME NEW i \in DOMAIN queue', NEW j \in DOMAIN queue',
                      queue'[i].what \in {"ConnAck", "ConnNack"},
                      queue'[j].what = "Timeout"
               PROVE  i < j
    OBVIOUS
  <2>1. i + 1 < j + 1 /\ i \in Nat /\ j \in Nat
    BY <1>1, <1>4
  <2> QED  BY <2>1
<1> QED  BY <1>1, <1>2, <1>4, <1>5 DEF Calm

\* A handler that leaves the attempt where it is.
LEMMA GoesOn ==
    ASSUME TypeOK, TypeOK', AttemptInv, NEW st, NEW w, On(st, w),
           UNCHANGED <<reconnect, starts, dialing, acks, nacks, timeouts, iConn>>,
           tmo = "nil" => tmo' = "nil", wd = "nil" => wd' = "nil",
           (state' = "Zombie") = (pc' = "exited"), Connected',
           Restarts => state' = "Closed" /\ rConn' = None,
           Dials => state' \in {"WaitConnAck", "WaitConnAckElect"}
    PROVE  AttemptInv'
<1>1. /\ OneAttempt' /\ Kinds' /\ (Restarts' => Restarts) /\ (Dials' => Dials)
      /\ \A W : InQueue(W)' => InQueue(W)
      /\ pc = "run"
  BY KeptAttempt, ReceivedTokens DEF AttemptInv
<1>2. Calm'
  BY CalmKept
<1>3. Dialled'
  BY <1>1 DEF AttemptInv, Dialled, Live
<1>4. Placed'
  BY <1>1 DEF Placed
<1> QED  BY <1>1, <1>2, <1>3, <1>4 DEF AttemptInv

\* A handler that only drops its event, or refuses a connection.
LEMMA Stays ==
    ASSUME TypeOK, TypeOK', AttemptInv, NEW st, NEW w, On(st, w),
           UNCHANGED <<reconnect, starts, dialing, acks, nacks, timeouts,
                       state, pc, iConn, rConn, cerConn, lastOpen>>,
           tmo = "nil" => tmo' = "nil", wd = "nil" => wd' = "nil"
    PROVE  AttemptInv'
<1>1. pc = "run"
  BY DEF On
<1>2. Connected' /\ (state' = "Zombie") = (pc' = "exited")
  BY DEF AttemptInv, Connected, Placed
<1>3. /\ Restarts => state' = "Closed" /\ rConn' = None
      /\ Dials => state' \in {"WaitConnAck", "WaitConnAckElect"}
  BY <1>1 DEF AttemptInv, Placed, Live
<1> QED  BY <1>2, <1>3, GoesOn

\* A refused connection changes nothing of the attempt.
LEMMA RejectStays ==
    ASSUME TypeOK, TypeOK', AttemptInv, NEW st, NEW w, On(st, w), NEW c, Reject(c)
    PROVE  AttemptInv'
<1>1. /\ UNCHANGED <<reconnect, starts, dialing, acks, nacks, timeouts,
                     state, pc, iConn, rConn, cerConn, lastOpen>>
      /\ tmo' = tmo /\ wd' = wd
  BY DEF Reject, NoSpawn, History, Frame
<1> QED  BY <1>1, Stays

\* The attempt is over: it is followed by an armed reconnect timer, or by the
\* end of the state machine.
LEMMA RetireAttempt ==
    ASSUME TypeOK, TypeOK', AttemptInv, NEW st, NEW w, On(st, w), Retire,
           \/ w \in Token \cup {"Timeout"}
           \/ st \notin {"WaitConnAck", "WaitConnAckElect"},
           st \notin {"Closed", "Zombie"}
    PROVE  AttemptInv'
<1>1. /\ \A i \in DOMAIN queue' : i \in Nat /\ i + 1 \in DOMAIN queue
                                  /\ queue'[i] = queue[i + 1]
      /\ 1 \in DOMAIN queue /\ queue[1].what = w /\ state = st /\ pc = "run"
      /\ \A W : InQueue(W)' => InQueue(W)
      /\ (w \in Token => ~InQueue(Token)' /\ Attempts = 0)
  BY ReceivedTokens DEF AttemptInv
<1>2. /\ UNCHANGED <<starts, dialing, acks, nacks, timeouts>>
      /\ iConn' = None /\ rConn' = None /\ tmo' = "nil" /\ wd' = "nil"
  BY DEF Retire, ErrorCleanup, StopTimers, NoSpawn, Frame
<1>3. ASSUME Persistent PROVE AttemptInv'
  <2>1. reconnect' = reconnect + 1 /\ state' = "Closed" /\ pc' = "run"
    BY <1>1, <1>3 DEF Retire, ScheduleReconnect
  <2>2. ~InQueue(Token)' /\ Attempts = 0
    <3>1. CASE w \in Token
      BY <1>1, <3>1
    <3>2. CASE w \notin Token
      <4>1. ~Restarts
        BY <1>1 DEF AttemptInv, Placed, Live
      <4>2. ~Dials
        <5>1. CASE st \notin {"WaitConnAck", "WaitConnAckElect"}
          BY <1>1, <5>1 DEF AttemptInv, Placed, Live
        <5>2. CASE w = "Timeout"
          <6>1. TimeoutPending
            BY <1>1, <5>2 DEF TimeoutPending
          <6>2. /\ ~(dialing + acks + nacks > 0)
                /\ \A i \in DOMAIN queue : queue[i].what \in {"ConnAck", "ConnNack"} => i < 1
            BY <1>1, <1>3, <5>2, <6>1 DEF AttemptInv, Calm, Live
          <6>3. \A i \in DOMAIN queue : i \in Nat /\ i >= 1
            BY DEF TypeOK
          <6>4. ~InQueue({"ConnAck", "ConnNack"})
            BY <6>2, <6>3 DEF InQueue
          <6> QED  BY <6>2, <6>4 DEF Dials, TypeOK
        <5> QED  BY <3>2, <5>1, <5>2
      <4>3. ~InQueue(Token)
        BY <4>1, <4>2 DEF Restarts, Dials, InQueue, Token
      <4>4. Attempts = 0
        BY <4>1, <4>2 DEF Restarts, Dials, Attempts, TypeOK
      <4> QED  BY <1>1, <4>3, <4>4
    <3> QED  BY <3>1, <3>2
  <2>3. reconnect' = 1 /\ starts' = 0 /\ dialing' = 0 /\ acks' = 0 /\ nacks' = 0
    BY <1>2, <2>1, <2>2 DEF Attempts, TypeOK
  <2>4. OneAttempt'
    BY <2>2, <2>3 DEF OneAttempt, Attempts, InQueue
  <2>5. Kinds'
    BY <1>1, <1>3 DEF AttemptInv, Kinds
  <2>6. ~InQueue({"Start"})' /\ ~InQueue({"ConnAck"})' /\ ~InQueue({"ConnNack"})'
        /\ ~InQueue({"ConnAck", "ConnNack"})'
    BY <2>2 DEF InQueue, Token
  <2>7. Placed' /\ Dialled'
    BY <1>2, <2>1, <2>3, <2>6 DEF Placed, Dialled, Dials
  <2>8. Calm'
    BY <1>2, <2>3, <2>6 DEF Calm, InQueue
  <2>9. Connected'
    BY <1>2, <2>1 DEF Connected
  <2> QED  BY <2>4, <2>5, <2>7, <2>8, <2>9 DEF AttemptInv
<1>4. ASSUME ~Persistent PROVE AttemptInv'
  <2>1. reconnect' = reconnect /\ state' = "Zombie" /\ pc' = "exited"
    BY <1>4 DEF Retire, ScheduleReconnect
  <2>2. OneAttempt' /\ Kinds'
    BY <1>2, <2>1, KeptAttempt DEF AttemptInv
  <2>3. Placed' /\ Dialled' /\ Calm' /\ Connected'
    BY <1>4, <2>1 DEF Placed, Dialled, Calm, Connected, Live
  <2> QED  BY <2>2, <2>3 DEF AttemptInv
<1> QED  BY <1>3, <1>4

\* errorCleanup back to Closed, where the handler ends the attempt.
LEMMA AbandonAttempt ==
    ASSUME TypeOK, TypeOK', AttemptInv, NEW st, NEW w, On(st, w), Abandon,
           \/ w \in Token
           \/ st \notin {"Closed", "WaitConnAck", "WaitConnAckElect"}
    PROVE  AttemptInv'
<1>1. /\ UNCHANGED <<reconnect, starts, dialing, acks, nacks>>
      /\ state' = "Closed" /\ iConn' = None /\ pc' = pc /\ pc = "run"
  BY DEF Abandon, ErrorCleanup, NoSpawn, Frame, On
<1>2. Connected' /\ (state' = "Zombie") = (pc' = "exited")
  BY <1>1 DEF Connected
<1> QED  BY <1>1, <1>2, Ends

\* The responder connection wins and no initiator connection is left.
LEMMA OpenResponderAttempt ==
    ASSUME TypeOK, TypeOK', AttemptInv, NEW st, NEW w, On(st, w),
           NEW iConns, OpenResponder(iConns), iConn \in iConns \cup {None},
           \/ w \in Token
           \/ st \notin {"Closed", "WaitConnAck", "WaitConnAckElect"}
    PROVE  AttemptInv'
<1>1. /\ UNCHANGED <<reconnect, starts, dialing, acks, nacks>>
      /\ pc' = pc /\ pc = "run" /\ iConn' = None
      /\ state' = "Closed" \/ (state' = "ROpen" /\ rConn' = rConn /\ rConn # None)
  BY DEF OpenResponder, NoSpawn, Frame, On, CanSend
<1>2. Connected' /\ (state' = "Zombie") = (pc' = "exited")
  BY <1>1 DEF Connected
<1> QED  BY <1>1, <1>2, Ends

\* The CER is sent on the connection that the dial has just made.
LEMMA SendCERAttempt ==
    ASSUME TypeOK, TypeOK', AttemptInv, NEW st, On(st, "ConnAck"),
           NEW next \in {"WaitICEA", "WaitReturns"}, SendCER(next),
           next = "WaitICEA" => st = "WaitConnAck",
           pc' \in {"run", "elect"}
    PROVE  AttemptInv'
<1>1. /\ UNCHANGED <<reconnect, starts, dialing, acks, nacks, iConn, rConn>>
      /\ state' = next /\ cerConn' = ActiveConn /\ state = st
  BY DEF SendCER, connVars, Frame, On
<1>2. InQueue({"ConnAck"}) /\ pc = "run"
  BY ReceivedTokens DEF AttemptInv, InQueue
<1>3. iConn # None
  BY <1>2 DEF AttemptInv, Dialled, Live
<1>4. Connected'
  BY <1>1, <1>3 DEF AttemptInv, Connected, ActiveConn
<1>5. "ConnAck" \in Token /\ (state' = "Zombie") = (pc' = "exited")
  BY <1>1 DEF Token
<1> QED  BY <1>1, <1>4, <1>5, Ends

\* A CER arrives while the peer dials or waits for its CEA.
LEMMA AcceptCERAttempt ==
    ASSUME TypeOK, TypeOK', AttemptInv,
           NEW st, NEW next, AcceptCER(st, next),
           \/ st = "WaitConnAck" /\ next = "WaitConnAckElect"
           \/ st = "WaitICEA" /\ next = "WaitReturns"
    PROVE  AttemptInv'
<1>1. On(st, "ConnCER") /\ state = st /\ pc = "run"
  BY DEF AcceptCER, On
<1>2. CASE Reject(Head(queue).conn)
  BY <1>1, <1>2, RejectStays
<1>3. CASE ~Reject(Head(queue).conn)
  <2>1. /\ UNCHANGED <<reconnect, starts, dialing, acks, nacks, timeouts, iConn,
                       tmo, wd, cerConn, lastOpen>>
        /\ state' = next /\ pc' \in {"run", "elect"}
    BY <1>1, <1>3 DEF AcceptCER, Elect, NoSpawn, History, Frame
  <2>2. Connected' /\ (state' = "Zombie") = (pc' = "exited")
    BY <1>1, <2>1 DEF AttemptInv, Connected
  <2>3. /\ Restarts => state' = "Closed" /\ rConn' = None
        /\ Dials => state' \in {"WaitConnAck", "WaitConnAckElect"}
    BY <1>1, <2>1 DEF AttemptInv, Placed, Live
  <2> QED  BY <1>1, <2>1, <2>2, <2>3, GoesOn
<1> QED  BY <1>2, <1>3

\* The responder connection is lost during the election.
LEMMA DropResponderAttempt ==
    ASSUME TypeOK, TypeOK', AttemptInv,
           NEW st, NEW next, DropResponder(st, next),
           \/ st = "WaitConnAckElect" /\ next = "WaitConnAck"
           \/ st = "WaitReturns" /\ next = "WaitICEA"
    PROVE  AttemptInv'
<1>1. /\ On(st, "PeerDisc") /\ state = st /\ pc = "run"
      /\ UNCHANGED <<reconnect, starts, dialing, acks, nacks, timeouts, iConn,
                     tmo, wd, cerConn, lastOpen, pc>>
      /\ state' = next /\ rConn' = None
  BY DEF DropResponder, OnSide, On, NoSpawn, History, Frame
<1>2. Connected' /\ (state' = "Zombie") = (pc' = "exited")
  BY <1>1 DEF AttemptInv, Connected
<1>3. /\ Restarts => state' = "Closed" /\ rConn' = None
      /\ Dials => state' \in {"WaitConnAck", "WaitConnAckElect"}
  BY <1>1 DEF AttemptInv, Placed, Live
<1> QED  BY <1>1, <1>2, <1>3, GoesOn

\* Start consumes the attempt that was to begin and makes it the running dial.
LEMMA ClosedStartAttempt ==
    ASSUME TypeOK, TypeOK', AttemptInv, ClosedStart PROVE AttemptInv'
<1>1. On("Closed", "Start") /\ "Start" \in Token
  BY DEF ClosedStart, Token
<1>2. /\ \A i \in DOMAIN queue' : i \in Nat /\ i + 1 \in DOMAIN queue
                                  /\ queue'[i] = queue[i + 1]
      /\ 1 \in DOMAIN queue /\ queue[1].what = "Start" /\ state = "Closed" /\ pc = "run"
      /\ ~InQueue(Token)' /\ Attempts = 0
  BY <1>1, ReceivedTokens DEF AttemptInv
<1>3. /\ UNCHANGED <<reconnect, starts, acks, nacks, timeouts, pc, iConn, rConn>>
      /\ dialing' = dialing + 1 /\ state' = "WaitConnAck"
  BY DEF ClosedStart, connVars, Frame
<1>4. reconnect' = 0 /\ starts' = 0 /\ dialing' = 1 /\ acks' = 0 /\ nacks' = 0
  BY <1>2, <1>3 DEF Attempts, TypeOK
<1>5. ~InQueue({"Start"})' /\ ~InQueue({"ConnAck"})' /\ ~InQueue({"ConnNack"})'
  BY <1>2 DEF InQueue, Token
<1>6. InQueue({"Start"})
  BY <1>2 DEF InQueue
<1>7. iConn = None /\ rConn = None
  BY <1>2, <1>6 DEF AttemptInv, Connected, Placed, Restarts, Live
<1>8. OneAttempt'
  BY <1>2, <1>4 DEF OneAttempt, Attempts, InQueue
<1>9. Kinds'
  BY <1>2, <1>4, <1>5 DEF AttemptInv, Kinds, InQueue
<1>10. Placed' /\ Dialled' /\ Connected'
  BY <1>2, <1>3, <1>4, <1>5, <1>7 DEF Placed, Restarts, Dialled, Connected
<1>11. Calm'
  <2>1. SUFFICES ASSUME Persistent PROVE Calm'
    BY DEF Calm
  <2>2. ~TimeoutPending
    BY <1>2, <1>6, <2>1 DEF AttemptInv, Calm, Live
  <2>3. ~TimeoutPending'
    BY <1>2, <1>3, <2>2 DEF TimeoutPending
  <2> QED  BY <1>4, <1>5, <2>3 DEF Calm, Restarts, InQueue
<1> QED  BY <1>8, <1>9, <1>10, <1>11 DEF AttemptInv

\* A connection accepted in Closed: only a peer that is not persistent sees one,
\* and it has used its Start up by then.
LEMMA ClosedRConnCERAttempt ==
    ASSUME TypeOK, TypeOK', AttemptInv, ClosedRConnCER PROVE AttemptInv'
<1>1. On("Closed", "ConnCER")
  BY DEF ClosedRConnCER
<1>2. CASE Reject(Head(queue).conn)
  BY <1>1, <1>2, RejectStays
<1>3. CASE ~Reject(Head(queue).conn)
  <2>1. Head(queue).conn # None
    <3>1. Head(queue) \in EventMessage /\ Head(queue).what = "ConnCER"
      BY <1>1, Receive
    <3> QED  BY <3>1 DEF EventMessage
  <2>2. /\ UNCHANGED <<reconnect, starts, dialing, acks, nacks, pc, iConn>>
        /\ state' = state \/ state' = "ROpen"
        /\ rConn' = Head(queue).conn
    BY <1>3 DEF ClosedRConnCER, NoSpawn, Frame
  <2>3. /\ 1 \in DOMAIN queue /\ queue[1].what = "ConnCER" /\ state = "Closed"
        /\ pc = "run" /\ (~Persistent => ~InQueue({"Start"})')
    BY <1>1, ReceivedTokens DEF AttemptInv
  <2>4. ~Persistent
    BY <2>3 DEF AttemptInv, Kinds
  <2>5. /\ OneAttempt' /\ Kinds' /\ (Dials' => Dials)
    BY <1>1, <2>2, KeptAttempt DEF AttemptInv
  <2>6. ~Restarts'
    BY <2>3, <2>4, <2>5 DEF Kinds, Restarts
  <2>7. ~Dials'
    BY <2>3, <2>5 DEF AttemptInv, Placed, Live
  <2>8. Connected'
    BY <2>1, <2>2, <2>3 DEF AttemptInv, Connected
  <2>9. (state' = "Zombie") = (pc' = "exited")
    BY <2>2, <2>3
  <2> QED  BY <2>5, <2>6, <2>7, <2>8, <2>9, NoAttempt
<1> QED  BY <1>2, <1>3

\* Every handler keeps the attempt in its one place.
LEMMA HandlerAttempt ==
    ASSUME Inv, AttemptInv, HandleEvent PROVE AttemptInv'
<1>0. TypeOK /\ TypeOK'
  BY HandlerInv DEF Inv
<1>1. CASE ClosedStart
  BY <1>0, <1>1, ClosedStartAttempt
<1>2. CASE ClosedRConnCER
  BY <1>0, <1>2, ClosedRConnCERAttempt
<1>3. CASE WaitConnAckAck
  <2>1. On("WaitConnAck", "ConnAck") /\ pc = "run" /\ "ConnAck" \in Token
    BY <1>3 DEF WaitConnAckAck, On, Token
  <2>2. CASE SendCER("WaitICEA") /\ pc' = pc
    BY <1>0, <2>1, <2>2, SendCERAttempt
  <2>3. CASE Abandon
    BY <1>0, <2>1, <2>3, AbandonAttempt
  <2> QED  BY <1>3, <2>2, <2>3 DEF WaitConnAckAck
<1>4. CASE WaitConnAckNack
  <2>1. On("WaitConnAck", "ConnNack") /\ "ConnNack" \in Token /\ Retire
    BY <1>4 DEF WaitConnAckNack, Token
  <2> QED  BY <1>0, <2>1, RetireAttempt
<1>5. CASE WaitConnAckRConnCER
  BY <1>0, <1>5, AcceptCERAttempt DEF WaitConnAckRConnCER
<1>6. CASE WaitConnAckElectAck
  <2>1. On("WaitConnAckElect", "ConnAck") /\ "ConnAck" \in Token
    BY <1>6 DEF WaitConnAckElectAck, Token
  <2>2. CASE SendCER("WaitReturns") /\ Elect
    <3>1. pc' \in {"run", "elect"}
      BY <2>2 DEF Elect
    <3> QED  BY <1>0, <2>1, <2>2, <3>1, SendCERAttempt
  <2>3. CASE Abandon
    BY <1>0, <2>1, <2>3, AbandonAttempt
  <2> QED  BY <1>6, <2>2, <2>3 DEF WaitConnAckElectAck
<1>7. CASE WaitConnAckElectNack
  <2>1. On("WaitConnAckElect", "ConnNack") /\ "ConnNack" \in Token
        /\ OpenResponder({})
    BY <1>7 DEF WaitConnAckElectNack, Token
  <2>2. InQueue({"ConnNack"}) /\ pc = "run"
    BY <1>0, <2>1, ReceivedTokens DEF AttemptInv, InQueue
  <2>3. iConn \in {} \cup {None}
    BY <2>2 DEF AttemptInv, Dialled, Live
  <2> QED  BY <1>0, <2>1, <2>3, OpenResponderAttempt
<1>8. CASE WaitConnAckElectRDisc
  BY <1>0, <1>8, DropResponderAttempt DEF WaitConnAckElectRDisc
<1>9. CASE WaitICEACEA
  <2>1. On("WaitICEA", "CEA") /\ state = "WaitICEA" /\ pc = "run"
    BY <1>9 DEF WaitICEACEA, OnSide, On
  <2>2. CASE Abandon
    BY <1>0, <2>1, <2>2, AbandonAttempt
  <2>3. CASE OpenInitiator /\ UNCHANGED <<rConn, conn, pendingCER>>
    <3>1. /\ UNCHANGED <<reconnect, starts, dialing, acks, nacks, pc, iConn, rConn, cerConn>>
          /\ state' = "IOpen"
      BY <2>3 DEF OpenInitiator, History, Frame
    <3>2. Connected' /\ (state' = "Zombie") = (pc' = "exited")
      BY <2>1, <3>1 DEF AttemptInv, Connected
    <3> QED  BY <1>0, <2>1, <3>1, <3>2, Ends
  <2> QED  BY <1>9, <2>2, <2>3 DEF WaitICEACEA
<1>10. CASE WaitICEARConnCER
  BY <1>0, <1>10, AcceptCERAttempt DEF WaitICEARConnCER
<1>11. CASE WaitICEAIDisc
  <2>1. On("WaitICEA", "PeerDisc") /\ Retire
    BY <1>11 DEF WaitICEAIDisc, OnSide
  <2> QED  BY <1>0, <2>1, RetireAttempt
<1>12. CASE WaitReturnsWin \/ WaitReturnsIDisc
  <2>1. PICK w : On("WaitReturns", w) /\ OpenResponder({iConn})
    BY <1>12 DEF WaitReturnsWin, WaitReturnsIDisc, OnSide
  <2> QED  BY <1>0, <2>1, OpenResponderAttempt
<1>13. CASE WaitReturnsCEA
  <2>1. On("WaitReturns", "CEA") /\ state = "WaitReturns" /\ pc = "run"
    BY <1>13 DEF WaitReturnsCEA, OnSide, On
  <2>2. /\ UNCHANGED <<reconnect, starts, dialing, acks, nacks, pc, cerConn>>
        /\ rConn' = None
        /\ (state' = "IOpen" /\ iConn' = iConn) \/ (state' = "Closed" /\ iConn' = None)
    BY <1>13 DEF WaitReturnsCEA, OpenInitiator, NoSpawn, History, Frame
  <2>3. Connected' /\ (state' = "Zombie") = (pc' = "exited")
    BY <2>1, <2>2 DEF AttemptInv, Connected
  <2> QED  BY <1>0, <2>1, <2>2, <2>3, Ends
<1>14. CASE WaitReturnsRDisc
  BY <1>0, <1>14, DropResponderAttempt DEF WaitReturnsRDisc
<1>15. CASE RejectRConnCER
  <2>1. PICK st : On(st, "ConnCER")
    BY <1>15 DEF RejectRConnCER
  <2> QED  BY <1>0, <1>15, <2>1, RejectStays DEF RejectRConnCER
<1>16. CASE \E s \in Side : OpenRcv(s)
  <2>1. PICK s \in Side, k \in {"Message", "DWR", "DWA"} : OpenRcv(s) /\ On(OpenState(s), k)
    BY <1>16 DEF OpenRcv, OnSide
  <2>2. /\ UNCHANGED <<reconnect, starts, dialing, acks, nacks, timeouts,
                       state, pc, iConn, rConn, cerConn, lastOpen>>
        /\ tmo' = tmo /\ (wd = "nil" => wd' = "nil")
    BY <2>1 DEF OpenRcv, ResetWatchdog, connVars, NoSpawn, History, Frame
  <2> QED  BY <1>0, <2>1, <2>2, Stays
<1>17. CASE \E s \in Side : OpenStop(s) \/ OpenRcvDPR(s)
  <2>1. PICK s, w : s \in Side /\ On(OpenState(s), w) /\ (OpenStop(s) \/ OpenRcvDPR(s))
    BY <1>17 DEF OpenStop, OpenRcvDPR, OnSide
  <2>2. /\ UNCHANGED <<reconnect, starts, dialing, acks, nacks, pc>>
        /\ state' = "Closing" /\ pc = "run"
    BY <2>1 DEF OpenStop, OpenRcvDPR, connVars, NoSpawn, Frame, On
  <2>3. Connected' /\ (state' = "Zombie") = (pc' = "exited")
    BY <2>2 DEF Connected
  <2>4. OpenState(s) \in {"IOpen", "ROpen"}
    BY DEF OpenState
  <2> QED  BY <1>0, <2>1, <2>2, <2>3, <2>4, Ends
<1>18. CASE \E s \in Side : OpenPeerDisc(s)
  <2>1. PICK s \in Side : On(OpenState(s), "PeerDisc") /\ Retire
    BY <1>18 DEF OpenPeerDisc, OnSide
  <2>2. OpenState(s) \in {"IOpen", "ROpen"}
    BY DEF OpenState
  <2> QED  BY <1>0, <2>1, <2>2, RetireAttempt
<1>19. CASE \E s \in Side : OpenTimeout(s)
  <2>1. PICK s \in Side : OpenTimeout(s)
    BY <1>19
  <2>2. /\ On(OpenState(s), "Timeout") /\ state = OpenState(s) /\ pc = "run"
        /\ OpenState(s) \in {"IOpen", "ROpen"}
    BY <2>1 DEF OpenTimeout, On, OpenState
  <2>3. /\ UNCHANGED <<reconnect, starts, dialing, acks, nacks, pc, iConn, rConn, cerConn>>
        /\ state' = "Suspect" /\ lastOpen' = state
    BY <2>1 DEF OpenTimeout, connVars, NoSpawn, Frame
  <2>4. Connected' /\ (state' = "Zombie") = (pc' = "exited")
    BY <2>2, <2>3 DEF AttemptInv, Connected
  <2> QED  BY <1>0, <2>2, <2>3, <2>4, Ends
<1>20. CASE SuspectAlive
  <2>1. PICK k \in {"DWA", "Message"} : On("Suspect", k)
    BY <1>20 DEF SuspectAlive
  <2>2. /\ UNCHANGED <<reconnect, starts, dialing, acks, nacks, pc, iConn, rConn, cerConn>>
        /\ state' = (IF iConn # None THEN "IOpen" ELSE "ROpen")
        /\ state = "Suspect" /\ pc = "run"
    BY <1>20, <2>1 DEF SuspectAlive, connVars, NoSpawn, History, Frame, On
  <2>3. Connected' /\ (state' = "Zombie") = (pc' = "exited")
    BY <2>2 DEF AttemptInv, Connected
  <2> QED  BY <1>0, <2>1, <2>2, <2>3, Ends
<1>21. CASE SuspectPeerDisc
  <2>1. On("Suspect", "PeerDisc") /\ Retire
    BY <1>21 DEF SuspectPeerDisc
  <2> QED  BY <1>0, <2>1, RetireAttempt
<1>22. CASE ClosingDone
  <2>1. PICK w : On("Closing", w) /\ Abandon
    BY <1>22 DEF ClosingDone
  <2> QED  BY <1>0, <2>1, AbandonAttempt
<1>23. CASE Timeout
  <2>1. PICK st \in TimedWait \cup {"Suspect"} : On(st, "Timeout") /\ Retire
    BY <1>23 DEF Timeout
  <2> QED  BY <1>0, <2>1, RetireAttempt DEF TimedWait
<1>24. CASE Ignore
  <2>1. PICK w : w = Head(queue).what
    OBVIOUS
  <2>2. On(state, w)
    BY <1>24, <2>1 DEF Ignore, On
  <2>3. /\ UNCHANGED <<reconnect, starts, dialing, acks, nacks, timeouts,
                       state, pc, iConn, rConn, cerConn, lastOpen>>
        /\ tmo' = tmo /\ wd' = wd
    BY <1>24 DEF Ignore, connVars, NoSpawn, History, Frame
  <2>4. PICK st : st = state
    OBVIOUS
  <2> QED  BY <1>0, <2>2, <2>3, <2>4, Stays
<1> QED  BY <1>1, <1>2, <1>3, <1>4, <1>5, <1>6, <1>7, <1>8, <1>9, <1>10, <1>11,
            <1>12, <1>13, <1>14, <1>15, <1>16, <1>17, <1>18, <1>19, <1>20, <1>21,
            <1>22, <1>23, <1>24 DEF HandleEvent

-----------------------------------------------------------------------------
(* The other goroutines: most events they send say nothing about the        *)
(* attempt; the dialler and the reconnect timer move it on.                 *)

\* The queue after an event was sent.
LEMMA SentTokens ==
    ASSUME TypeOK, NEW e \in EventMessage, queue' = Append(queue, e)
    PROVE  /\ \A i \in DOMAIN queue : i \in DOMAIN queue' /\ queue'[i] = queue[i]
           /\ \A i \in DOMAIN queue' : \/ i \in DOMAIN queue /\ queue'[i] = queue[i]
                                       \/ i = Len(queue) + 1 /\ queue'[i] = e
           /\ Len(queue) + 1 \in DOMAIN queue' /\ queue'[Len(queue) + 1] = e
           /\ \A i \in DOMAIN queue : i \in Nat /\ i < Len(queue) + 1
<1>1. ASSUME NEW q \in Seq(EventMessage)
      PROVE  /\ \A i \in DOMAIN Append(q, e) : i \in DOMAIN q \/ i = Len(q) + 1
             /\ \A i \in DOMAIN q : i \in Nat /\ i < Len(q) + 1
  BY <1>1
<1>2. queue \in Seq(EventMessage)
  BY DEF TypeOK
<1> QED  BY <1>1, <1>2, SendFacts

\* An event that carries nothing of an attempt, and no Timeout.
Plain(e) == e.what \notin Token \cup {"Timeout"} /\ (e.what = "ConnCER" => ~Persistent)

\* A step that touches neither the attempt nor what Connected speaks of.
LEMMA Aside ==
    ASSUME TypeOK, AttemptInv,
           \/ queue' = queue
           \/ \E e \in EventMessage : Plain(e) /\ queue' = Append(queue, e),
           UNCHANGED <<reconnect, starts, dialing, acks, nacks, timeouts, tmo, wd,
                       state, iConn, rConn, cerConn, lastOpen>>,
           pc' = pc \/ (pc = "elect" /\ pc' = "run")
    PROVE  AttemptInv'
<1>1. PICK T : T = Token \cup {"Timeout"}
  OBVIOUS
<1>2. /\ \A i \in DOMAIN queue : i \in DOMAIN queue' /\ queue'[i] = queue[i]
      /\ \A i \in DOMAIN queue' :
            \/ i \in DOMAIN queue /\ queue'[i] = queue[i]
            \/ queue'[i].what \notin T /\ (queue'[i].what = "ConnCER" => ~Persistent)
  <2>1. CASE queue' = queue
    BY <2>1
  <2>2. CASE \E e \in EventMessage : Plain(e) /\ queue' = Append(queue, e)
    <3>1. PICK e \in EventMessage : Plain(e) /\ queue' = Append(queue, e)
      BY <2>2
    <3> QED  BY <1>1, <3>1, SentTokens DEF Plain
  <2> QED  BY <2>1, <2>2
<1>3. \A W : W \subseteq T => (InQueue(W)' = InQueue(W))
  BY <1>2 DEF InQueue
<1>4. /\ InQueue(Token)' = InQueue(Token)
      /\ InQueue({"Start"})' = InQueue({"Start"})
      /\ InQueue({"ConnAck"})' = InQueue({"ConnAck"})
      /\ InQueue({"ConnNack"})' = InQueue({"ConnNack"})
      /\ InQueue({"ConnAck", "ConnNack"})' = InQueue({"ConnAck", "ConnNack"})
  BY <1>1, <1>3 DEF Token
<1>5. TimeoutPending' = TimeoutPending
  BY <1>1, <1>2 DEF TimeoutPending
<1>6. Restarts' = Restarts /\ Dials' = Dials /\ Attempts' = Attempts /\ Live' = Live
  BY <1>4 DEF Restarts, Dials, Attempts, Live
<1>7. \A i, j \in DOMAIN queue' : queue'[i].what \in T /\ queue'[j].what \in T
        => /\ i \in DOMAIN queue /\ queue'[i] = queue[i]
           /\ j \in DOMAIN queue /\ queue'[j] = queue[j]
  BY <1>2
<1>8. OneAttempt'
  BY <1>1, <1>4, <1>6, <1>7 DEF AttemptInv, OneAttempt
<1>9. Kinds'
  BY <1>1, <1>2 DEF AttemptInv, Kinds, Token
<1>10. Placed'
  BY <1>6 DEF AttemptInv, Placed, Live
<1>11. Calm'
  BY <1>1, <1>4, <1>5, <1>6, <1>7 DEF AttemptInv, Calm, Token
<1>12. Dialled' /\ Connected'
  BY <1>4, <1>6 DEF AttemptInv, Dialled, Connected
<1> QED  BY <1>8, <1>9, <1>10, <1>11, <1>12 DEF AttemptInv

\* The dial ends, one way or the other: the goroutine still holds the attempt.
LEMMA DialAttempt ==
    ASSUME TypeOK, TypeOK', AttemptInv,
           (\E c \in Conn : DialOk(c)) \/ DialFail
    PROVE  AttemptInv'
<1> USE DEF SMVars, TimerVars, LoopVars
<1>1. /\ UNCHANGED <<reconnect, starts, timeouts, queue, tmo, wd, state, pc, rConn,
                     cerConn, lastOpen>>
      /\ dialing > 0 /\ dialing' = dialing - 1
      /\ \/ acks' = acks + 1 /\ nacks' = nacks /\ iConn' \in Conn
         \/ acks' = acks /\ nacks' = nacks + 1 /\ iConn' = iConn
  BY DEF DialOk, DialFail
<1>2. reconnect = 0 /\ starts = 0 /\ dialing = 1 /\ acks = 0 /\ nacks = 0
  BY <1>1 DEF AttemptInv, OneAttempt, Attempts, TypeOK
<1>3. ~InQueue(Token)
  BY <1>2 DEF AttemptInv, OneAttempt, Attempts
<1>4. InQueue(Token)' = InQueue(Token) /\ TimeoutPending' = TimeoutPending /\ Live' = Live
  BY <1>1 DEF InQueue, TimeoutPending, Live
<1>5. OneAttempt' /\ Kinds'
  BY <1>1, <1>2, <1>3, <1>4 DEF AttemptInv, OneAttempt, Attempts, Kinds
<1>6. ~InQueue({"Start"})' /\ ~InQueue({"ConnAck"})' /\ ~InQueue({"ConnNack"})'
  BY <1>3, <1>4 DEF InQueue, Token
<1>7. ~Restarts' /\ Dials
  BY <1>1, <1>2, <1>6 DEF Restarts, Dials
<1>8. Placed'
  BY <1>1, <1>7 DEF AttemptInv, Placed, Live
<1>9. Calm'
  BY <1>1, <1>2, <1>4, <1>6, <1>7 DEF AttemptInv, Calm, InQueue
<1>10. Dialled'
  BY <1>1, <1>2, <1>4, <1>6 DEF AttemptInv, Dialled
<1>11. Connected'
  <2>1. state \in {"WaitConnAck", "WaitConnAckElect", "Zombie"}
    BY <1>7 DEF AttemptInv, Placed, Live
  <2> QED  BY <1>1, <2>1 DEF AttemptInv, Connected
<1> QED  BY <1>5, <1>8, <1>9, <1>10, <1>11 DEF AttemptInv

\* The goroutine hands its attempt over to the queue, which had none.
LEMMA PostAttempt ==
    ASSUME TypeOK, TypeOK', AttemptInv, PostAck \/ PostNack \/ PostStart
    PROVE  AttemptInv'
<1> USE DEF SMVars, TimerVars, LoopVars, DialVars
<1>1. PICK w \in Token :
        /\ queue' = Append(queue, Ev(w))
        /\ w = "ConnAck"  => acks > 0   /\ acks' = acks - 1     /\ UNCHANGED <<nacks, starts>>
        /\ w = "ConnNack" => nacks > 0  /\ nacks' = nacks - 1   /\ UNCHANGED <<acks, starts>>
        /\ w = "Start"    => starts > 0 /\ starts' = starts - 1 /\ UNCHANGED <<acks, nacks>>
  <2>1. CASE PostAck
    BY <2>1 DEF PostAck, Post, Token
  <2>2. CASE PostNack
    BY <2>2 DEF PostNack, Post, Token
  <2>3. CASE PostStart
    BY <2>3 DEF PostStart, Post, Token
  <2> QED  BY <2>1, <2>2, <2>3
<1>2. UNCHANGED <<reconnect, dialing, timeouts, tmo, wd, state, pc, iConn, rConn,
                  cerConn, lastOpen>>
  BY DEF PostAck, PostNack, PostStart
<1>a. reconnect \in Nat /\ starts \in Nat /\ dialing \in Nat /\ acks \in Nat /\ nacks \in Nat
  BY DEF TypeOK
<1>b. reconnect + starts + dialing + acks + nacks <= 1
  BY DEF AttemptInv, OneAttempt, Attempts
<1>3. Attempts = 1
  <2>1. CASE w = "ConnAck"
    BY <1>1, <1>a, <1>b, <2>1 DEF Attempts
  <2>2. CASE w = "ConnNack"
    BY <1>1, <1>a, <1>b, <2>2 DEF Attempts
  <2>3. CASE w = "Start"
    BY <1>1, <1>a, <1>b, <2>3 DEF Attempts
  <2> QED  BY <2>1, <2>2, <2>3 DEF Token
<1>4. reconnect' = 0 /\ starts' = 0 /\ dialing' = 0 /\ acks' = 0 /\ nacks' = 0
  <2>1. CASE w = "ConnAck"
    BY <1>1, <1>2, <1>a, <1>b, <2>1
  <2>2. CASE w = "ConnNack"
    BY <1>1, <1>2, <1>a, <1>b, <2>2
  <2>3. CASE w = "Start"
    BY <1>1, <1>2, <1>a, <1>b, <2>3
  <2> QED  BY <2>1, <2>2, <2>3 DEF Token
<1>c. Attempts' = 0
  BY <1>4 DEF Attempts
<1>5. ~InQueue(Token)
  BY <1>3 DEF AttemptInv, OneAttempt
<1>6. Ev(w) \in EventMessage /\ Ev(w).what = w
  BY PostedEvents DEF Ev, Name, Token
<1>7. PICK e \in EventMessage : e = Ev(w)
  BY <1>6
<1>8. /\ \A i \in DOMAIN queue : i \in DOMAIN queue' /\ queue'[i] = queue[i]
      /\ \A i \in DOMAIN queue' : \/ i \in DOMAIN queue /\ queue'[i] = queue[i]
                                  \/ i = Len(queue) + 1 /\ queue'[i].what = w
      /\ Len(queue) + 1 \in DOMAIN queue' /\ queue'[Len(queue) + 1].what = w
  BY <1>1, <1>6, <1>7, SentTokens
<1>9. OneAttempt'
  BY <1>c, <1>5, <1>8 DEF OneAttempt, InQueue
<1>10. Live' = Live /\ TimeoutPending' = TimeoutPending
  BY <1>2, <1>8 DEF Live, TimeoutPending, Token
<1>11. Kinds'
  BY <1>1, <1>4, <1>8 DEF AttemptInv, Kinds, TypeOK, Token
<1>12. /\ InQueue({"Start"})' = (w = "Start")
       /\ InQueue({"ConnAck"})' = (w = "ConnAck")
       /\ InQueue({"ConnNack"})' = (w = "ConnNack")
       /\ InQueue({"ConnAck", "ConnNack"})' = (w \in {"ConnAck", "ConnNack"})
  <2>1. \A W : W \subseteq Token => (InQueue(W)' = (w \in W))
    <3> SUFFICES ASSUME NEW W, W \subseteq Token PROVE InQueue(W)' = (w \in W)
      OBVIOUS
    <3>1. w \in W => InQueue(W)'
      BY <1>8 DEF InQueue
    <3>2. InQueue(W)' => w \in W
      BY <1>5, <1>8 DEF InQueue
    <3>3. InQueue(W)' \in BOOLEAN /\ (w \in W) \in BOOLEAN
      BY DEF InQueue
    <3> QED  BY <3>1, <3>2, <3>3
  <2> QED  BY <2>1 DEF Token
<1>13. (Restarts' => Restarts) /\ (Dials' => Dials)
  BY <1>1, <1>4, <1>12 DEF Restarts, Dials, Token
<1>14. Placed'
  BY <1>2, <1>10, <1>13 DEF AttemptInv, Placed
<1>15. Dialled' /\ Connected'
  <2>1. Connected'
    BY <1>2 DEF AttemptInv, Connected
  <2>2. CASE w = "ConnAck"
    BY <1>1, <1>2, <1>4, <1>10, <1>12, <2>1, <2>2 DEF AttemptInv, Dialled
  <2>3. CASE w = "ConnNack"
    BY <1>1, <1>2, <1>4, <1>10, <1>12, <2>1, <2>3 DEF AttemptInv, Dialled
  <2>4. CASE w = "Start"
    <3>1. ~InQueue({"ConnAck"})' /\ ~InQueue({"ConnNack"})'
      BY <1>12, <2>4
    <3>2. ~(dialing' > 0) /\ ~(acks' > 0) /\ ~(nacks' > 0)
      BY <1>4
    <3>3. Dialled'
      BY <3>1, <3>2 DEF Dialled
    <3> QED  BY <2>1, <3>3
  <2> QED  BY <2>1, <2>2, <2>3, <2>4 DEF Token
<1>16. Calm'
  <2>1. SUFFICES ASSUME Persistent PROVE Calm'
    BY DEF Calm
  <2>2. Live => ~TimeoutPending
    BY <1>1, <2>1 DEF AttemptInv, Calm, TypeOK, Token
  <2>3. Live' => \A j \in DOMAIN queue' : queue'[j].what # "Timeout"
    BY <1>10, <2>2 DEF TimeoutPending
  <2>4. Restarts' => tmo' = "nil" /\ wd' = "nil"
    BY <1>2, <1>13, <2>1 DEF AttemptInv, Calm
  <2> QED  BY <1>10, <2>2, <2>3, <2>4 DEF Calm
<1> QED  BY <1>9, <1>11, <1>14, <1>15, <1>16 DEF AttemptInv

\* A timer fires: under Timely no dial is running then, and with an attempt yet
\* to begin no timer is armed.
LEMMA FireAttempt ==
    ASSUME SingleTry, TypeOK, TypeOK', AttemptInv, FireTimeout \/ FireWatchdog
    PROVE  AttemptInv'
<1> USE DEF SMVars, TimerVars, LoopVars, DialVars
<1>1. /\ UNCHANGED <<reconnect, starts, dialing, acks, nacks, queue, state, pc, iConn,
                     rConn, cerConn, lastOpen>>
      /\ tmo = "armed" \/ wd = "armed"
      /\ Timely => dialing + acks + nacks = 0
  BY DEF FireTimeout, FireWatchdog, TimerMayFire
<1>2. /\ \A W : InQueue(W)' = InQueue(W)
      /\ Attempts' = Attempts /\ Live' = Live
  BY <1>1 DEF InQueue, Attempts, Live
<1>3. Restarts' = Restarts /\ Dials' = Dials
  BY <1>1, <1>2 DEF Restarts, Dials
<1>4. OneAttempt' /\ Kinds' /\ Placed' /\ Dialled' /\ Connected'
  BY <1>1, <1>2, <1>3
  DEF AttemptInv, OneAttempt, Kinds, Placed, Dialled, Connected
<1>5. Calm'
  <2>1. SUFFICES ASSUME Persistent PROVE Calm'
    BY DEF Calm
  <2>2. ~Restarts
    BY <1>1, <2>1 DEF AttemptInv, Calm
  <2>3. ~(starts > 0) /\ ~InQueue({"Start"}) /\ ~(dialing + acks + nacks > 0)
    BY <1>1, <2>1, <2>2 DEF SingleTry, Restarts, TypeOK
  <2> QED  BY <1>1, <1>2, <1>3, <2>1, <2>2, <2>3 DEF AttemptInv, Calm
<1> QED  BY <1>4, <1>5 DEF AttemptInv

\* A Timeout is sent: it was pending before, and comes after all in the queue.
LEMMA PostTimeoutAttempt ==
    ASSUME TypeOK, TypeOK', AttemptInv, PostTimeout PROVE AttemptInv'
<1> USE DEF SMVars, TimerVars, LoopVars, DialVars
<1>1. /\ UNCHANGED <<reconnect, starts, dialing, acks, nacks, tmo, wd, state, pc, iConn,
                     rConn, cerConn, lastOpen>>
      /\ timeouts > 0 /\ queue' = Append(queue, Ev("Timeout"))
  BY DEF PostTimeout, Post
<1>2. Ev("Timeout") \in EventMessage /\ Ev("Timeout").what = "Timeout"
  BY PostedEvents DEF Ev, Name
<1>3. PICK e \in EventMessage : e = Ev("Timeout")
  BY <1>2
<1>4. /\ \A i \in DOMAIN queue : i \in DOMAIN queue' /\ queue'[i] = queue[i]
      /\ \A i \in DOMAIN queue' : \/ i \in DOMAIN queue /\ queue'[i] = queue[i]
                                  \/ i = Len(queue) + 1 /\ queue'[i].what = "Timeout"
      /\ \A i \in DOMAIN queue : i \in Nat /\ i < Len(queue) + 1
  BY <1>1, <1>2, <1>3, SentTokens
<1>5. /\ InQueue(Token)' = InQueue(Token)
      /\ InQueue({"Start"})' = InQueue({"Start"})
      /\ InQueue({"ConnAck"})' = InQueue({"ConnAck"})
      /\ InQueue({"ConnNack"})' = InQueue({"ConnNack"})
      /\ InQueue({"ConnAck", "ConnNack"})' = InQueue({"ConnAck", "ConnNack"})
  BY <1>4 DEF InQueue, Token
<1>6. Restarts' = Restarts /\ Dials' = Dials /\ Attempts' = Attempts /\ Live' = Live
  BY <1>1, <1>5 DEF Restarts, Dials, Attempts, Live
<1>7. OneAttempt'
  BY <1>4, <1>5, <1>6 DEF AttemptInv, OneAttempt, Token
<1>8. Kinds'
  BY <1>1, <1>4 DEF AttemptInv, Kinds
<1>9. Placed' /\ Dialled' /\ Connected'
  BY <1>1, <1>5, <1>6 DEF AttemptInv, Placed, Dialled, Connected
<1>10. Calm'
  <2>1. SUFFICES ASSUME Persistent PROVE Calm'
    BY DEF Calm
  <2>2. TimeoutPending
    BY <1>1 DEF TimeoutPending
  <2>3. Live' => \A i, j \in DOMAIN queue' :
          queue'[i].what \in {"ConnAck", "ConnNack"} /\ queue'[j].what = "Timeout" => i < j
    BY <1>4, <1>6, <2>1 DEF AttemptInv, Calm
  <2> QED  BY <1>1, <1>5, <1>6, <2>1, <2>2, <2>3 DEF AttemptInv, Calm
<1> QED  BY <1>7, <1>8, <1>9, <1>10 DEF AttemptInv

\* The reconnect timer fires: under Timely everything in flight is over.
LEMMA ReconnectAttempt ==
    ASSUME SingleTry, TypeOK, TypeOK', AttemptInv, FireReconnect PROVE AttemptInv'
<1> USE DEF TimerVars, LoopVars, DialVars
<1>1. /\ UNCHANGED <<dialing, acks, nacks, timeouts, queue, tmo, wd, state, pc, iConn,
                     rConn, cerConn, lastOpen>>
      /\ reconnect > 0 /\ reconnect' = reconnect - 1 /\ starts' = starts + 1
      /\ Timely => queue = <<>> /\ ~Posting
  BY DEF FireReconnect
<1>2. Persistent /\ Timely
  BY <1>1 DEF SingleTry, AttemptInv, Kinds
<1>3. reconnect = 1 /\ starts = 0 /\ dialing = 0 /\ acks = 0 /\ nacks = 0
  BY <1>1 DEF AttemptInv, OneAttempt, Attempts, TypeOK
<1>4. ~TimeoutPending' /\ \A W : ~InQueue(W)'
  <2>1. queue' = <<>> /\ ~Posting
    BY <1>1, <1>2
  <2>2. timeouts' = 0
    <3>1. acks \in Nat /\ nacks \in Nat /\ timeouts \in Nat /\ starts \in Nat
      BY DEF TypeOK
    <3>2. ~(acks + nacks + timeouts + starts > 0)
      BY <2>1 DEF Posting
    <3>3. timeouts = 0
      BY <3>1, <3>2
    <3> QED  BY <1>1, <3>3
  <2>3. \A i \in DOMAIN queue' : FALSE
    BY <2>1
  <2> QED  BY <2>2, <2>3 DEF TimeoutPending, InQueue
<1>5. Restarts /\ ~Dials'
  BY <1>1, <1>3, <1>4 DEF Restarts, Dials
<1>6. OneAttempt' /\ Kinds' /\ Dialled' /\ Connected'
  BY <1>1, <1>2, <1>3, <1>4
  DEF AttemptInv, OneAttempt, Attempts, Kinds, Dialled, Connected, InQueue
<1>7. Placed'
  BY <1>1, <1>5 DEF AttemptInv, Placed, Live
<1>8. Calm'
  BY <1>1, <1>2, <1>4, <1>5 DEF AttemptInv, Calm, InQueue
<1> QED  BY <1>6, <1>7, <1>8 DEF AttemptInv

-----------------------------------------------------------------------------
(* The theorems about connections and attempts.                             *)

\* Every other step keeps the attempt in its one place.
LEMMA OthersAttempt ==
    ASSUME SingleTry, Inv, AttemptInv, CtxDone \/ PostWinElection \/ Goroutines \/ Environment
    PROVE  AttemptInv'
<1> USE DEF SMVars, TimerVars, LoopVars, DialVars
<1>0. TypeOK /\ TypeOK'
  BY StateMachineInv, GoroutineInv, EnvironmentInv DEF Inv, StateMachine
<1>1. CASE CtxDone
  <2>1. /\ UNCHANGED <<reconnect, starts, dialing, acks, nacks, queue>>
        /\ state' = "Zombie" /\ pc' = "exited" /\ tmo' = "nil" /\ wd' = "nil"
    BY <1>1 DEF CtxDone, ErrorCleanup, StopTimers, NoSpawn, Frame
  <2>2. OneAttempt' /\ Kinds'
    BY <2>1 DEF AttemptInv, OneAttempt, Kinds, Attempts, InQueue
  <2>3. Placed' /\ Calm' /\ Dialled' /\ Connected'
    BY <2>1 DEF Placed, Calm, Dialled, Connected, Live
  <2> QED  BY <2>2, <2>3 DEF AttemptInv
<1>2. CASE PostWinElection
  <2>1. Ev("WinElection") \in EventMessage /\ Plain(Ev("WinElection"))
    BY PostedEvents DEF Plain, Ev, Name, Token
  <2> QED  BY <1>0, <1>2, <2>1, Aside DEF PostWinElection, connVars, NoSpawn, History, Frame
<1>3. CASE (\E c \in Conn : DialOk(c)) \/ DialFail
  BY <1>0, <1>3, DialAttempt
<1>4. CASE PostAck \/ PostNack \/ PostStart
  BY <1>0, <1>4, PostAttempt
<1>5. CASE FireTimeout \/ FireWatchdog
  BY <1>0, <1>5, FireAttempt
<1>6. CASE PostTimeout
  BY <1>0, <1>6, PostTimeoutAttempt
<1>7. CASE FireReconnect
  BY <1>0, <1>7, ReconnectAttempt
<1>8. CASE \E s \in Side, e \in PeerEvent : ReadPost(s, e)
  <2>1. PICK s \in Side, e \in PeerEvent : ReadPost(s, e)
    BY <1>8
  <2>2. SideEv(s, e) \in EventMessage /\ Plain(SideEv(s, e))
    BY PostedEvents DEF Plain, SideEv, PeerEvent, Kind, Token
  <2> QED  BY <1>0, <2>1, <2>2, Aside DEF ReadPost, Post
<1>9. CASE \E c \in Conn : WriteFails(c)
  <2>1. PICK c \in Conn, s \in Side :
          /\ WriteFails(c)
          /\ queue' = queue \/ queue' = Append(queue, SideEv(s, "PeerDisc"))
    BY <1>9 DEF WriteFails, Side
  <2>2. SideEv(s, "PeerDisc") \in EventMessage /\ Plain(SideEv(s, "PeerDisc"))
    BY PostedEvents DEF Plain, SideEv, PeerEvent, Token
  <2> QED  BY <1>0, <2>1, <2>2, Aside DEF WriteFails
<1>10. CASE \/ \E c \in Conn : WriterStops(c) \/ RemoteCloses(c)
            \/ \E s \in Side : ReadTop(s)
            \/ \E s \in Side, c \in Conn, e \in PeerEvent : ReadReturns(s, c, e)
            \/ Stop
  <2>1. /\ UNCHANGED <<reconnect, starts, dialing, acks, nacks, timeouts, tmo, wd, queue>>
        /\ UNCHANGED <<state, iConn, rConn, cerConn, lastOpen, pc>>
    BY <1>10 DEF WriterStops, RemoteCloses, ReadTop, ReadReturns, Stop
  <2> QED  BY <1>0, <2>1, Aside
<1>11. CASE \E c \in Conn : InjectRConnCER(c)
  <2>1. PICK c \in Conn : InjectRConnCER(c)
    BY <1>11
  <2>2. RConnCER(c) \in EventMessage /\ Plain(RConnCER(c))
    BY <2>1, PostedEvents DEF Plain, RConnCER, Token, InjectRConnCER, SingleTry
  <2> QED  BY <1>0, <2>1, <2>2, Aside DEF InjectRConnCER, Post
<1>12. CASE Disconnect
  <2>1. Ev("Stop") \in EventMessage /\ Plain(Ev("Stop"))
    BY PostedEvents DEF Plain, Ev, Name, Token
  <2> QED  BY <1>0, <1>12, <2>1, Aside DEF Disconnect, Post
<1> QED  BY <1>1, <1>2, <1>3, <1>4, <1>5, <1>6, <1>7, <1>8, <1>9, <1>10, <1>11, <1>12
         DEF Goroutines, Environment

\* Every step does.
LEMMA StepAttempt ==
    ASSUME SingleTry, Inv, AttemptInv, [Next]_vars PROVE AttemptInv'
<1>1. CASE HandleEvent
  BY <1>1, HandlerAttempt
<1>2. CASE CtxDone \/ PostWinElection \/ Goroutines \/ Environment
  BY <1>2, OthersAttempt
<1>3. CASE UNCHANGED vars
  BY <1>3, Aside DEF vars, Inv
<1> QED  BY <1>1, <1>2, <1>3 DEF Next, StateMachine

\* The first event is the attempt, or an accepted connection.
LEMMA InitAttempt == ASSUME SingleTry, Init PROVE AttemptInv
<1>1. /\ state = "Closed" /\ pc = "run" /\ iConn = None /\ rConn = None
      /\ tmo = "nil" /\ wd = "nil" /\ reconnect = 0 /\ timeouts = 0
      /\ dialing = 0 /\ acks = 0 /\ nacks = 0 /\ starts = 0
  BY DEF Init
<1>2. PICK e : queue = <<e>> /\ (e.what = "Start" \/ (e.what = "ConnCER" /\ "StartWithConnection" \in StartedBy))
  BY DEF Init, Ev, RConnCER
<1>3. \A i \in DOMAIN queue : i = 1 /\ queue[i] = e
  BY <1>2
<1>4. Persistent => e.what = "Start"
  BY <1>2 DEF SingleTry
<1>5. e.what \in {"Start", "ConnCER"}
  BY <1>2
<1>6. ~InQueue({"ConnAck"}) /\ ~InQueue({"ConnNack"}) /\ ~InQueue({"ConnAck", "ConnNack"})
      /\ ~TimeoutPending
  BY <1>1, <1>3, <1>5 DEF InQueue, TimeoutPending
<1>7. OneAttempt /\ Kinds
  BY <1>1, <1>3, <1>4 DEF OneAttempt, Attempts, Kinds
<1>8. Placed /\ Dialled /\ Connected
  BY <1>1, <1>6 DEF Placed, Dials, Dialled, Connected
<1>9. Calm
  BY <1>1, <1>3, <1>5, <1>6 DEF Calm
<1> QED  BY <1>7, <1>8, <1>9 DEF AttemptInv

\* For a peer that is not persistent, and for a persistent one that only dials out
\* and whose timers outlast its dials, the attempt invariant holds.
THEOREM AttemptInvariance == SingleTry => (Spec => [](Inv /\ AttemptInv))
<1> SUFFICES ASSUME SingleTry PROVE Spec => [](Inv /\ AttemptInv)
  OBVIOUS
<1>1. Init => Inv /\ AttemptInv
  BY InitInv, InitAttempt
<1>2. Inv /\ AttemptInv /\ [Next]_vars => (Inv /\ AttemptInv)'
  BY StepInv, StepAttempt
<1> QED  BY <1>1, <1>2, PTL DEF Spec

\* An open state always has the connection it is named for.
THEOREM OpenHasItsConn == SingleTry => (Spec => []OpenHasConn)
<1> SUFFICES ASSUME SingleTry PROVE Spec => []OpenHasConn
  OBVIOUS
<1>1. AttemptInv => OpenHasConn
  BY DEF AttemptInv, Connected, OpenHasConn
<1> QED  BY <1>1, AttemptInvariance, PTL

\* After the election, in the open states and in Suspect, at most one of the two
\* connections is up.
THEOREM OneConnSurvives == SingleTry => (Spec => []NoDualConn)
<1> SUFFICES ASSUME SingleTry PROVE Spec => []NoDualConn
  OBVIOUS
<1>1. AttemptInv => NoDualConn
  BY DEF AttemptInv, Connected, NoDualConn, WatchedStates, Up
<1> QED  BY <1>1, AttemptInvariance, PTL

\* I-Open uses the connection on which sendCER sent the CER.
THEOREM OpenIsNegotiated == SingleTry => (Spec => []IOpenNegotiated)
<1> SUFFICES ASSUME SingleTry PROVE Spec => []IOpenNegotiated
  OBVIOUS
<1>1. AttemptInv => IOpenNegotiated
  BY DEF AttemptInv, Connected, IOpenNegotiated
<1> QED  BY <1>1, AttemptInvariance, PTL

\* At most one Start is queued, and none beside a running attempt.
LEMMA AtMostOneStart ==
    ASSUME TypeOK, OneAttempt PROVE SingleAttempt
<1>1. PICK S : S = {i \in DOMAIN queue : queue[i].what = "Start"}
  OBVIOUS
<1>2. Attempts \in Nat /\ Attempts <= 1
  BY DEF TypeOK, OneAttempt, Attempts
<1>3. Attempts + Cardinality(S) <= 1
  <2>1. CASE S = {}
    <3>1. Cardinality(S) = 0
      BY <2>1, FS_EmptySet
    <3> QED  BY <1>2, <3>1
  <2>2. CASE S # {}
    <3>1. PICK k : k \in S
      BY <2>2
    <3>2. S = {k}
      BY <1>1, <3>1 DEF OneAttempt, Token
    <3>3. Cardinality(S) = 1
      BY <3>2, FS_Singleton
    <3>4. Attempts = 0
      BY <1>1, <3>1 DEF OneAttempt, InQueue, Token
    <3> QED  BY <3>3, <3>4
  <2> QED  BY <2>1, <2>2
<1> QED  BY <1>1, <1>3 DEF SingleAttempt, Attempts

\* scheduleReconnect never arms a timer beside a running attempt: of reconnect
\* timers, Start events, dials and their results there is one at most.
THEOREM OneAttemptAtATime == SingleTry => (Spec => []SingleAttempt)
<1> SUFFICES ASSUME SingleTry PROVE Spec => []SingleAttempt
  OBVIOUS
<1>1. Inv /\ AttemptInv => SingleAttempt
  BY AtMostOneStart DEF Inv, AttemptInv
<1> QED  BY <1>1, AttemptInvariance, PTL

\* Only SuspectAlive leads from Suspect to an open state, and it chooses the one
\* the peer came from.
LEMMA LeavesSuspect ==
    ASSUME Inv, AttemptInv, [Next]_vars, state = "Suspect", state' \in {"IOpen", "ROpen"}
    PROVE  state' = lastOpen
<1> USE DEF SMVars, TimerVars, LoopVars, DialVars
<1>1. SuspectAlive
  <2>1. CASE HandleEvent
    <3>1. ~ClosedStart /\ ~ClosedRConnCER /\ ~WaitConnAckAck /\ ~WaitConnAckNack
      BY DEF ClosedStart, ClosedRConnCER, WaitConnAckAck, WaitConnAckNack, On
    <3>2. ~WaitConnAckRConnCER /\ ~WaitConnAckElectAck /\ ~WaitConnAckElectNack
          /\ ~WaitConnAckElectRDisc
      BY DEF WaitConnAckRConnCER, AcceptCER, WaitConnAckElectAck, WaitConnAckElectNack,
             WaitConnAckElectRDisc, DropResponder, OnSide, On
    <3>3. ~WaitICEACEA /\ ~WaitICEARConnCER /\ ~WaitICEAIDisc
      BY DEF WaitICEACEA, WaitICEARConnCER, AcceptCER, WaitICEAIDisc, OnSide, On
    <3>4. ~WaitReturnsWin /\ ~WaitReturnsIDisc /\ ~WaitReturnsCEA /\ ~WaitReturnsRDisc
          /\ ~RejectRConnCER
      BY DEF WaitReturnsWin, WaitReturnsIDisc, WaitReturnsCEA, WaitReturnsRDisc,
             DropResponder, RejectRConnCER, OnSide, On
    <3>5. \A s \in Side : ~OpenRcv(s) /\ ~OpenStop(s) /\ ~OpenRcvDPR(s)
                          /\ ~OpenPeerDisc(s) /\ ~OpenTimeout(s)
      BY DEF OpenRcv, OpenStop, OpenRcvDPR, OpenPeerDisc, OpenTimeout, OpenState, OnSide,
             On
    <3>6. ~SuspectPeerDisc /\ ~ClosingDone /\ ~Timeout /\ ~Ignore
      BY DEF SuspectPeerDisc, ClosingDone, Timeout, Ignore, Retire, ScheduleReconnect, On
    <3> QED  BY <2>1, <3>1, <3>2, <3>3, <3>4, <3>5, <3>6 DEF HandleEvent
  <2>2. CASE CtxDone \/ PostWinElection
    BY <2>2 DEF CtxDone, PostWinElection
  <2>3. CASE Goroutines
    BY <2>3 DEF Goroutines, DialOk, WriteFails, WriterStops, DialFail, PostAck, PostNack,
                FireTimeout, FireWatchdog, PostTimeout, FireReconnect, PostStart, ReadTop,
                ReadReturns, ReadPost
  <2>4. CASE Environment
    BY <2>4 DEF Environment, RemoteCloses, InjectRConnCER, Disconnect, Stop
  <2>5. CASE UNCHANGED vars
    BY <2>5 DEF vars
  <2> QED  BY <2>1, <2>2, <2>3, <2>4, <2>5 DEF Next, StateMachine
<1> QED  BY <1>1 DEF SuspectAlive, AttemptInv, Connected

\* A suspect peer that shows up again returns to the open state it left, although
\* the handler only looks at whether an initiator connection exists.
THEOREM SuspectReturnsHome == SingleTry => (Spec => SuspectReturns)
<1> SUFFICES ASSUME SingleTry PROVE Spec => SuspectReturns
  OBVIOUS
<1>1. Inv /\ AttemptInv /\ [Next]_vars
        => [state = "Suspect" /\ state' \in {"IOpen", "ROpen"} => state' = lastOpen]_vars
  BY LeavesSuspect
<1> QED  BY <1>1, AttemptInvariance, PTL DEF Spec, SuspectReturns
=============================================================================
