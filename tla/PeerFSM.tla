------------------------------ MODULE PeerFSM ------------------------------
(***************************************************************************)
(* One Peer object of pkg/core/peer: the RFC 6733 state machine goroutine  *)
(* (runStateMachine), the goroutines that feed its event channel (dialers, *)
(* read loops, writers, time.AfterFunc callbacks) and the remote end of    *)
(* its transport connections.                                              *)
(*                                                                         *)
(* A handler runs on the state machine goroutine and is one action; the    *)
(* only place where it can block on another goroutine, performElection's   *)
(* send to its own event channel, is an action of its own.  Messages are   *)
(* reduced to what classifyMessageI/R tell apart; whether processCER and   *)
(* processCEA accept their message is a choice of the environment.         *)
(***************************************************************************)
EXTENDS Naturals, Sequences, FiniteSets

CONSTANTS
    Conn,         \* transport connections, dialled or accepted
    None,         \* a nil net.Conn
    EventCap,     \* capacity of eventChan (256 in peer.New)
    Persistent,   \* Config.Persistent
    LocalWins,    \* local Origin-Host > remote Origin-Host, case-insensitively
    StartedBy,    \* how the peer may be started: "Start", "StartWithConnection"
    Responder,    \* R-Conn-CER events reach the peer
    Remote,       \* kinds of messages the remote end sends
    MayStop,      \* the application may call Disconnect() and Stop()
    Timely,       \* timing assumption, see TimerMayFire and FireReconnect
    MaxInFlight   \* bound: fired timers, and dials, not yet delivered

ASSUME NoneAssumption     == None \notin Conn
ASSUME EventCapAssumption == EventCap \in Nat \ {0}
ASSUME FlagAssumption     == {Persistent, LocalWins, Responder, MayStop, Timely} \subseteq BOOLEAN
ASSUME BoundAssumption    == MaxInFlight \in Nat \ {0}

Side == {"I", "R"}

\* What classifyMessageI and classifyMessageR distinguish.
Kind == {"CER", "CEA", "DWR", "DWA", "DPR", "DPA", "Message"}

\* "Malformed" stands for a frame on which ReadMessage fails.
ASSUME RemoteAssumption == Remote \subseteq Kind \cup {"Malformed"}

State == {"Closed", "WaitConnAck", "WaitICEA", "WaitConnAckElect",
          "WaitReturns", "ROpen", "IOpen", "Closing", "Suspect", "Zombie"}

\* Names of the events; the ones in PeerEvent exist once per side.
PeerEvent == Kind \cup {"PeerDisc"}
Name      == PeerEvent \cup {"Start", "ConnCER", "ConnAck", "ConnNack",
                             "Timeout", "WinElection", "Stop"}

\* eventMessage: the side stands for the I-/R- prefix, conn is set for
\* R-Conn-CER only.
EventMessage ==
    [what : Name \ {"ConnCER"}, side : Side \cup {"-"}, conn : {None}]
    \cup [what : {"ConnCER"}, side : {"R"}, conn : Conn]

Ev(w)        == [what |-> w, side |-> "-", conn |-> None]
SideEv(s, w) == [what |-> w, side |-> s, conn |-> None]
RConnCER(c)  == [what |-> "ConnCER", side |-> "R", conn |-> c]

VARIABLES
    state,       \* Peer.state
    pc,          \* state machine goroutine: "run", "elect" (sending
                 \* Win-Election to its own channel) or "exited"
    iConn, rConn,\* Peer.iConn, Peer.rConn
    conn,        \* Conn -> "idle" | "up" | "dead" (remote gone) | "closed"
    pendingCER,  \* Peer.pendingCER: the connection the kept CER came on
    tmo, wd,     \* timeoutTimer, watchdogTimer: "nil" | "armed" | "fired"
    reconnect,   \* armed AfterFuncs of scheduleReconnect
    queue,       \* eventChan
    dialing,     \* initiateConnection goroutines still dialling
    acks, nacks, \* ... and those about to send their result
    timeouts,    \* timer callbacks about to send Timeout
    starts,      \* reconnect callbacks about to send Start
    rdTop,       \* read loops of a side at the top of their for
    rdOn,        \* read loops of a side inside ReadMessage of a connection
    rdPost,      \* read loops of a side about to send an event
    writers,     \* connections a writeLoop was started for
    ctx,         \* Peer.ctx: "live", or "done" once cancelled
    lastOpen,    \* history: the open state Suspect was entered from
    cerConn      \* history: the connection the last CER was sent on

connVars == <<iConn, rConn, conn, pendingCER>>
vars == <<state, pc, iConn, rConn, conn, pendingCER, tmo, wd, reconnect, queue,
          dialing, acks, nacks, timeouts, starts, rdTop, rdOn, rdPost, writers,
          ctx, lastOpen, cerConn>>

\* A peer is created by New and started by Start or StartWithConnection, which
\* spawn the goroutine and send the first event.
Init ==
    /\ state = "Closed" /\ pc = "run"
    /\ iConn = None /\ rConn = None /\ pendingCER = None
    /\ tmo = "nil" /\ wd = "nil" /\ reconnect = 0
    /\ \/ /\ "Start" \in StartedBy /\ queue = <<Ev("Start")>>
          /\ conn = [c \in Conn |-> "idle"]
       \/ \E c \in Conn :
             /\ "StartWithConnection" \in StartedBy /\ queue = <<RConnCER(c)>>
             /\ conn = [d \in Conn |-> IF d = c THEN "up" ELSE "idle"]
    /\ dialing = 0 /\ acks = 0 /\ nacks = 0 /\ timeouts = 0 /\ starts = 0
    /\ rdTop = [s \in Side |-> 0]
    /\ rdOn = [s \in Side |-> [c \in Conn |-> 0]]
    /\ rdPost = [s \in Side |-> [e \in PeerEvent |-> 0]]
    /\ writers = {} /\ ctx = "live"
    /\ lastOpen = None /\ cerConn = None

-----------------------------------------------------------------------------
(* Building blocks of the handlers.                                        *)

Room == Len(queue) < EventCap

\* The state machine receives event w in state st.
On(st, w) ==
    /\ pc = "run" /\ state = st
    /\ queue # <<>> /\ Head(queue).what = w
    /\ queue' = Tail(queue)

\* ... and the event carries side s.
OnSide(st, s, w) == On(st, w) /\ Head(queue).side = s

\* No handler touches what the other goroutines hold.
Frame == UNCHANGED <<acks, nacks, timeouts, starts, rdOn, rdPost, ctx>>

NoSpawn == UNCHANGED <<dialing, rdTop, writers>>

History == UNCHANGED <<lastOpen, cerConn>>

\* A write to a connection the remote has left may or may not report it.
CanSend(c) == c # None /\ conn[c] \in {"up", "dead"}
CanFail(c) == IF c = None THEN TRUE ELSE conn[c] # "up"

Close(cs) == conn' = [c \in Conn |-> IF c \in cs THEN "closed" ELSE conn[c]]

StopTimers == tmo' = "nil" /\ wd' = "nil"

MutErrorCleanupKeepsI ==
    /\ StopTimers
    /\ Close({rConn})
    /\ rConn' = None /\ pendingCER' = None /\ UNCHANGED iConn

\* errorCleanup: both timers, both connections and the pending CER.
ErrorCleanup ==
    /\ StopTimers
    /\ Close({iConn, rConn})
    /\ iConn' = None /\ rConn' = None /\ pendingCER' = None

MutScheduleReconnectNever ==
    IF Persistent
    THEN UNCHANGED reconnect /\ state' = "Closed" /\ pc' = pc
    ELSE state' = "Zombie" /\ pc' = "exited" /\ UNCHANGED reconnect

MutScheduleReconnectTwice ==
    IF Persistent
    THEN reconnect' = reconnect + 2 /\ state' = "Closed" /\ pc' = pc
    ELSE state' = "Zombie" /\ pc' = "exited" /\ UNCHANGED reconnect

\* scheduleReconnect: a persistent peer arms a one-shot Start, any other turns
\* Zombie and its state machine exits.
ScheduleReconnect ==
    IF Persistent
    THEN reconnect' = reconnect + 1 /\ state' = "Closed" /\ pc' = pc
    ELSE state' = "Zombie" /\ pc' = "exited" /\ UNCHANGED reconnect

\* errorCleanup; setState(Closed); scheduleReconnect
Retire == ErrorCleanup /\ ScheduleReconnect /\ NoSpawn /\ History /\ Frame

\* errorCleanup; setState(Closed)
Abandon ==
    /\ ErrorCleanup /\ state' = "Closed"
    /\ UNCHANGED <<pc, reconnect>> /\ NoSpawn /\ History /\ Frame

SpawnReader(s) == rdTop' = [rdTop EXCEPT ![s] = @ + 1]

\* performElection sends Win-Election only if the local host wins.
Elect == pc' = IF LocalWins THEN "elect" ELSE "run"

MutActiveConn == IF rConn # None THEN rConn ELSE iConn

\* getActiveConn outside the open states.
ActiveConn == IF iConn # None THEN iConn ELSE rConn

\* rejectConnection: answer with an error and close; nothing else changes.
Reject(c) ==
    /\ Close({c})
    /\ UNCHANGED <<state, pc, iConn, rConn, pendingCER, tmo, wd, reconnect>>
    /\ NoSpawn /\ History /\ Frame

-----------------------------------------------------------------------------
(* Closed                                                                  *)

ClosedStart ==
    /\ On("Closed", "Start")
    /\ state' = "WaitConnAck" /\ tmo' = "armed" /\ dialing' = dialing + 1
    /\ UNCHANGED <<pc, connVars, wd, reconnect, rdTop, writers>>
    /\ History /\ Frame

\* R-Accept, Process-CER, R-Snd-CEA; a refused CER leaves Peer.rConn set.
ClosedRConnCER ==
    /\ On("Closed", "ConnCER")
    /\ LET c == Head(queue).conn IN
       \/ rConn # None /\ Reject(c)
       \/ /\ rConn = None
          /\ rConn' = c /\ Close({c})
          /\ UNCHANGED <<state, pc, iConn, pendingCER, tmo, wd, reconnect>>
          /\ NoSpawn /\ History /\ Frame
       \/ /\ rConn = None /\ CanFail(c)
          /\ Reject(c)
       \/ /\ rConn = None /\ CanSend(c)
          /\ rConn' = c /\ state' = "ROpen" /\ wd' = "armed"
          /\ SpawnReader("R") /\ writers' = writers \cup {c}
          /\ UNCHANGED <<pc, iConn, conn, pendingCER, tmo, reconnect, dialing>>
          /\ History /\ Frame

-----------------------------------------------------------------------------
(* Wait-Conn-Ack and Wait-Conn-Ack/Elect                                   *)

MutSendCERUntimed(next) ==
    /\ CanSend(ActiveConn)
    /\ state' = next /\ tmo' = "nil" /\ cerConn' = ActiveConn
    /\ SpawnReader("I")
    /\ UNCHANGED <<connVars, wd, reconnect, dialing, writers, lastOpen>>
    /\ Frame

\* stopTimeout, sendCER and, if that worked, the next state with its timer.
SendCER(next) ==
    /\ CanSend(ActiveConn)
    /\ state' = next /\ tmo' = "armed" /\ cerConn' = ActiveConn
    /\ SpawnReader("I")
    /\ UNCHANGED <<connVars, wd, reconnect, dialing, writers, lastOpen>>
    /\ Frame

WaitConnAckAck ==
    /\ On("WaitConnAck", "ConnAck")
    /\ \/ SendCER("WaitICEA") /\ pc' = pc
       \/ CanFail(ActiveConn) /\ Abandon

WaitConnAckNack == On("WaitConnAck", "ConnNack") /\ Retire

\* R-Accept and Process-CER while an own connection is being set up: the CER is
\* kept for the election.
AcceptCER(st, next) ==
    /\ On(st, "ConnCER")
    /\ LET c == Head(queue).conn IN
       \/ Reject(c)          \* rConn exists already, or processCER refuses
       \/ /\ rConn = None
          /\ rConn' = c /\ pendingCER' = c /\ state' = next
          /\ IF next = "WaitReturns" THEN Elect ELSE pc' = pc
          /\ UNCHANGED <<iConn, conn, tmo, wd, reconnect>>
          /\ NoSpawn /\ History /\ Frame

WaitConnAckRConnCER == AcceptCER("WaitConnAck", "WaitConnAckElect")

WaitConnAckElectAck ==
    /\ On("WaitConnAckElect", "ConnAck")
    /\ \/ SendCER("WaitReturns") /\ Elect
       \/ CanFail(ActiveConn) /\ Abandon

MutOpenResponderKeepsI(iConns) ==
    /\ tmo' = "nil" /\ CanSend(rConn)
    /\ pendingCER' = None /\ state' = "ROpen" /\ wd' = "armed"
    /\ SpawnReader("R") /\ writers' = writers \cup {rConn}
    /\ UNCHANGED <<pc, rConn, iConn, conn, reconnect, dialing>>
    /\ History /\ Frame

\* The responder connection wins: answer the pending CER on it and open.
\* iConns is what the handler has closed before.
OpenResponder(iConns) ==
    /\ tmo' = "nil"
    /\ iConn' = IF iConn \in iConns THEN None ELSE iConn
    /\ \/ /\ CanFail(rConn)
          /\ Close({rConn} \cup iConns) /\ rConn' = None /\ state' = "Closed"
          /\ UNCHANGED <<pc, pendingCER, wd, reconnect>> /\ NoSpawn
       \/ /\ CanSend(rConn)
          /\ Close(iConns) /\ pendingCER' = None
          /\ state' = "ROpen" /\ wd' = "armed"
          /\ SpawnReader("R") /\ writers' = writers \cup {rConn}
          /\ UNCHANGED <<pc, rConn, reconnect, dialing>>
    /\ History /\ Frame

WaitConnAckElectNack ==
    On("WaitConnAckElect", "ConnNack") /\ OpenResponder({})

MutDropResponderKeepsState(st, next) ==
    /\ OnSide(st, "R", "PeerDisc")
    /\ Close({rConn}) /\ rConn' = None /\ pendingCER' = None
    /\ UNCHANGED <<state, pc, iConn, tmo, wd, reconnect>>
    /\ NoSpawn /\ History /\ Frame

\* R-Disc: drop the responder connection and its CER.
DropResponder(st, next) ==
    /\ OnSide(st, "R", "PeerDisc")
    /\ Close({rConn}) /\ rConn' = None /\ pendingCER' = None
    /\ state' = next
    /\ UNCHANGED <<pc, iConn, tmo, wd, reconnect>>
    /\ NoSpawn /\ History /\ Frame

WaitConnAckElectRDisc == DropResponder("WaitConnAckElect", "WaitConnAck")

-----------------------------------------------------------------------------
(* Wait-I-CEA and Wait-Returns                                             *)

\* Process-CEA and I-Open.
OpenInitiator ==
    /\ tmo' = "nil" /\ wd' = "armed" /\ state' = "IOpen"
    /\ writers' = writers \cup ({iConn} \ {None})
    /\ UNCHANGED <<pc, iConn, reconnect, dialing, rdTop>>
    /\ History /\ Frame

WaitICEACEA ==
    /\ OnSide("WaitICEA", "I", "CEA")
    /\ \/ Abandon
       \/ OpenInitiator /\ UNCHANGED <<rConn, conn, pendingCER>>

WaitICEARConnCER == AcceptCER("WaitICEA", "WaitReturns")

WaitICEAIDisc == OnSide("WaitICEA", "I", "PeerDisc") /\ Retire

WaitReturnsWin == On("WaitReturns", "WinElection") /\ OpenResponder({iConn})

WaitReturnsIDisc ==
    OnSide("WaitReturns", "I", "PeerDisc") /\ OpenResponder({iConn})

WaitReturnsCEA ==
    /\ OnSide("WaitReturns", "I", "CEA")
    /\ rConn' = None /\ pendingCER' = None
    /\ \/ OpenInitiator /\ Close({rConn})
       \/ /\ Close({rConn, iConn}) /\ iConn' = None
          /\ state' = "Closed" /\ tmo' = "nil"
          /\ UNCHANGED <<pc, wd, reconnect>> /\ NoSpawn /\ History /\ Frame

WaitReturnsRDisc == DropResponder("WaitReturns", "WaitICEA")

\* A second responder connection during or after the election is refused.
RejectRConnCER ==
    /\ \E st \in {"WaitConnAckElect", "WaitReturns", "ROpen", "IOpen"} :
          On(st, "ConnCER")
    /\ Reject(Head(queue).conn)

-----------------------------------------------------------------------------
(* R-Open and I-Open: the same handlers, each for its own connection       *)

OpenState(s) == IF s = "I" THEN "IOpen" ELSE "ROpen"

\* resetWatchdog only restarts a timer that exists.
ResetWatchdog == wd' = IF wd = "nil" THEN "nil" ELSE "armed"

\* A message, a DWR (answered) or a DWA shows the peer alive.
OpenRcv(s) ==
    /\ \E k \in {"Message", "DWR", "DWA"} : OnSide(OpenState(s), s, k)
    /\ ResetWatchdog
    /\ UNCHANGED <<state, pc, connVars, tmo, reconnect>>
    /\ NoSpawn /\ History /\ Frame

\* Disconnect(): R-/I-Snd-DPR, bounded by the timeout timer.
OpenStop(s) ==
    /\ On(OpenState(s), "Stop")
    /\ state' = "Closing" /\ wd' = "nil" /\ tmo' = "armed"
    /\ UNCHANGED <<pc, connVars, reconnect>>
    /\ NoSpawn /\ History /\ Frame

\* The remote's DPR is answered; no timer bounds the wait for it to leave.
OpenRcvDPR(s) ==
    /\ OnSide(OpenState(s), s, "DPR")
    /\ state' = "Closing" /\ wd' = "nil"
    /\ UNCHANGED <<pc, connVars, tmo, reconnect>>
    /\ NoSpawn /\ History /\ Frame

OpenPeerDisc(s) == OnSide(OpenState(s), s, "PeerDisc") /\ Retire

MutOpenTimeoutNoRearm(s) ==
    /\ On(OpenState(s), "Timeout")
    /\ state' = "Suspect" /\ lastOpen' = state
    /\ UNCHANGED <<pc, connVars, tmo, wd, reconnect, cerConn>>
    /\ NoSpawn /\ Frame

\* Watchdog timeout: Suspect, with the watchdog started again and a DWR sent.
OpenTimeout(s) ==
    /\ On(OpenState(s), "Timeout")
    /\ state' = "Suspect" /\ wd' = "armed" /\ lastOpen' = state
    /\ UNCHANGED <<pc, connVars, tmo, reconnect, cerConn>>
    /\ NoSpawn /\ Frame

-----------------------------------------------------------------------------
(* Suspect and Closing                                                     *)

MutSuspectAlive ==
    /\ \E k \in {"DWA", "Message"} : On("Suspect", k)
    /\ state' = IF iConn # None THEN "ROpen" ELSE "IOpen"
    /\ ResetWatchdog
    /\ UNCHANGED <<pc, connVars, tmo, reconnect>>
    /\ NoSpawn /\ History /\ Frame

\* A DWA or a message on either connection: back to the open state that the
\* presence of an initiator connection suggests.
SuspectAlive ==
    /\ \E k \in {"DWA", "Message"} : On("Suspect", k)
    /\ state' = IF iConn # None THEN "IOpen" ELSE "ROpen"
    /\ ResetWatchdog
    /\ UNCHANGED <<pc, connVars, tmo, reconnect>>
    /\ NoSpawn /\ History /\ Frame

SuspectPeerDisc == On("Suspect", "PeerDisc") /\ Retire

MutClosingDone ==
    /\ \E w \in {"DPA", "Timeout"} : On("Closing", w)
    /\ Abandon

\* A DPA on either connection, the timeout, or either connection gone.
ClosingDone ==
    /\ \E w \in {"DPA", "Timeout", "PeerDisc"} : On("Closing", w)
    /\ Abandon

\* The timeout of a handshake, or of a suspect connection.
TimedWait == {"WaitConnAck", "WaitICEA", "WaitConnAckElect", "WaitReturns"}

Timeout == \E st \in TimedWait \cup {"Suspect"} : On(st, "Timeout") /\ Retire

\* Every other event is received and dropped.
Handled ==
    LET e == Head(queue) IN
    CASE state = "Closed"  -> e.what \in {"Start", "ConnCER"}
      [] state = "WaitConnAck" ->
            e.what \in {"ConnAck", "ConnNack", "ConnCER", "Timeout"}
      [] state = "WaitICEA" ->
            \/ e.what \in {"ConnCER", "Timeout"}
            \/ e.side = "I" /\ e.what \in {"CEA", "PeerDisc"}
      [] state = "WaitConnAckElect" ->
            \/ e.what \in {"ConnAck", "ConnNack", "ConnCER", "Timeout"}
            \/ e.side = "R" /\ e.what = "PeerDisc"
      [] state = "WaitReturns" ->
            \/ e.what \in {"WinElection", "ConnCER", "Timeout", "PeerDisc"}
            \/ e.side = "I" /\ e.what = "CEA"
      [] state \in {"ROpen", "IOpen"} ->
            \/ e.what \in {"ConnCER", "Stop", "Timeout"}
            \/ /\ state = OpenState(e.side)
               /\ e.what \in {"Message", "DWR", "DWA", "DPR", "PeerDisc"}
      [] state = "Suspect" ->
            e.what \in {"DWA", "Message", "Timeout", "PeerDisc"}
      [] state = "Closing" -> e.what \in {"DPA", "Timeout", "PeerDisc"}
      [] OTHER -> FALSE

Ignore ==
    /\ pc = "run" /\ queue # <<>> /\ ~Handled
    /\ queue' = Tail(queue)
    /\ UNCHANGED <<state, pc, connVars, tmo, wd, reconnect>>
    /\ NoSpawn /\ History /\ Frame

\* ctx.Done: Zombie, then the deferred cleanup.
CtxDone ==
    /\ pc = "run" /\ ctx = "done"
    /\ state' = "Zombie" /\ pc' = "exited"
    /\ ErrorCleanup
    /\ UNCHANGED <<reconnect, queue>> /\ NoSpawn /\ History /\ Frame

\* The state machine goroutine completes its send to its own channel.
PostWinElection ==
    /\ pc = "elect" /\ Room
    /\ queue' = Append(queue, Ev("WinElection")) /\ pc' = "run"
    /\ UNCHANGED <<state, connVars, tmo, wd, reconnect>>
    /\ NoSpawn /\ History /\ Frame

HandleEvent ==
    \/ ClosedStart \/ ClosedRConnCER
    \/ WaitConnAckAck \/ WaitConnAckNack \/ WaitConnAckRConnCER
    \/ WaitConnAckElectAck \/ WaitConnAckElectNack \/ WaitConnAckElectRDisc
    \/ WaitICEACEA \/ WaitICEARConnCER \/ WaitICEAIDisc
    \/ WaitReturnsWin \/ WaitReturnsIDisc \/ WaitReturnsCEA \/ WaitReturnsRDisc
    \/ RejectRConnCER
    \/ \E s \in Side : \/ OpenRcv(s) \/ OpenStop(s) \/ OpenRcvDPR(s)
                       \/ OpenPeerDisc(s) \/ OpenTimeout(s)
    \/ SuspectAlive \/ SuspectPeerDisc \/ ClosingDone \/ Timeout \/ Ignore

StateMachine == HandleEvent \/ CtxDone \/ PostWinElection

-----------------------------------------------------------------------------
(* The goroutines that feed the event channel                              *)

SMVars == <<state, pc, rConn, pendingCER, reconnect, lastOpen, cerConn>>
TimerVars == <<tmo, wd>>
DialVars == <<dialing, acks, nacks>>
LoopVars == <<rdTop, rdOn, rdPost>>

\* initiateConnection succeeds: Peer.iConn is set first, whatever the state
\* machine has done since, and I-Rcv-Conn-Ack is sent afterwards.
DialOk(c) ==
    /\ dialing > 0 /\ conn[c] = "idle"
    /\ dialing' = dialing - 1 /\ acks' = acks + 1
    /\ conn' = [conn EXCEPT ![c] = "up"] /\ iConn' = c
    /\ UNCHANGED <<SMVars, TimerVars, LoopVars, queue, nacks, timeouts, starts,
                   writers, ctx>>

\* No address answered, or the TLS configuration could not be loaded.
DialFail ==
    /\ dialing > 0
    /\ dialing' = dialing - 1 /\ nacks' = nacks + 1
    /\ UNCHANGED <<SMVars, TimerVars, LoopVars, iConn, conn, queue, acks,
                   timeouts, starts, writers, ctx>>

MutPost(e) == queue' = Append(queue, e)

\* A goroutine sends on eventChan; it blocks while the channel is full.
Post(e) == Room /\ queue' = Append(queue, e)

PostAck ==
    /\ acks > 0 /\ acks' = acks - 1 /\ Post(Ev("ConnAck"))
    /\ UNCHANGED <<SMVars, TimerVars, LoopVars, iConn, conn, dialing, nacks,
                   timeouts, starts, writers, ctx>>

PostNack ==
    /\ nacks > 0 /\ nacks' = nacks - 1 /\ Post(Ev("ConnNack"))
    /\ UNCHANGED <<SMVars, TimerVars, LoopVars, iConn, conn, dialing, acks,
                   timeouts, starts, writers, ctx>>

\* Under Timely no dial outlives the ConnectTimeout timer.  The code allows it:
\* every address, and its TLS handshake, has a ConnectTimeout of its own.
TimerMayFire == timeouts < MaxInFlight
                /\ (Timely => dialing + acks + nacks = 0)

FireTimeout ==
    /\ tmo = "armed" /\ TimerMayFire
    /\ tmo' = "fired" /\ timeouts' = timeouts + 1
    /\ UNCHANGED <<SMVars, DialVars, LoopVars, wd, iConn, conn, queue, starts,
                   writers, ctx>>

FireWatchdog ==
    /\ wd = "armed" /\ TimerMayFire
    /\ wd' = "fired" /\ timeouts' = timeouts + 1
    /\ UNCHANGED <<SMVars, DialVars, LoopVars, tmo, iConn, conn, queue, starts,
                   writers, ctx>>

PostTimeout ==
    /\ timeouts > 0 /\ timeouts' = timeouts - 1 /\ Post(Ev("Timeout"))
    /\ UNCHANGED <<SMVars, TimerVars, DialVars, LoopVars, iConn, conn, starts,
                   writers, ctx>>

Posting == acks + nacks + timeouts + starts > 0
           \/ \E s \in Side, e \in PeerEvent : rdPost[s][e] > 0

\* Under Timely the ReconnectInterval outlasts everything in flight.
FireReconnect ==
    /\ reconnect > 0
    /\ starts + dialing + acks + nacks < MaxInFlight
    /\ Timely => queue = <<>> /\ dialing = 0 /\ ~Posting
    /\ reconnect' = reconnect - 1 /\ starts' = starts + 1
    /\ UNCHANGED <<state, pc, rConn, pendingCER, lastOpen, cerConn, TimerVars,
                   DialVars, LoopVars, iConn, conn, queue, timeouts, writers,
                   ctx>>

PostStart ==
    /\ starts > 0 /\ starts' = starts - 1 /\ Post(Ev("Start"))
    /\ UNCHANGED <<SMVars, TimerVars, DialVars, LoopVars, iConn, conn, timeouts,
                   writers, ctx>>

\* Top of readLoopI/R: leave if the context is done or the connection is nil,
\* else block in ReadMessage of the connection the peer has now.
ReadTop(s) ==
    /\ rdTop[s] > 0 /\ rdTop' = [rdTop EXCEPT ![s] = @ - 1]
    /\ LET c == IF s = "I" THEN iConn ELSE rConn IN
       IF ctx = "done" \/ c = None THEN UNCHANGED rdOn
       ELSE rdOn' = [rdOn EXCEPT ![s][c] = @ + 1]
    /\ UNCHANGED <<SMVars, TimerVars, DialVars, iConn, conn, queue, timeouts,
                   starts, rdPost, writers, ctx>>

\* ReadMessage returns a message, or an error once the connection is gone.
ReadReturns(s, c, e) ==
    /\ rdOn[s][c] > 0
    /\ IF e = "PeerDisc"
       THEN conn[c] \in {"dead", "closed"} \/ "Malformed" \in Remote
       ELSE conn[c] = "up" /\ e \in Remote
    /\ rdOn' = [rdOn EXCEPT ![s][c] = @ - 1]
    /\ rdPost' = [rdPost EXCEPT ![s][e] = @ + 1]
    /\ UNCHANGED <<SMVars, TimerVars, DialVars, iConn, conn, queue, timeouts,
                   starts, rdTop, writers, ctx>>

\* The loop sends the event: after a message it goes on, after an error it ends.
ReadPost(s, e) ==
    /\ rdPost[s][e] > 0 /\ rdPost' = [rdPost EXCEPT ![s][e] = @ - 1]
    /\ Post(SideEv(s, e))
    /\ rdTop' = IF e = "PeerDisc" THEN rdTop ELSE [rdTop EXCEPT ![s] = @ + 1]
    /\ UNCHANGED <<SMVars, TimerVars, DialVars, iConn, conn, timeouts, starts,
                   rdOn, writers, ctx>>

\* The writer's failed flush is reported for the side that has a connection now; the
\* report is dropped if the channel is full.  writeLoop's own report waits instead.
WriteFails(c) ==
    /\ c \in writers /\ conn[c] \in {"dead", "closed"}
    /\ writers' = writers \ {c}
    /\ queue' = IF Room
                THEN Append(queue, SideEv(IF iConn # None THEN "I" ELSE "R",
                                          "PeerDisc"))
                ELSE queue
    /\ UNCHANGED <<SMVars, TimerVars, DialVars, LoopVars, iConn, conn, timeouts,
                   starts, ctx>>

\* writeLoop leaves on connDone or ctx.Done with nothing to report.
WriterStops(c) ==
    /\ c \in writers /\ (conn[c] = "closed" \/ ctx = "done")
    /\ writers' = writers \ {c}
    /\ UNCHANGED <<SMVars, TimerVars, DialVars, LoopVars, iConn, conn, queue,
                   timeouts, starts, ctx>>

Goroutines ==
    \/ \E c \in Conn : DialOk(c) \/ WriteFails(c) \/ WriterStops(c)
    \/ DialFail \/ PostAck \/ PostNack
    \/ FireTimeout \/ FireWatchdog \/ PostTimeout
    \/ FireReconnect \/ PostStart
    \/ \E s \in Side :
          \/ ReadTop(s)
          \/ \E c \in Conn, e \in PeerEvent : ReadReturns(s, c, e)
          \/ \E e \in PeerEvent : ReadPost(s, e)

-----------------------------------------------------------------------------
(* The remote end and the application                                      *)

RemoteCloses(c) ==
    /\ conn[c] = "up" /\ conn' = [conn EXCEPT ![c] = "dead"]
    /\ UNCHANGED <<SMVars, TimerVars, DialVars, LoopVars, iConn, queue, timeouts,
                   starts, writers, ctx>>

\* StartWithConnection / InjectRConnCER: a connection arrives with its CER.
InjectRConnCER(c) ==
    /\ Responder /\ pc # "exited" /\ conn[c] = "idle"
    /\ conn' = [conn EXCEPT ![c] = "up"] /\ Post(RConnCER(c))
    /\ UNCHANGED <<SMVars, TimerVars, DialVars, LoopVars, iConn, timeouts, starts,
                   writers, ctx>>

\* Disconnect(); one Stop at a time is enough.
Disconnect ==
    /\ MayStop /\ \A i \in DOMAIN queue : queue[i].what # "Stop"
    /\ Post(Ev("Stop"))
    /\ UNCHANGED <<SMVars, TimerVars, DialVars, LoopVars, iConn, conn, timeouts,
                   starts, writers, ctx>>

\* Stop() cancels the context and waits for the state machine to exit.
Stop ==
    /\ MayStop /\ ctx = "live" /\ ctx' = "done"
    /\ UNCHANGED <<SMVars, TimerVars, DialVars, LoopVars, iConn, conn, queue,
                   timeouts, starts, writers>>

Environment ==
    \/ \E c \in Conn : RemoteCloses(c) \/ InjectRConnCER(c)
    \/ Disconnect \/ Stop

Next == StateMachine \/ Goroutines \/ Environment

Spec == Init /\ [][Next]_vars
-----------------------------------------------------------------------------
(* Fairness: the Go scheduler runs every goroutine that can run, armed      *)
(* timers fire, and blocked channel senders are served in arrival order,    *)
(* which makes a send strongly fair.  Nothing is assumed of the remote or   *)
(* of the application.                                                      *)

Fairness ==
    /\ WF_vars(HandleEvent) /\ WF_vars(CtxDone) /\ WF_vars(PostWinElection)
    /\ WF_vars(FireTimeout) /\ WF_vars(FireWatchdog) /\ SF_vars(FireReconnect)
    /\ SF_vars(PostTimeout) /\ SF_vars(PostStart)
    /\ SF_vars(PostAck) /\ SF_vars(PostNack)
    /\ WF_vars(DialFail \/ \E c \in Conn : DialOk(c))
    /\ \A s \in Side : /\ WF_vars(ReadTop(s))
                       /\ SF_vars(\E e \in PeerEvent : ReadPost(s, e))
    /\ \A s \in Side, c \in Conn : WF_vars(ReadReturns(s, c, "PeerDisc"))

FairSpec == Spec /\ Fairness

-----------------------------------------------------------------------------
(* Properties                                                              *)

Timer == {"nil", "armed", "fired"}

\* Types; eventChan never holds more than its capacity, and only R-Conn-CER carries
\* a connection.
TypeOK ==
    /\ state \in State /\ pc \in {"run", "elect", "exited"}
    /\ iConn \in Conn \cup {None} /\ rConn \in Conn \cup {None}
    /\ conn \in [Conn -> {"idle", "up", "dead", "closed"}]
    /\ pendingCER \in Conn \cup {None}
    /\ tmo \in Timer /\ wd \in Timer /\ reconnect \in Nat
    /\ queue \in Seq(EventMessage) /\ Len(queue) <= EventCap
    /\ dialing \in Nat /\ acks \in Nat /\ nacks \in Nat
    /\ timeouts \in Nat /\ starts \in Nat
    /\ rdTop \in [Side -> Nat] /\ rdOn \in [Side -> [Conn -> Nat]]
    /\ rdPost \in [Side -> [PeerEvent -> Nat]]
    /\ writers \subseteq Conn /\ ctx \in {"live", "done"}
    /\ lastOpen \in {"IOpen", "ROpen", None} /\ cerConn \in Conn \cup {None}

\* A Timeout event is on its way to the state machine.
TimeoutPending ==
    timeouts > 0 \/ \E i \in DOMAIN queue : queue[i].what = "Timeout"

WatchedStates == {"IOpen", "ROpen", "Suspect"}

\* The peer never waits without a timer: in every handshake state the timeout
\* timer, and in every open state and in Suspect the watchdog, is armed or its
\* Timeout is on its way, so a lost CEA, CER or DWA is always noticed.
WaitIsTimed ==
    /\ state \in TimedWait => tmo = "armed" \/ TimeoutPending
    /\ state \in WatchedStates => wd = "armed" \/ TimeoutPending

\* sendCEAOnConn dereferences the pending CER: whenever an election is open
\* there is one, together with the responder connection it arrived on.
ElectionHasCER ==
    state \in {"WaitConnAckElect", "WaitReturns"} =>
        pendingCER # None /\ rConn = pendingCER

Up(c) == c # None /\ conn[c] = "up"

\* An open state has the connection it is named for.
OpenHasConn ==
    /\ state = "IOpen" => iConn # None
    /\ state = "ROpen" => rConn # None

\* Once the election is over only one connection to the remote survives.
NoDualConn == state \in WatchedStates => ~(Up(iConn) /\ Up(rConn))

\* I-Open uses the connection on which the CER was sent.
IOpenNegotiated == state = "IOpen" => iConn = cerConn

\* A suspect peer that shows up again returns to the open state it came from.
SuspectReturns ==
    [][state = "Suspect" /\ state' \in {"IOpen", "ROpen"}
         => state' = lastOpen]_vars

\* A persistent outbound peer makes one attempt at a time: never a second dial or
\* reconnect timer beside a running one.
SingleAttempt ==
    reconnect + starts + dialing + acks + nacks
      + Cardinality({i \in DOMAIN queue : queue[i].what = "Start"}) <= 1

\* peer.go:25: StateClosed has "no transport connection".  A dial that outlives its
\* attempt contradicts it: initiateConnection stores its connection whatever the state
\* (state_machine.go:775), and a closed peer ignores its Conn-Ack.
ClosedNoIConn == state = "Closed" => iConn = None

\* A suspect peer recovers or, being persistent and not stopped, is connected
\* anew: losing a DWA never strands it
\* (docs/dea-reference.md, "The Suspect watchdog defect").
SuspectRecovers ==
    Persistent /\ state = "Suspect"
      ~> state \in {"IOpen", "ROpen", "WaitConnAck", "Zombie"}

\* A handshake ends, one way or the other, whatever the remote does.
HandshakeEnds == state \in TimedWait ~> state \notin TimedWait

\* A connection the remote has left is noticed and closed, in a handshake, an open state,
\* Suspect or Closing, whatever messages, disconnects and stops come in between.
LostConnReleased ==
    \A c \in Conn : conn[c] = "dead" /\ pc = "run" /\ c \in {iConn, rConn} ~> conn[c] = "closed"

\* state_machine_collision_test.go:582: "A persistent peer must come back on its
\* own after a failed handshake".
PersistentPeerRetries == Persistent /\ state = "Closed" ~> state # "Closed"

=============================================================================
