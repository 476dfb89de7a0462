--------------------------- MODULE SessionManager ---------------------------
(***************************************************************************)
(* Sessions and their manager (pkg/core/session) under concurrent callers: *)
(* the two indexes, the callbacks that Terminate and Remove run after they *)
(* have let go of the locks, and the time.AfterFunc timer of a session,    *)
(* whose function may have started and be waiting for the session's lock.  *)
(*                                                                         *)
(* The application's onSessionClose asks the manager for its Count; its    *)
(* onSessionCreate, which runs under the manager's lock, does not.         *)
(***************************************************************************)
EXTENDS Integers, Sequences, FiniteSets

CONSTANTS
    Session,         \* session objects
    SessionID, IdOf, \* [Session -> SessionID]: two objects may have one Session-ID
    App, AppOf,      \* [Session -> App]
    Thread,          \* callers of the manager
    MaxRegs,         \* [Session -> Nat]: bound on the registrations of an object
    Handled,         \* sessions the application also opens, times and sets callbacks on
    MaxArms,         \* bound on the SetTimeout and RefreshTimeout calls of one object
    LateCallback,    \* whether the application sets onTerminate on a registered session
    NoSession

ASSUME SessionAssumption == Handled \subseteq Session /\ IdOf \in [Session -> SessionID] /\ AppOf \in [Session -> App]
ASSUME BoundAssumption   == MaxRegs \in [Session -> Nat] /\ MaxArms \in Nat
ASSUME NoSessionAssumption == NoSession \notin Session \cup Thread
ASSUME ThreadAssumption  == IsFiniteSet(Thread)

VARIABLES
    sessions,        \* Manager.sessions
    byAppID,         \* Manager.byAppID
    lock,            \* the thread that holds Manager.mu across a callback
    call,            \* what each thread is doing
    state,           \* Session.state
    onTerminate,     \* what Session.onTerminate does, call by call
    timeout,         \* Session.timeout > 0
    timer,           \* Session.timer # nil
    running,         \* timers of the session that have not fired
    fired,           \* timer functions that have started and wait for the lock
    regs, closes,    \* registrations, and onSessionClose calls that reported their end
    arms             \* SetTimeout and RefreshTimeout calls

managerVars == <<sessions, byAppID, regs>>
timerVars   == <<timeout, timer, running, fired, arms>>
smVars      == <<managerVars, timerVars, lock, call, state, onTerminate, closes>>

Idle == [pc |-> "idle", sess |-> NoSession, todo |-> {}, calls |-> <<>>]

SmInit ==
    /\ sessions = [i \in SessionID |-> NoSession]
    /\ byAppID = [a \in App |-> [i \in SessionID |-> NoSession]]
    /\ lock = NoSession /\ call = [t \in Thread |-> Idle]
    /\ state = [s \in Session |-> "idle"] /\ onTerminate = [s \in Session |-> <<>>]
    /\ timeout = [s \in Session |-> FALSE] /\ timer = [s \in Session |-> FALSE]
    /\ running = [s \in Session |-> 0] /\ fired = [s \in Session |-> 0]
    /\ regs = [s \in Session |-> 0] /\ closes = [s \in Session |-> 0]
    /\ arms = [s \in Session |-> 0]

At(t, pc) == call[t].pc = pc
Goto(t, pc) == call' = [call EXCEPT ![t].pc = pc]

-----------------------------------------------------------------------------
(* The manager                                                             *)

\* Register, after the lock is taken and up to the callback: a session whose ID is
\* in use is refused.
Register(t, s) ==
    /\ At(t, "idle") /\ lock = NoSession /\ regs[s] < MaxRegs[s]
    /\ sessions[IdOf[s]] = NoSession
    /\ sessions' = [sessions EXCEPT ![IdOf[s]] = s]
    /\ byAppID' = [byAppID EXCEPT ![AppOf[s]][IdOf[s]] = s]
    /\ onTerminate' = [onTerminate EXCEPT ![s] = <<"remove">> \o @]
    /\ regs' = [regs EXCEPT ![s] = @ + 1]
    /\ lock' = t /\ Goto(t, "create")
    /\ UNCHANGED <<timerVars, state, closes>>

MutCreated(t) ==
    /\ At(t, "create") /\ lock = NoSession
    /\ Goto(t, "idle") /\ UNCHANGED <<managerVars, timerVars, lock, state, onTerminate, closes>>

\* onSessionCreate returns, and Register lets go of the lock.
Created(t) ==
    /\ At(t, "create") /\ lock' = NoSession /\ Goto(t, "idle")
    /\ UNCHANGED <<managerVars, timerVars, state, onTerminate, closes>>

MutDelete(t, i, c) ==
    LET s == IF sessions[i] = NoSession THEN c.sess ELSE sessions[i] IN
    /\ lock = NoSession
    /\ sessions' = [sessions EXCEPT ![i] = NoSession]
    /\ byAppID' = [byAppID EXCEPT ![AppOf[s]][i] = NoSession]
    /\ call' = [call EXCEPT ![t] = [c EXCEPT !.pc = "close", !.sess = s]]

\* Remove of an ID, by thread t whose record becomes c: the session that has the ID is
\* taken out, and its end is reported once the lock is free.
Delete(t, i, c) ==
    LET s == sessions[i] IN
    /\ lock = NoSession
    /\ IF s = NoSession
       THEN call' = [call EXCEPT ![t] = c] /\ UNCHANGED <<sessions, byAppID>>
       ELSE /\ sessions' = [sessions EXCEPT ![i] = NoSession]
            /\ byAppID' = [byAppID EXCEPT ![AppOf[s]][i] = NoSession]
            /\ call' = [call EXCEPT ![t] = [c EXCEPT !.pc = "close", !.sess = s]]

Remove(t, i) ==
    /\ At(t, "idle") /\ sessions[i] # NoSession /\ Delete(t, i, [Idle EXCEPT !.pc = "calls"])
    /\ UNCHANGED <<timerVars, lock, state, onTerminate, regs, closes>>

\* onSessionClose; it calls Count.
Closed(t) ==
    /\ At(t, "close") /\ lock = NoSession /\ Goto(t, "calls")
    /\ closes' = [closes EXCEPT ![call[t].sess] = @ + 1]
    /\ UNCHANGED <<managerVars, timerVars, lock, state, onTerminate>>

\* CloseAll terminates what it finds, one session after the other.
CloseAll(t) ==
    /\ At(t, "idle") /\ lock = NoSession
    /\ call' = [call EXCEPT ![t] = [Idle EXCEPT !.pc = "calls",
                                    !.todo = {sessions[i] : i \in SessionID} \ {NoSession}]]
    /\ UNCHANGED <<managerVars, timerVars, lock, state, onTerminate, closes>>

-----------------------------------------------------------------------------
(* A session                                                               *)

\* Stop of the timer, which comes too late for one that has fired.
StopTimer(s) == running' = [running EXCEPT ![s] = IF timer[s] THEN 0 ELSE @]

\* Terminate, up to the end of its locked part.
TerminateOf(t, s, rest) ==
    /\ state' = [state EXCEPT ![s] = "disconnected"]
    /\ StopTimer(s) /\ timer' = [timer EXCEPT ![s] = FALSE]
    /\ call' = [call EXCEPT ![t] = [pc |-> "calls", sess |-> s, todo |-> rest,
                                    calls |-> onTerminate[s]]]
    /\ UNCHANGED <<managerVars, lock, onTerminate, timeout, fired, arms, closes>>

Terminate(t, s) == At(t, "idle") /\ regs[s] > 0 /\ TerminateOf(t, s, {})

\* What is left of Terminate and CloseAll: onTerminate, which in a registered session
\* calls Remove and then the callback it replaced, then the next session.
RunCallback(t) ==
    LET c == call[t] IN
    /\ At(t, "calls")
    /\ \/ /\ c.calls # <<>> /\ Head(c.calls) = "remove"
          /\ Delete(t, IdOf[c.sess], [c EXCEPT !.calls = Tail(@)])
          /\ UNCHANGED <<timerVars, lock, state, onTerminate, regs, closes>>
       \/ /\ c.calls # <<>> /\ Head(c.calls) = "user"
          /\ call' = [call EXCEPT ![t].calls = Tail(@)]
          /\ UNCHANGED <<managerVars, timerVars, lock, state, onTerminate, closes>>
       \/ /\ c.calls = <<>> /\ \E s \in c.todo : TerminateOf(t, s, c.todo \ {s})
       \/ /\ c.calls = <<>> /\ c.todo = {} /\ call' = [call EXCEPT ![t] = Idle]
          /\ UNCHANGED <<managerVars, timerVars, lock, state, onTerminate, closes>>

\* Close: like Terminate, but it leaves the session in the manager.
Close(s) ==
    /\ regs[s] > 0 /\ state[s] # "disconnected"
    /\ state' = [state EXCEPT ![s] = "disconnected"]
    /\ StopTimer(s) /\ timer' = [timer EXCEPT ![s] = FALSE]
    /\ UNCHANGED <<managerVars, lock, call, onTerminate, timeout, fired, arms, closes>>

\* Open, whatever the state.
Open(s) ==
    /\ state' = [state EXCEPT ![s] = "open"]
    /\ UNCHANGED <<managerVars, timerVars, lock, call, onTerminate, closes>>

\* SetOnTerminate replaces the manager's callback as well.
SetOnTerminate(s) ==
    /\ regs[s] = 0 \/ LateCallback
    /\ onTerminate' = [onTerminate EXCEPT ![s] = <<"user">>]
    /\ UNCHANGED <<managerVars, timerVars, lock, call, state, closes>>

SetTimeout(s) ==
    /\ arms[s] < MaxArms /\ arms' = [arms EXCEPT ![s] = @ + 1]
    /\ running' = [running EXCEPT ![s] = (IF timer[s] THEN 0 ELSE @) + 1]
    /\ timeout' = [timeout EXCEPT ![s] = TRUE] /\ timer' = [timer EXCEPT ![s] = TRUE]
    /\ UNCHANGED <<managerVars, lock, call, state, onTerminate, fired, closes>>

MutRefreshTimeout(s) ==
    /\ timeout[s] /\ timer[s] /\ arms[s] < MaxArms /\ arms' = [arms EXCEPT ![s] = @ + 1]
    /\ running' = [running EXCEPT ![s] = 0]
    /\ UNCHANGED <<managerVars, lock, call, state, onTerminate, timeout, timer, fired, closes>>

\* RefreshTimeout: Reset starts the timer again even after it has fired.
RefreshTimeout(s) ==
    /\ timeout[s] /\ timer[s] /\ arms[s] < MaxArms /\ arms' = [arms EXCEPT ![s] = @ + 1]
    /\ running' = [running EXCEPT ![s] = 1]
    /\ UNCHANGED <<managerVars, lock, call, state, onTerminate, timeout, timer, fired, closes>>

\* The time has come: the timer's function starts.
Expire(s) ==
    /\ running[s] > 0
    /\ running' = [running EXCEPT ![s] = @ - 1] /\ fired' = [fired EXCEPT ![s] = @ + 1]
    /\ UNCHANGED <<managerVars, lock, call, state, onTerminate, timeout, timer, arms, closes>>

\* handleTimeout gets the lock.
HandleTimeout(s) ==
    /\ fired[s] > 0 /\ fired' = [fired EXCEPT ![s] = @ - 1]
    /\ state' = [state EXCEPT ![s] = "disconnected"]
    /\ UNCHANGED <<managerVars, lock, call, onTerminate, timeout, timer, running, arms, closes>>

-----------------------------------------------------------------------------
Step(t) == Created(t) \/ Closed(t) \/ RunCallback(t)

SmNext ==
    \/ \E t \in Thread :
          \/ Step(t) \/ CloseAll(t)
          \/ \E s \in Session : Register(t, s) \/ Terminate(t, s)
          \/ \E i \in SessionID : Remove(t, i)
    \/ \E s \in Handled : Close(s) \/ Open(s) \/ SetOnTerminate(s) \/ SetTimeout(s)
                            \/ RefreshTimeout(s) \/ Expire(s) \/ HandleTimeout(s)

SmSpec == SmInit /\ [][SmNext]_smVars

\* A call that can go on does; time passes and a started timer function gets its lock.
SmFairness ==
    /\ \A t \in Thread : WF_smVars(Step(t))
    /\ \A s \in Session : WF_smVars(Expire(s)) /\ WF_smVars(HandleTimeout(s))

-----------------------------------------------------------------------------
(* Properties                                                              *)

Registered(s) == IF sessions[IdOf[s]] = s THEN 1 ELSE 0
Reporting(s) == Cardinality({t \in Thread : At(t, "close") /\ call[t].sess = s})

\* The two indexes agree, and every registration that has ended was reported to
\* onSessionClose exactly once, whoever ended it: Remove, Terminate, CloseAll, or the
\* callback of an object registered earlier under the same Session-ID.
CloseOnce ==
    \A s \in Session :
        /\ regs[s] = Registered(s) + Reporting(s) + closes[s]
        /\ \A a \in App : byAppID[a][IdOf[s]] = s <=> a = AppOf[s] /\ sessions[IdOf[s]] = s

\* Calls of the manager return: no callback waits for a lock its caller holds.
CallsReturn == \A t \in Thread : ~At(t, "idle") ~> At(t, "idle")

\* A session with a timer running is disconnected some day, however SetTimeout and
\* RefreshTimeout race with a timer that has just fired.
Expires == \A s \in Session : running[s] > 0 ~> state[s] = "disconnected"

=============================================================================
