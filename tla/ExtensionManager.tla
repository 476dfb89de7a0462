-------------------------- MODULE ExtensionManager --------------------------
(***************************************************************************)
(* The extension manager (pkg/core/extension) driven by the admin API and  *)
(* by Server.Stop while the router runs the extensions' handlers.  Init,   *)
(* Reconfigure and Stop are the extension's own code: they run without the *)
(* manager's lock and take time.  RouteIn holds the router's read lock from *)
(* its first handler to its last, so handlers are added and removed only   *)
(* between messages.                                                       *)
(***************************************************************************)
EXTENDS Integers, Sequences, SequencesExt

CONSTANTS
    Ext,             \* extensions of the registry
    CanStop,         \* extensions that are Stoppable
    CanReconf,       \* extensions that are Reconfigurable
    Owned,           \* extensions that register their handlers under their own name
    Config,          \* configurations
    Admin,           \* admin API requests that may run at once
    Srv,             \* the goroutine that calls Server.Stop
    Worker,          \* goroutines that route messages
    MaxOps,          \* bound on the admin requests
    Quiesce,         \* whether Server.Stop comes after the last admin request
    None

ASSUME ExtAssumption    == CanStop \cup CanReconf \cup Owned \subseteq Ext
ASSUME ThreadAssumption == Srv \notin Admin /\ None \notin Ext \cup Config
ASSUME BoundAssumption  == MaxOps \in Nat /\ Quiesce \in BOOLEAN

VARIABLES
    state,           \* ManagedExtension.State
    config,          \* ManagedExtension.Config
    initOrder,       \* Manager.initOrder
    call,            \* what each caller is doing
    handlers,        \* handler sets of an extension in the router
    at,              \* the extension whose handler a worker is in: it holds the read lock
    inits, stops,    \* calls of an extension's Init that succeeded, and of its Stop
    ops, down        \* admin requests so far; Server.Stop has begun

routerVars == <<handlers, at>>
extVars    == <<state, config, initOrder>>
histVars   == <<inits, stops>>
vars       == <<extVars, routerVars, histVars, call, ops, down>>

Thread == Admin \cup {Srv}
Idle   == [pc |-> "idle", ext |-> None, cfg |-> None, again |-> FALSE, todo |-> <<>>]

Init ==
    /\ state = [e \in Ext |-> "registered"] /\ config = [e \in Ext |-> None]
    /\ initOrder = <<>> /\ call = [t \in Thread |-> Idle]
    /\ handlers = [e \in Ext |-> 0] /\ at = [w \in Worker |-> None]
    /\ inits = [e \in Ext |-> 0] /\ stops = [e \in Ext |-> 0]
    /\ ops = 0 /\ down = FALSE

At(t, pc) == call[t].pc = pc
Goto(t, pc) == call' = [call EXCEPT ![t].pc = pc]
Return(t) == call' = [call EXCEPT ![t] = Idle]
Reading == \E w \in Worker : at[w] # None

-----------------------------------------------------------------------------
(* The router's handlers                                                   *)

\* RouteIn calls its first handler, or the next one.
RunHandler(w, e) ==
    /\ handlers[e] > 0 /\ at[w] # e /\ at' = [at EXCEPT ![w] = e]
    /\ UNCHANGED <<extVars, handlers, histVars, call, ops, down>>

\* RouteIn is through and unlocks.
RouteDone(w) ==
    /\ at[w] # None /\ at' = [at EXCEPT ![w] = None]
    /\ UNCHANGED <<extVars, handlers, histVars, call, ops, down>>

\* Register...Handler, in an extension's Init.
RegisterHandlers(e) == ~Reading /\ handlers' = [handlers EXCEPT ![e] = @ + 1]

\* DeregisterAllByOwner: handlers registered under another owner stay.
DeregisterAllByOwner(e) ==
    /\ ~Reading
    /\ handlers' = IF e \in Owned THEN [handlers EXCEPT ![e] = 0] ELSE handlers

-----------------------------------------------------------------------------
(* Requests of the admin API                                               *)

Request(t) ==
    /\ At(t, "idle") /\ t \in Admin /\ ops < MaxOps /\ ops' = ops + 1
    /\ ~(down /\ Quiesce)

\* Enable: an extension that is active, or busy, is refused.
CanEnable(e) == state[e] \in {"registered", "stopped", "error"}

EnableOf(t, e, cfg) ==
    /\ CanEnable(e)
    /\ state' = [state EXCEPT ![e] = "initializing"]
    /\ call' = [call EXCEPT ![t] = [Idle EXCEPT !.pc = "init", !.ext = e, !.cfg = cfg]]

Enable(t, e, cfg) ==
    /\ Request(t) /\ EnableOf(t, e, cfg)
    /\ UNCHANGED <<config, initOrder, routerVars, histVars, down>>

\* The extension's Init, which fails before it registers a handler, or not at all.
InitOk(t) ==
    LET e == call[t].ext IN
    /\ At(t, "init") /\ Goto(t, "enabled")
    /\ RegisterHandlers(e) /\ inits' = [inits EXCEPT ![e] = @ + 1]
    /\ UNCHANGED <<extVars, at, stops, ops, down>>

InitErr(t) ==
    /\ At(t, "init") /\ Return(t) /\ state' = [state EXCEPT ![call[t].ext] = "error"]
    /\ UNCHANGED <<config, initOrder, routerVars, histVars, ops, down>>

Enabled(t) ==
    LET e == call[t].ext IN
    /\ At(t, "enabled") /\ Return(t)
    /\ state' = [state EXCEPT ![e] = "active"]
    /\ config' = [config EXCEPT ![e] = call[t].cfg]
    /\ initOrder' = Append(initOrder, e)
    /\ UNCHANGED <<routerVars, histVars, ops, down>>

MutDisableOf(t, e, cfg, again) ==
    /\ state[e] \in {"active", "stopping"} /\ e \in CanStop
    /\ state' = [state EXCEPT ![e] = "stopping"]
    /\ call' = [call EXCEPT ![t] = [Idle EXCEPT !.pc = "deregister", !.ext = e,
                                                !.cfg = cfg, !.again = again]]

\* Disable; again is set when handleRestart goes on with Enable.
DisableOf(t, e, cfg, again) ==
    /\ state[e] = "active" /\ e \in CanStop
    /\ state' = [state EXCEPT ![e] = "stopping"]
    /\ call' = [call EXCEPT ![t] = [Idle EXCEPT !.pc = "deregister", !.ext = e,
                                                !.cfg = cfg, !.again = again]]

Disable(t, e) ==
    /\ Request(t) /\ DisableOf(t, e, None, FALSE)
    /\ UNCHANGED <<config, initOrder, routerVars, histVars, down>>

\* handleRestart looks at the state and at the configuration first.
Restart(t, e) ==
    /\ Request(t)
    /\ call' = [call EXCEPT ![t] =
          [Idle EXCEPT !.ext = e, !.cfg = config[e],
                       !.pc = IF state[e] = "active" THEN "restart" ELSE "reenable"]]
    /\ UNCHANGED <<extVars, routerVars, histVars, down>>

RestartNext(t) ==
    LET c == call[t] IN
    /\ \/ At(t, "restart") /\ DisableOf(t, c.ext, c.cfg, TRUE)
       \/ At(t, "reenable") /\ EnableOf(t, c.ext, c.cfg)
       \/ /\ \/ At(t, "restart") /\ (state[c.ext] # "active" \/ c.ext \notin CanStop)
             \/ At(t, "reenable") /\ ~CanEnable(c.ext)
          /\ Return(t) /\ UNCHANGED state
    /\ UNCHANGED <<config, initOrder, routerVars, histVars, ops, down>>

MutDeregister(t) ==
    /\ At(t, "deregister") /\ Goto(t, "stop")
    /\ handlers' = [handlers EXCEPT ![call[t].ext] = 0]
    /\ UNCHANGED <<extVars, at, histVars, ops, down>>

\* Disable waits for the messages that are being routed.
Deregister(t) ==
    /\ At(t, "deregister") /\ Goto(t, "stop") /\ DeregisterAllByOwner(call[t].ext)
    /\ UNCHANGED <<extVars, at, histVars, ops, down>>

\* The extension's Stop returns, with an error or without.
StopErr(t) ==
    LET e == call[t].ext IN
    /\ At(t, "stop") /\ Return(t) /\ stops' = [stops EXCEPT ![e] = @ + 1]
    /\ state' = [state EXCEPT ![e] = "error"]
    /\ UNCHANGED <<config, initOrder, routerVars, inits, ops, down>>

StopOk(t) ==
    /\ At(t, "stop") /\ Goto(t, "disabled")
    /\ stops' = [stops EXCEPT ![call[t].ext] = @ + 1]
    /\ UNCHANGED <<extVars, routerVars, inits, ops, down>>

\* The first entry of the extension leaves initOrder.
Disabled(t) ==
    LET e == call[t].ext IN
    /\ At(t, "disabled")
    /\ IF call[t].again THEN Goto(t, "reenable") ELSE Return(t)
    /\ state' = [state EXCEPT ![e] = "stopped"] /\ initOrder' = RemoveFirst(initOrder, e)
    /\ UNCHANGED <<config, routerVars, histVars, ops, down>>

\* Reconfigure; the state is looked at before the extension's own code runs.
Reconfigure(t, e, cfg) ==
    /\ Request(t) /\ state[e] = "active" /\ e \in CanReconf
    /\ call' = [call EXCEPT ![t] = [Idle EXCEPT !.pc = "reconf", !.ext = e, !.cfg = cfg]]
    /\ UNCHANGED <<extVars, routerVars, histVars, down>>

Reconfigured(t) ==
    /\ At(t, "reconf") /\ Return(t)
    /\ config' = [config EXCEPT ![call[t].ext] = call[t].cfg] \/ UNCHANGED config
    /\ UNCHANGED <<state, initOrder, routerVars, histVars, ops, down>>

-----------------------------------------------------------------------------
(* Server.Stop                                                             *)

MutStopOrder == initOrder

StopOrder == Reverse(initOrder)

StopAll ==
    /\ ~down /\ down' = TRUE /\ (~Quiesce \/ \A t \in Admin : At(t, "idle"))
    /\ call' = [call EXCEPT ![Srv] = [Idle EXCEPT !.pc = "all", !.todo = StopOrder]]
    /\ UNCHANGED <<extVars, routerVars, histVars, ops>>

\* The next extension: one that is not active, or cannot stop, is skipped.
StopAllNext ==
    LET e == Head(call[Srv].todo) IN
    /\ At(Srv, "all")
    /\ IF call[Srv].todo = <<>> THEN Goto(Srv, "stopped")
       ELSE call' = [call EXCEPT ![Srv] = [call[Srv] EXCEPT !.todo = Tail(@), !.ext = e,
                !.pc = IF state[e] = "active" /\ e \in CanStop THEN "allstop" ELSE "all"]]
    /\ UNCHANGED <<extVars, routerVars, histVars, ops, down>>

\* Its Stop returns; the handlers stay in the router.
StopAllStop ==
    /\ At(Srv, "allstop") /\ Goto(Srv, "allset")
    /\ stops' = [stops EXCEPT ![call[Srv].ext] = @ + 1]
    /\ UNCHANGED <<extVars, routerVars, inits, ops, down>>

StopAllSet ==
    /\ At(Srv, "allset") /\ Goto(Srv, "all")
    /\ state' = [state EXCEPT ![call[Srv].ext] = "stopped"]
    /\ UNCHANGED <<config, initOrder, routerVars, histVars, ops, down>>

-----------------------------------------------------------------------------
Next ==
    \/ \E t \in Admin :
          \/ \E e \in Ext, c \in Config : Enable(t, e, c) \/ Reconfigure(t, e, c)
          \/ \E e \in Ext : Disable(t, e) \/ Restart(t, e)
          \/ InitOk(t) \/ InitErr(t) \/ Enabled(t) \/ RestartNext(t) \/ Deregister(t)
          \/ StopErr(t) \/ StopOk(t) \/ Disabled(t) \/ Reconfigured(t)
    \/ StopAll \/ StopAllNext \/ StopAllStop \/ StopAllSet
    \/ \E w \in Worker : RouteDone(w) \/ \E e \in Ext : RunHandler(w, e)

Spec == Init /\ [][Next]_vars

-----------------------------------------------------------------------------
(* Properties                                                              *)

Stopping(e) == call[Srv].ext = e /\ At(Srv, "allset")

\* Init and Stop of an extension alternate, whatever requests overlap: Stop never meets
\* an instance that is not running, Init never one that is, and the state tells which.
InitStopAlternate ==
    \A e \in Ext :
        /\ inits[e] - stops[e] \in {0, 1}
        /\ state[e] = "active" /\ ~Stopping(e) => inits[e] = stops[e] + 1
        /\ state[e] \in {"registered", "stopped", "error"} => inits[e] = stops[e]

\* manager.go:140, "Deregister router handlers first so no new messages arrive": while
\* Disable runs an extension's Stop, no message is in its handlers or can get there.
QuietStop ==
    \A t \in Admin : At(t, "stop") =>
        handlers[call[t].ext] = 0 /\ \A w \in Worker : at[w] # call[t].ext

\* manager.go:260: StopAll stops in reverse initialization order, also after failed
\* Stops have left old entries in initOrder, and in the end nothing that can be
\* stopped is active.
ReverseOrder ==
    LET last(e) == SelectLastInSeq(initOrder, LAMBDA x : x = e) IN
    \A e \in CanStop : state[e] = "active" =>
        /\ ~At(Srv, "stopped")
        /\ At(Srv, "allstop") => last(e) <= last(call[Srv].ext)

=============================================================================
