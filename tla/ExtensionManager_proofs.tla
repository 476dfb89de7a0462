---------------------- MODULE ExtensionManager_proofs -----------------------
(* Theorems about the extension manager, for any number of extensions, admin *)
(* requests and routing goroutines.                                        *)
EXTENDS ExtensionManager, TLAPS, SequenceTheorems, WellFoundedInduction

USE ExtAssumption, ThreadAssumption

\* The values the state and the callers of the manager take.
State == {"registered", "initializing", "active", "stopping", "stopped", "error"}
Busy  == {"init", "enabled", "deregister", "stop", "disabled"}
PC    == Busy \cup {"idle", "restart", "reenable", "reconf", "all", "allstop", "allset", "stopped"}
Call  == [pc : PC, ext : Ext \cup {None}, cfg : Config \cup {None}, again : BOOLEAN, todo : Seq(Ext)]

Typed ==
    /\ state \in [Ext -> State] /\ config \in [Ext -> Config \cup {None}]
    /\ initOrder \in Seq(Ext) /\ call \in [Thread -> Call]
    /\ handlers \in [Ext -> Nat] /\ at \in [Worker -> Ext \cup {None}]
    /\ inits \in [Ext -> Nat] /\ stops \in [Ext -> Nat] /\ down \in BOOLEAN

\* The extension's own code has been started, or has not.
Runs(e)  == inits[e] = stops[e] + 1
Rests(e) == inits[e] = stops[e]

\* What a request that is under way knows of its extension.
Claims ==
    \A t \in Admin :
        /\ call[t].pc # "idle" => call[t].ext \in Ext
        /\ call[t].pc = "init" => state[call[t].ext] = "initializing" /\ Rests(call[t].ext)
        /\ call[t].pc = "enabled" => state[call[t].ext] = "initializing" /\ Runs(call[t].ext)
        /\ call[t].pc \in {"deregister", "stop"} =>
              state[call[t].ext] = "stopping" /\ Runs(call[t].ext) /\ call[t].ext \in CanStop
        /\ call[t].pc = "disabled" => state[call[t].ext] = "stopping" /\ Rests(call[t].ext)

\* The states initializing and stopping are a lock: one request works on the
\* extension, and no other does.
Exclusive ==
    \A t, u \in Admin : t # u /\ call[t].pc \in Busy /\ call[u].pc \in Busy => call[t].ext # call[u].ext
Claimed ==
    \A e \in Ext : state[e] \in {"initializing", "stopping"} =>
        \E t \in Admin : call[t].pc \in Busy /\ call[t].ext = e

\* The shutdown has the extensions to itself.
Alone ==
    /\ ~down => call[Srv].pc = "idle"
    /\ down => \A t \in Admin : call[t].pc = "idle"
    /\ call[Srv].pc = "allstop" =>
          call[Srv].ext \in Ext /\ state[call[Srv].ext] = "active" /\ Runs(call[Srv].ext)
    /\ call[Srv].pc = "allset" =>
          call[Srv].ext \in Ext /\ state[call[Srv].ext] = "active" /\ Rests(call[Srv].ext)
    /\ call[Srv].pc \notin Busy

\* No request is at work on it: the state of an extension tells whether it runs.
Settled ==
    \A e \in Ext :
        /\ state[e] = "active" /\ ~Stopping(e) => Runs(e)
        /\ state[e] \in {"registered", "stopped", "error"} => Rests(e)

\* The inductive invariant.
ManagerInv == Typed /\ Claims /\ Exclusive /\ Claimed /\ Alone /\ Settled

\* A caller with nothing to do.
LEMMA IdleIsCall == Idle \in Call
  BY EmptySeq DEF Idle, Call, PC

\* All extensions are registered and nobody calls.
LEMMA ManagerInit == Init => ManagerInv
<1> SUFFICES ASSUME Init PROVE ManagerInv
  OBVIOUS
<1>1. Typed
  BY IdleIsCall, EmptySeq DEF Init, Typed, State
<1>2. \A t \in Thread : call[t].pc = "idle"
  BY DEF Init, Idle
<1>3. Claims /\ Exclusive /\ Claimed /\ Alone /\ Settled
  BY <1>2 DEF Init, Claims, Exclusive, Claimed, Alone, Settled, Busy, Rests, Thread
<1> QED  BY <1>1, <1>3 DEF ManagerInv

\* A request that owns e, or finds it free, takes it to another state.
LEMMA OwnerStep ==
    ASSUME ManagerInv, ~down, down' = down, NEW t \in Admin, NEW e \in Ext,
           Typed', \A u \in Thread \ {t} : call'[u] = call[u],
           \A x \in Ext \ {e} : state'[x] = state[x] /\ inits'[x] = inits[x] /\ stops'[x] = stops[x],
           IF call[t].pc \in Busy THEN call[t].ext = e
           ELSE state[e] \notin {"initializing", "stopping"},
           call'[t].pc # "idle" => call'[t].ext = e,
           state'[e] = "initializing" => call'[t].pc \in {"init", "enabled"},
           state'[e] = "stopping" => call'[t].pc \in {"deregister", "stop", "disabled"} /\ e \in CanStop,
           state'[e] \notin {"initializing", "stopping"} => call'[t].pc \notin Busy,
           call'[t].pc \in {"enabled", "deregister", "stop"} \/ state'[e] = "active" => Runs(e)',
           call'[t].pc \in {"init", "disabled"} \/ state'[e] \in {"registered", "stopped", "error"} => Rests(e)'
    PROVE  ManagerInv'
<1> USE DEF ManagerInv
<1>1. /\ t \in Thread /\ t # Srv /\ Srv \in Thread
      /\ call \in [Thread -> Call] /\ call' \in [Thread -> Call] /\ state'[e] \in State
  BY DEF Typed, Thread
<1>2. \A u \in Admin \ {t} : call[u].pc \in Busy => call[u].ext # e
  BY <1>1 DEF Claims, Exclusive, Busy
<1>3. Claims'
  <2> SUFFICES ASSUME NEW u \in Admin PROVE Claims!(u)'
    BY DEF Claims
  <2>1. CASE u = t
    BY <1>1, <2>1 DEF Busy, State, Runs, Rests, Call, PC
  <2>2. CASE u # t
    <3>1. call'[u] = call[u]
      BY <2>2 DEF Thread
    <3>2. Claims!(u)
      BY DEF Claims
    <3>3. call[u].pc \in Busy => call[u].ext # e
      BY <1>2, <2>2
    <3> QED  BY <3>1, <3>2, <3>3 DEF Busy, Runs, Rests
  <2> QED  BY <2>1, <2>2
<1>4. Exclusive'
  BY <1>1, <1>2 DEF Exclusive, Busy, Thread
<1>5. Claimed'
  <2> SUFFICES ASSUME NEW x \in Ext, state'[x] \in {"initializing", "stopping"}
               PROVE  \E u \in Admin : call'[u].pc \in Busy /\ call'[u].ext = x
    BY DEF Claimed
  <2>1. CASE x = e
    BY <2>1 DEF Busy
  <2>2. CASE x # e
    <3>1. PICK u \in Admin : call[u].pc \in Busy /\ call[u].ext = x
      BY <2>2 DEF Claimed
    <3>2. u # t
      BY <2>2, <3>1
    <3> QED  BY <3>1, <3>2 DEF Thread
  <2> QED  BY <2>1, <2>2
<1>6. Alone'
  BY <1>1 DEF Alone
<1>7. Settled'
  BY <1>1 DEF Settled, Stopping, At, Alone, Runs, Rests
<1> QED  BY <1>3, <1>4, <1>5, <1>6, <1>7

\* A request that works on no extension's state goes on as c.
LEMMA VisitorStep ==
    ASSUME ManagerInv, ~down, down' = down, NEW t \in Admin, NEW c \in Call,
           call' = [call EXCEPT ![t] = c], UNCHANGED <<state, inits, stops>>,
           call[t].pc \notin Busy, c.pc \notin Busy, c.pc # "idle" => c.ext \in Ext,
           config' \in [Ext -> Config \cup {None}], UNCHANGED <<initOrder, handlers, at>>
    PROVE  ManagerInv'
<1> USE DEF ManagerInv
<1>1. /\ t \in Thread /\ t # Srv /\ Srv \in Thread
      /\ call \in [Thread -> Call]
  BY DEF Typed, Thread
<1>2. Typed'
  BY <1>1 DEF Typed
<1>3. call'[t] = c /\ \A u \in Thread \ {t} : call'[u] = call[u]
  BY <1>1
<1>4. Claims'
  <2> SUFFICES ASSUME NEW u \in Admin PROVE Claims!(u)'
    BY DEF Claims
  <2>1. Claims!(u)
    BY DEF Claims
  <2> QED  BY <1>3, <2>1 DEF Busy, Runs, Rests, Thread
<1>5. Exclusive'
  BY <1>3 DEF Exclusive, Thread
<1>6. Claimed'
  <2> SUFFICES ASSUME NEW x \in Ext, state[x] \in {"initializing", "stopping"}
               PROVE  \E u \in Admin : call'[u].pc \in Busy /\ call'[u].ext = x
    BY DEF Claimed
  <2>1. PICK u \in Admin : call[u].pc \in Busy /\ call[u].ext = x
    BY DEF Claimed
  <2> QED  BY <1>3, <2>1 DEF Thread
<1>7. Alone' /\ Settled'
  BY <1>1, <1>3 DEF Alone, Settled, Stopping, At, Runs, Rests
<1> QED  BY <1>2, <1>4, <1>5, <1>6, <1>7

\* Positions in a sequence have a first and a last one.
LEMMA LeastOf ==
    ASSUME NEW I, I \subseteq Nat, I # {} PROVE \E x \in I : \A y \in I : x <= y
<1> DEFINE R == {ss \in Nat \X Nat : ss[1] < ss[2]}
<1>1. IsWellFoundedOn(R, Nat)
  BY NatLessThanWellFounded DEF OpToRel
<1>2. \E x \in I : \A y \in I : ~ (<<y, x>> \in R)
  <2> HIDE DEF R
  <2> QED  BY <1>1, WFMin
<1>3. \A x, y \in Nat : y < x => <<y, x>> \in R
  OBVIOUS
<1>4. \A x, y \in Nat : ~(y < x) => x <= y
  OBVIOUS
<1> HIDE DEF R
<1> QED  BY <1>2, <1>3, <1>4

LEMMA GreatestOf ==
    ASSUME NEW n \in Nat, NEW I, I \subseteq 1 .. n, I # {} PROVE Max(I) \in I /\ \A y \in I : y <= Max(I)
<1>1. PICK J : J = {n - i : i \in I}
  OBVIOUS
<1>2. J \subseteq Nat /\ J # {}
  <2>1. \A i \in I : n - i \in Nat
    OBVIOUS
  <2>2. PICK i : i \in I
    OBVIOUS
  <2>3. n - i \in J
    BY <1>1, <2>2
  <2> QED  BY <1>1, <2>1, <2>3
<1>3. PICK x \in J : \A y \in J : x <= y
  BY <1>2, LeastOf
<1>4. PICK i \in I : x = n - i
  BY <1>1, <1>3
<1>5. \A y \in I : i >= y
  BY <1>1, <1>3, <1>4
<1>6. Max(I) \in I /\ \A y \in I : Max(I) >= y
  BY <1>5 DEF Max
<1>7. \A x1, y1 \in Int : x1 >= y1 => y1 <= x1
  OBVIOUS
<1> QED  BY <1>6, <1>7

\* An extension is listed in a sequence of them.
In(x, q) == \E i \in 1 .. Len(q) : q[i] = x

\* Disable leaves a sequence of extensions in initOrder, with all the others in it.
LEMMA RemoveFirstKeeps ==
    ASSUME NEW S, NEW q \in Seq(S), NEW e
    PROVE  RemoveFirst(q, e) \in Seq(S) /\ \A x : x # e /\ In(x, q) => In(x, RemoveFirst(q, e))
<1>1. CASE ~ \E i \in 1 .. Len(q) : q[i] = e
  BY <1>1 DEF RemoveFirst
<1>2. CASE \E i \in 1 .. Len(q) : q[i] = e
  <2> DEFINE I == {i \in 1 .. Len(q) : q[i] = e}
  <2>1. RemoveFirst(q, e) = RemoveAt(q, Min(I)) /\ I # {}
    BY <1>2 DEF RemoveFirst, SelectInSeq
  <2>2. I \subseteq 1 .. Len(q) /\ I \subseteq Nat /\ Len(q) \in Nat
    BY LenProperties
  <2>3. \A i \in I : q[i] = e
    OBVIOUS
  <2> HIDE DEF I
  <2>4. PICK x \in I : \A y \in I : x <= y
    BY <2>1, <2>2, LeastOf
  <2>5. PICK m \in 1 .. Len(q) : m = Min(I) /\ q[m] = e
    BY <2>2, <2>3, <2>4 DEF Min
  <2>6. PICK l : l = SubSeq(q, 1, m - 1)
    OBVIOUS
  <2>7. PICK r : r = SubSeq(q, m + 1, Len(q))
    OBVIOUS
  <2>8. l \in Seq(S) /\ Len(l) = m - 1 /\ \A i \in 1 .. m - 1 : l[i] = q[i]
    BY <2>2, <2>5, <2>6, SubSeqProperties, ElementOfSeq
  <2>9. r \in Seq(S) /\ Len(r) = Len(q) - m /\ \A i \in 1 .. Len(q) - m : r[i] = q[m + i]
    <3>1. \A i \in m + 1 .. Len(q) : q[i] \in S
      BY <2>2, <2>5, ElementOfSeq
    <3>2. /\ r \in Seq(S) /\ Len(r) = IF m + 1 <= Len(q) THEN Len(q) - (m + 1) + 1 ELSE 0
          /\ \A i \in 1 .. Len(q) - (m + 1) + 1 : r[i] = q[m + 1 + i - 1]
      BY <2>2, <2>5, <2>7, <3>1, SubSeqProperties
    <3>3. Len(r) = Len(q) - m
      BY <2>2, <2>5, <3>2
    <3>4. \A i \in 1 .. Len(q) - m : m + 1 + i - 1 = m + i
      BY <2>2, <2>5
    <3>5. Len(q) - (m + 1) + 1 = Len(q) - m
      BY <2>2, <2>5
    <3> QED  BY <3>2, <3>3, <3>4, <3>5
  <2>10. PICK z : z = l \o r
    OBVIOUS
  <2>11. /\ z \in Seq(S) /\ Len(z) = Len(l) + Len(r)
         /\ \A i \in 1 .. Len(l) + Len(r) : z[i] = IF i <= Len(l) THEN l[i] ELSE r[i - Len(l)]
    <3>1. l \in Seq(S) /\ r \in Seq(S)
      BY <2>8, <2>9
    <3> QED  BY <2>10, <3>1, ConcatProperties, Zenon
  <2>12. RemoveFirst(q, e) = z
    BY <2>1, <2>5, <2>6, <2>7, <2>10 DEF RemoveAt
  <2>13. ASSUME NEW x1, x1 # e, In(x1, q) PROVE In(x1, z)
    <3>1. PICK i \in 1 .. Len(q) : q[i] = x1
      BY <2>13 DEF In
    <3>2. PICK k \in Nat : k = Len(q)
      BY <2>2
    <3>3. m \in 1 .. k /\ i \in 1 .. k /\ Len(l) = m - 1 /\ Len(z) = k - 1 /\ Len(l) + Len(r) = k - 1
      BY <2>5, <2>8, <2>9, <2>11, <3>1, <3>2
    <3>4. \A j \in 1 .. k - 1 : z[j] = IF j <= m - 1 THEN l[j] ELSE r[j - (m - 1)]
      BY <2>11, <3>3
    <3>5. CASE i < m
      <4>1. i \in 1 .. k - 1 /\ i <= m - 1 /\ i \in 1 .. m - 1
        BY <3>2, <3>3, <3>5
      <4>2. z[i] = l[i] /\ l[i] = x1
        BY <2>8, <3>1, <3>4, <4>1
      <4> QED  BY <3>3, <4>1, <4>2 DEF In
    <3>6. CASE i > m
      <4>1. /\ i - 1 \in 1 .. k - 1 /\ ~(i - 1 <= m - 1) /\ i - 1 - (m - 1) = i - m
            /\ i - m \in 1 .. k - m /\ m + (i - m) = i
        BY <3>2, <3>3, <3>6
      <4>2. z[i - 1] = r[i - m] /\ r[i - m] = x1
        BY <2>9, <3>1, <3>2, <3>4, <4>1
      <4> QED  BY <3>3, <4>1, <4>2 DEF In
    <3>7. i # m
      BY <2>5, <2>13, <3>1
    <3> QED  BY <3>2, <3>3, <3>5, <3>6, <3>7
  <2> QED  BY <2>11, <2>12, <2>13
<1> QED  BY <1>1, <1>2

\* The order StopAll takes is one, too.
LEMMA ReverseTyped ==
    ASSUME NEW S, NEW q \in Seq(S) PROVE Reverse(q) \in Seq(S)
  BY LenProperties, IsASeq DEF Reverse

-----------------------------------------------------------------------------
(* The requests                                                            *)

\* Enable takes an extension that is at rest.
LEMMA EnableInv ==
    ASSUME ManagerInv, ~down, down' = down, NEW t \in Admin, NEW e \in Ext,
           NEW cfg \in Config \cup {None}, call[t].pc \notin Busy, EnableOf(t, e, cfg),
           UNCHANGED <<config, initOrder, routerVars, histVars>>
    PROVE  ManagerInv'
<1>1. Typed /\ t \in Thread
  BY DEF ManagerInv, Thread
<1>2. [Idle EXCEPT !.pc = "init", !.ext = e, !.cfg = cfg] \in Call
  BY IdleIsCall DEF Call, PC, Busy
<1>3. Typed' /\ state'[e] = "initializing" /\ call'[t].pc = "init" /\ call'[t].ext = e
  BY <1>1, <1>2 DEF EnableOf, Typed, State, Idle, histVars, routerVars
<1>4. /\ \A u \in Thread \ {t} : call'[u] = call[u]
      /\ \A x \in Ext \ {e} : state'[x] = state[x] /\ inits'[x] = inits[x] /\ stops'[x] = stops[x]
  BY <1>1 DEF EnableOf, Typed, histVars
<1>5. Rests(e)' /\ state[e] \notin {"initializing", "stopping"}
  BY DEF EnableOf, CanEnable, ManagerInv, Settled, Rests, histVars
<1> QED  BY <1>3, <1>4, <1>5, OwnerStep

\* Disable takes one that runs.
LEMMA DisableInv ==
    ASSUME ManagerInv, ~down, down' = down, NEW t \in Admin, NEW e \in Ext,
           NEW cfg \in Config \cup {None}, NEW again \in BOOLEAN, call[t].pc \notin Busy,
           DisableOf(t, e, cfg, again), UNCHANGED <<config, initOrder, routerVars, histVars>>
    PROVE  ManagerInv'
<1>1. Typed /\ t \in Thread
  BY DEF ManagerInv, Thread
<1>2. [Idle EXCEPT !.pc = "deregister", !.ext = e, !.cfg = cfg, !.again = again] \in Call
  BY IdleIsCall DEF Call, PC, Busy
<1>3. Typed' /\ state'[e] = "stopping" /\ call'[t].pc = "deregister" /\ call'[t].ext = e
  BY <1>1, <1>2 DEF DisableOf, Typed, State, Idle, histVars, routerVars
<1>4. /\ \A u \in Thread \ {t} : call'[u] = call[u]
      /\ \A x \in Ext \ {e} : state'[x] = state[x] /\ inits'[x] = inits[x] /\ stops'[x] = stops[x]
  BY <1>1 DEF DisableOf, Typed, histVars
<1>5. state[e] = "active" /\ e \in CanStop /\ Runs(e)'
  BY DEF DisableOf, ManagerInv, Settled, Stopping, At, Alone, Runs, histVars
<1> QED  BY <1>3, <1>4, <1>5, OwnerStep

\* The steps of a request on its own extension.
LEMMA RequestInv ==
    ASSUME ManagerInv, NEW t \in Admin,
           \/ InitOk(t) \/ InitErr(t) \/ Enabled(t) \/ Deregister(t)
           \/ StopErr(t) \/ StopOk(t) \/ Disabled(t)
    PROVE  ManagerInv'
<1>1. call[t].pc \in Busy /\ call[t].pc # "idle"
  BY DEF InitOk, InitErr, Enabled, Deregister, StopErr, StopOk, Disabled, At, Busy
<1>2. PICK e \in Ext : e = call[t].ext
  BY <1>1 DEF ManagerInv, Claims
<1>3. Typed /\ t \in Thread /\ ~down
  BY <1>1 DEF ManagerInv, Alone, Thread
<1>4. /\ call[t].pc = "init" => state[e] = "initializing" /\ Rests(e)
      /\ call[t].pc = "enabled" => state[e] = "initializing" /\ Runs(e)
      /\ call[t].pc \in {"deregister", "stop"} => state[e] = "stopping" /\ Runs(e) /\ e \in CanStop
      /\ call[t].pc = "disabled" => state[e] = "stopping" /\ Rests(e)
  BY <1>2 DEF ManagerInv, Claims
<1>5. \A pc \in PC : LET c == [call[t] EXCEPT !.pc = pc] IN c \in Call /\ c.pc = pc /\ c.ext = e
  <2> SUFFICES ASSUME NEW pc \in PC
               PROVE  LET c == [call[t] EXCEPT !.pc = pc] IN c \in Call /\ c.pc = pc /\ c.ext = e
    OBVIOUS
  <2>1. call[t] \in Call
    BY <1>3 DEF Typed
  <2> QED  BY <1>2, <2>1 DEF Call
<1>6. Idle \in Call /\ Idle.pc = "idle" /\ "idle" \notin Busy
  BY IdleIsCall DEF Idle, Busy
<1> DEFINE Frame == /\ \A u \in Thread \ {t} : call'[u] = call[u]
                    /\ \A x \in Ext \ {e} :
                         state'[x] = state[x] /\ inits'[x] = inits[x] /\ stops'[x] = stops[x]
<1>7. CASE InitOk(t)
  <2>1. Typed'
    BY <1>2, <1>3, <1>5, <1>6, <1>7
       DEF InitOk, At, Goto, RegisterHandlers, extVars, Typed, State, PC, Busy
  <2>2. call'[t].pc = "enabled" /\ call'[t].ext = e /\ state'[e] = "initializing" /\ Runs(e)' /\ down' = down
    BY <1>2, <1>3, <1>4, <1>5, <1>6, <1>7
       DEF InitOk, At, Goto, RegisterHandlers, extVars, Typed, PC, Busy, Runs, Rests
  <2>3. Frame
    BY <1>2, <1>3, <1>7 DEF InitOk, At, Goto, RegisterHandlers, extVars, Typed
  <2> QED  BY <1>1, <1>2, <1>3, <2>1, <2>2, <2>3, OwnerStep DEF Busy
<1>8. CASE InitErr(t)
  <2>1. Typed'
    BY <1>2, <1>3, <1>5, <1>6, <1>8
       DEF InitErr, At, Return, routerVars, histVars, Typed, State, PC, Busy
  <2>2. call'[t].pc = "idle" /\ state'[e] = "error" /\ Rests(e)' /\ down' = down
    BY <1>2, <1>3, <1>4, <1>5, <1>6, <1>8
       DEF InitErr, At, Return, routerVars, histVars, Typed, PC, Busy, Runs, Rests
  <2>3. Frame
    BY <1>2, <1>3, <1>8 DEF InitErr, At, Return, routerVars, histVars, Typed
  <2> QED  BY <1>1, <1>2, <1>3, <1>6, <2>1, <2>2, <2>3, OwnerStep
<1>9. CASE Enabled(t)
  <2>1. Typed'
    <3>1. Append(initOrder, e) \in Seq(Ext) /\ call[t].cfg \in Config \cup {None}
      BY <1>3, AppendProperties DEF Typed, Call
    <3> QED  BY <1>2, <1>3, <1>6, <1>9, <3>1 DEF Enabled, Return, routerVars, histVars, Typed, State
  <2>2. call'[t].pc = "idle" /\ state'[e] = "active" /\ Runs(e)' /\ down' = down
    BY <1>2, <1>3, <1>4, <1>5, <1>6, <1>9
       DEF Enabled, At, Return, routerVars, histVars, Typed, PC, Busy, Runs, Rests
  <2>3. Frame
    BY <1>2, <1>3, <1>9 DEF Enabled, At, Return, routerVars, histVars, Typed
  <2> QED  BY <1>1, <1>2, <1>3, <1>6, <2>1, <2>2, <2>3, OwnerStep
<1>10. CASE Deregister(t)
  <2>1. Typed'
    BY <1>2, <1>3, <1>5, <1>6, <1>10
       DEF Deregister, At, Goto, DeregisterAllByOwner, extVars, histVars, Typed, State, PC, Busy
  <2>2. call'[t].pc = "stop" /\ call'[t].ext = e /\ state'[e] = "stopping" /\ Runs(e)' /\ e \in CanStop /\ down' = down
    BY <1>2, <1>3, <1>4, <1>5, <1>6, <1>10
       DEF Deregister, At, Goto, DeregisterAllByOwner, extVars, histVars, Typed, PC, Busy, Runs, Rests
  <2>3. Frame
    BY <1>2, <1>3, <1>10 DEF Deregister, At, Goto, DeregisterAllByOwner, extVars, histVars, Typed
  <2> QED  BY <1>1, <1>2, <1>3, <2>1, <2>2, <2>3, OwnerStep DEF Busy
<1>11. CASE StopErr(t)
  <2>1. Typed'
    BY <1>2, <1>3, <1>5, <1>6, <1>11
       DEF StopErr, At, Return, routerVars, Typed, State, PC, Busy
  <2>2. call'[t].pc = "idle" /\ state'[e] = "error" /\ Rests(e)' /\ down' = down
    BY <1>2, <1>3, <1>4, <1>5, <1>6, <1>11
       DEF StopErr, At, Return, routerVars, Typed, PC, Busy, Runs, Rests
  <2>3. Frame
    BY <1>2, <1>3, <1>11 DEF StopErr, At, Return, routerVars, Typed
  <2> QED  BY <1>1, <1>2, <1>3, <1>6, <2>1, <2>2, <2>3, OwnerStep
<1>12. CASE StopOk(t)
  <2>1. Typed'
    BY <1>2, <1>3, <1>5, <1>6, <1>12
       DEF StopOk, At, Goto, extVars, routerVars, Typed, State, PC, Busy
  <2>2. call'[t].pc = "disabled" /\ call'[t].ext = e /\ state'[e] = "stopping" /\ Rests(e)' /\ e \in CanStop /\ down' = down
    BY <1>2, <1>3, <1>4, <1>5, <1>6, <1>12
       DEF StopOk, At, Goto, extVars, routerVars, Typed, PC, Busy, Runs, Rests
  <2>3. Frame
    BY <1>2, <1>3, <1>12 DEF StopOk, At, Goto, extVars, routerVars, Typed
  <2> QED  BY <1>1, <1>2, <1>3, <2>1, <2>2, <2>3, OwnerStep DEF Busy
<1>13. CASE Disabled(t)
  <2>1. PICK c \in Call : /\ call' = [call EXCEPT ![t] = c]
                          /\ c.pc \in {"idle", "reenable"} /\ (c.pc # "idle" => c.ext = e)
    <3>1. CASE call[t].again
      <4>1. call' = [call EXCEPT ![t].pc = "reenable"] /\ "reenable" \in PC
        BY <1>13, <3>1 DEF Disabled, Goto, PC
      <4> QED  BY <1>3, <1>5, <4>1 DEF Typed
    <3>2. CASE ~call[t].again
      <4>1. call' = [call EXCEPT ![t] = Idle]
        BY <1>13, <3>2 DEF Disabled, Return
      <4> QED  BY <1>6, <4>1
    <3> QED  BY <3>1, <3>2
  <2>2. RemoveFirst(initOrder, e) \in Seq(Ext)
    BY <1>3, RemoveFirstKeeps DEF Typed
  <2>3. Typed'
    BY <1>2, <1>3, <1>13, <2>1, <2>2 DEF Disabled, routerVars, histVars, Typed, State
  <2>4. state'[e] = "stopped" /\ Rests(e)' /\ down' = down
    BY <1>2, <1>3, <1>4, <1>13 DEF Disabled, At, histVars, Typed, Rests
  <2>5. Frame /\ call'[t] = c
    BY <1>2, <1>3, <1>13, <2>1 DEF Disabled, histVars, Typed
  <2> QED  BY <1>1, <1>2, <1>3, <2>1, <2>3, <2>4, <2>5, OwnerStep DEF Busy
<1> QED  BY <1>7, <1>8, <1>9, <1>10, <1>11, <1>12, <1>13

\* The requests that look at an extension first, and what they go on with.
LEMMA VisitInv ==
    ASSUME ManagerInv, Quiesce, NEW t \in Admin,
           \/ \E e \in Ext : \/ Disable(t, e) \/ Restart(t, e)
                             \/ \E c \in Config : Enable(t, e, c) \/ Reconfigure(t, e, c)
           \/ RestartNext(t) \/ Reconfigured(t)
    PROVE  ManagerInv'
<1>1. Typed /\ t \in Thread /\ call[t] \in Call /\ Idle \in Call /\ Idle.pc = "idle"
  BY IdleIsCall DEF ManagerInv, Typed, Thread, Idle
<1>2. ASSUME Request(t) PROVE ~down /\ call[t].pc \notin Busy
  BY <1>2 DEF Request, At, Busy
<1>3. ASSUME NEW e \in Ext, Disable(t, e) PROVE ManagerInv'
  BY <1>2, <1>3, DisableInv DEF Disable
<1>4. ASSUME NEW e \in Ext, NEW c \in Config, Enable(t, e, c) PROVE ManagerInv'
  BY <1>2, <1>4, EnableInv DEF Enable
<1>5. ASSUME NEW e \in Ext, NEW c \in Config, Reconfigure(t, e, c) PROVE ManagerInv'
  <2> DEFINE d == [Idle EXCEPT !.pc = "reconf", !.ext = e, !.cfg = c]
  <2>1. d \in Call /\ d.pc = "reconf" /\ d.ext = e
    BY <1>1 DEF Idle, Call, PC
  <2>2. call' = [call EXCEPT ![t] = d] /\ UNCHANGED <<extVars, routerVars, histVars, down>> /\ Request(t)
    BY <1>5 DEF Reconfigure
  <2> HIDE DEF d
  <2> QED  BY <1>1, <1>2, <2>1, <2>2, VisitorStep DEF Busy, extVars, routerVars, histVars, Typed
<1>6. ASSUME NEW e \in Ext, Restart(t, e) PROVE ManagerInv'
  <2> DEFINE d == [Idle EXCEPT !.ext = e, !.cfg = config[e],
                               !.pc = IF state[e] = "active" THEN "restart" ELSE "reenable"]
  <2>1. d \in Call /\ d.pc \in {"restart", "reenable"} /\ d.ext = e
    BY <1>1 DEF Idle, Call, PC, Typed
  <2>2. call' = [call EXCEPT ![t] = d] /\ UNCHANGED <<extVars, routerVars, histVars, down>> /\ Request(t)
    BY <1>6 DEF Restart
  <2> HIDE DEF d
  <2>3. PICK c \in Call : c = d
    BY <2>1
  <2> QED  BY <1>1, <1>2, <2>1, <2>2, <2>3, VisitorStep DEF Busy, extVars, routerVars, histVars, Typed
<1>7. CASE RestartNext(t) \/ Reconfigured(t)
  <2>1. call[t].pc \in {"restart", "reenable", "reconf"}
    BY <1>7 DEF RestartNext, Reconfigured, At
  <2>2. PICK e \in Ext, cfg \in Config \cup {None} : e = call[t].ext /\ cfg = call[t].cfg
    BY <1>1, <2>1 DEF ManagerInv, Claims, Call
  <2>3. ~down /\ call[t].pc \notin Busy
    BY <2>1 DEF ManagerInv, Alone, Busy
  <2>4. down' = down /\ UNCHANGED <<initOrder, handlers, at, inits, stops>>
    BY <1>7 DEF RestartNext, Reconfigured, routerVars, histVars
  <2>5. CASE DisableOf(t, e, cfg, TRUE) /\ UNCHANGED config
    BY <2>3, <2>4, <2>5, DisableInv DEF routerVars, histVars
  <2>6. CASE EnableOf(t, e, cfg) /\ UNCHANGED config
    BY <2>3, <2>4, <2>6, EnableInv DEF routerVars, histVars
  <2>7. CASE Return(t) /\ UNCHANGED state /\ config' \in [Ext -> Config \cup {None}]
    BY <1>1, <2>3, <2>4, <2>7, VisitorStep DEF Return, Busy
  <2>8. \/ DisableOf(t, e, cfg, TRUE) /\ UNCHANGED config
        \/ EnableOf(t, e, cfg) /\ UNCHANGED config
        \/ Return(t) /\ UNCHANGED state /\ config' \in [Ext -> Config \cup {None}]
    BY <1>1, <1>7, <2>2 DEF RestartNext, Reconfigured, Typed
  <2> QED  BY <2>5, <2>6, <2>7, <2>8
<1> QED  BY <1>3, <1>4, <1>5, <1>6, <1>7

\* Server.Stop, once no request is under way.
LEMMA StopAllInv ==
    ASSUME ManagerInv, Quiesce, StopAll \/ StopAllNext \/ StopAllStop \/ StopAllSet
    PROVE  ManagerInv'
<1>1. /\ Typed /\ Srv \in Thread /\ call[Srv] \in Call /\ Idle \in Call /\ Idle.pc = "idle"
      /\ \A t \in Admin : t \in Thread /\ t # Srv
  BY IdleIsCall DEF ManagerInv, Typed, Thread, Idle
<1>2. \A t \in Admin : call[t].pc = "idle"
  BY DEF ManagerInv, Alone, StopAll, StopAllNext, StopAllStop, StopAllSet, At
<1>3. down' = TRUE
  BY <1>1 DEF ManagerInv, Typed, Alone, StopAll, StopAllNext, StopAllStop, StopAllSet, At
<1>4. PICK c \in Call : call' = [call EXCEPT ![Srv] = c]
  <2>1. ASSUME NEW pc \in PC PROVE [call[Srv] EXCEPT !.pc = pc] \in Call
    BY <1>1, <2>1 DEF Call
  <2>2. CASE StopAll
    BY <1>1, <2>2, ReverseTyped DEF StopAll, StopOrder, Call, PC, Typed
  <2>3. CASE StopAllNext
    <3>1. CASE call[Srv].todo = <<>>
      BY <1>1, <2>1, <2>3, <3>1 DEF StopAllNext, Goto, PC, Typed
    <3>2. CASE call[Srv].todo # <<>>
      <4> DEFINE e == Head(call[Srv].todo)
                 d == [call[Srv] EXCEPT !.todo = Tail(@), !.ext = e,
                         !.pc = IF state[e] = "active" /\ e \in CanStop THEN "allstop" ELSE "all"]
      <4>1. e \in Ext /\ Tail(call[Srv].todo) \in Seq(Ext)
        BY <1>1, <3>2, HeadTailProperties DEF Call
      <4>2. d \in Call
        BY <1>1, <4>1 DEF Call, PC
      <4>3. call' = [call EXCEPT ![Srv] = d]
        BY <1>1, <2>3, <3>2 DEF StopAllNext, Typed
      <4> QED  BY <4>2, <4>3
    <3> QED  BY <3>1, <3>2
  <2>4. CASE StopAllStop
    BY <1>1, <2>1, <2>4 DEF StopAllStop, Goto, PC, Typed
  <2>5. CASE StopAllSet
    BY <1>1, <2>1, <2>5 DEF StopAllSet, Goto, PC, Typed
  <2> QED  BY <2>2, <2>3, <2>4, <2>5
<1>5. /\ call'[Srv] = c /\ \A t \in Admin : call'[t] = call[t]
      /\ call' \in [Thread -> Call] /\ \A t \in Admin : call'[t].pc = "idle"
  BY <1>1, <1>2, <1>4 DEF Typed
<1>6. \A e \in Ext : state[e] \notin {"initializing", "stopping"}
  BY <1>2 DEF ManagerInv, Claimed, Busy
<1>7. call[Srv].pc \in {"allstop", "allset"} => call[Srv].ext \in Ext
  BY DEF ManagerInv, Alone
<1>8. /\ Typed'
      /\ \A e \in Ext : state'[e] = IF StopAllSet /\ e = call[Srv].ext THEN "stopped" ELSE state[e]
      /\ \A e \in Ext : stops'[e] = IF StopAllStop /\ e = call[Srv].ext THEN stops[e] + 1 ELSE stops[e]
      /\ inits' = inits
  <2>1. CASE StopAll \/ StopAllNext
    BY <1>1, <1>3, <1>5, <2>1
       DEF StopAll, StopAllNext, StopAllStop, StopAllSet, At, Typed, extVars, routerVars, histVars
  <2>2. CASE StopAllStop
    BY <1>1, <1>3, <1>5, <1>7, <2>2 DEF StopAllStop, StopAllSet, At, Typed, extVars, routerVars
  <2>3. CASE StopAllSet
    BY <1>1, <1>3, <1>5, <1>7, <2>3 DEF StopAllSet, StopAllStop, At, Typed, State, routerVars, histVars
  <2> QED  BY <2>1, <2>2, <2>3
<1>9. Claims' /\ Exclusive' /\ Claimed'
  BY <1>5, <1>6, <1>8 DEF Claims, Exclusive, Claimed, Busy
<1>10. Settled /\ Alone
  BY DEF ManagerInv
<1>11. CASE StopAll
  <2>1. c.pc = "all" /\ call[Srv].pc = "idle"
    BY <1>1, <1>5, <1>10, <1>11 DEF StopAll, Alone, Typed, Call
  <2>2. UNCHANGED <<state, inits, stops>>
    BY <1>11 DEF StopAll, extVars, histVars
  <2>3. Alone'
    BY <1>3, <1>5, <2>1 DEF Alone, Busy
  <2>4. Settled'
    BY <1>5, <1>10, <2>1, <2>2 DEF Settled, Stopping, At, Runs, Rests
  <2> QED  BY <1>8, <1>9, <2>3, <2>4 DEF ManagerInv
<1>12. CASE StopAllNext
  <2>1. /\ call[Srv].pc = "all" /\ c.pc \in {"stopped", "all", "allstop"}
        /\ c.pc = "allstop" => c.ext \in Ext /\ state[c.ext] = "active"
    <3>1. CASE call[Srv].todo = <<>>
      BY <1>1, <1>5, <1>12, <3>1 DEF StopAllNext, At, Goto, Typed, Call
    <3>2. CASE call[Srv].todo # <<>>
      <4> DEFINE e == Head(call[Srv].todo)
                 d == [call[Srv] EXCEPT !.todo = Tail(@), !.ext = e,
                         !.pc = IF state[e] = "active" /\ e \in CanStop THEN "allstop" ELSE "all"]
      <4>1. e \in Ext
        BY <1>1, <3>2, HeadTailProperties DEF Call
      <4>2. c = d /\ call[Srv].pc = "all"
        BY <1>1, <1>5, <1>12, <3>2 DEF StopAllNext, At, Typed
      <4>3. d.ext = e /\ d.pc = IF state[e] = "active" /\ e \in CanStop THEN "allstop" ELSE "all"
        BY <1>1 DEF Call
      <4> HIDE DEF d, e
      <4> QED  BY <4>1, <4>2, <4>3
    <3> QED  BY <3>1, <3>2
  <2>2. UNCHANGED <<state, inits, stops>>
    BY <1>12 DEF StopAllNext, extVars, histVars
  <2>3. c.pc = "allstop" => Runs(c.ext)
    BY <1>10, <2>1 DEF Settled, Stopping, At
  <2>4. Alone'
    BY <1>3, <1>5, <2>1, <2>2, <2>3 DEF Alone, Busy, Runs
  <2>5. Settled'
    BY <1>5, <1>10, <2>1, <2>2 DEF Settled, Stopping, At, Runs, Rests
  <2> QED  BY <1>8, <1>9, <2>4, <2>5 DEF ManagerInv
<1>13. CASE StopAllStop
  <2>1. call[Srv].pc = "allstop" /\ c.pc = "allset" /\ c.ext = call[Srv].ext
    BY <1>1, <1>5, <1>13 DEF StopAllStop, At, Goto, Typed, Call
  <2>2. PICK e \in Ext : e = call[Srv].ext /\ state[e] = "active" /\ Runs(e)
    BY <1>10, <2>1 DEF Alone
  <2>3. state' = state /\ Rests(e)'
    BY <1>1, <1>8, <1>13, <2>2 DEF StopAllStop, extVars, Runs, Rests, Typed
  <2>4. Alone'
    BY <1>3, <1>5, <2>1, <2>2, <2>3 DEF Alone, Busy, Rests
  <2>5. Settled'
    BY <1>5, <1>8, <1>10, <2>1, <2>2, <2>3 DEF Settled, Stopping, At, Runs, Rests
  <2> QED  BY <1>8, <1>9, <2>4, <2>5 DEF ManagerInv
<1>14. CASE StopAllSet
  <2>1. call[Srv].pc = "allset" /\ c.pc = "all" /\ c.ext = call[Srv].ext
    BY <1>1, <1>5, <1>14 DEF StopAllSet, At, Goto, Typed, Call
  <2>2. PICK e \in Ext : e = call[Srv].ext /\ Rests(e)
    BY <1>10, <2>1 DEF Alone
  <2>3. stops' = stops /\ inits' = inits /\ state'[e] = "stopped"
    BY <1>8, <1>14, <2>2 DEF StopAllSet, histVars
  <2>4. Alone'
    BY <1>3, <1>5, <2>1 DEF Alone, Busy
  <2>5. Settled'
    BY <1>5, <1>8, <1>10, <2>1, <2>2, <2>3 DEF Settled, Stopping, At, Runs, Rests
  <2> QED  BY <1>8, <1>9, <2>4, <2>5 DEF ManagerInv
<1> QED  BY <1>11, <1>12, <1>13, <1>14

\* What happens in the router, and steps that change nothing.
LEMMA RouteInv ==
    ASSUME ManagerInv, UNCHANGED <<extVars, handlers, histVars, call, down>>,
           at' \in [Worker -> Ext \cup {None}]
    PROVE  ManagerInv'
  BY DEF ManagerInv, Typed, Claims, Exclusive, Claimed, Alone, Settled, Stopping, At, Runs, Rests,
         extVars, histVars

\* Every step keeps the invariant when Server.Stop comes after the last admin request.
LEMMA ManagerStep ==
    ASSUME Quiesce, ManagerInv, [Next]_vars PROVE ManagerInv'
<1>1. CASE UNCHANGED vars
  BY <1>1, RouteInv DEF ManagerInv, Typed, vars, routerVars
<1>2. ASSUME NEW w \in Worker, RouteDone(w) \/ \E e \in Ext : RunHandler(w, e) PROVE ManagerInv'
  <2>1. at' \in [Worker -> Ext \cup {None}]
    BY <1>2 DEF RouteDone, RunHandler, ManagerInv, Typed
  <2> QED  BY <1>2, <2>1, RouteInv DEF RouteDone, RunHandler
<1>3. CASE StopAll \/ StopAllNext \/ StopAllStop \/ StopAllSet
  BY <1>3, StopAllInv
<1>4. ASSUME NEW t \in Admin,
             \/ \E e \in Ext, c \in Config : Enable(t, e, c) \/ Reconfigure(t, e, c)
             \/ \E e \in Ext : Disable(t, e) \/ Restart(t, e)
             \/ InitOk(t) \/ InitErr(t) \/ Enabled(t) \/ RestartNext(t) \/ Deregister(t)
             \/ StopErr(t) \/ StopOk(t) \/ Disabled(t) \/ Reconfigured(t)
      PROVE  ManagerInv'
  BY <1>4, RequestInv, VisitInv
<1> QED  BY <1>1, <1>2, <1>3, <1>4 DEF Next

\* The states initializing and stopping work as a per-extension lock around Init and
\* Stop (manager.go Enable, Disable), as long as no admin request overlaps Server.Stop.
THEOREM ManagerSafe == ASSUME Quiesce PROVE Spec => []ManagerInv
  BY ManagerInit, ManagerStep, PTL DEF Spec

\* However admin requests overlap, Init and Stop of an extension alternate, and its state
\* tells whether it runs (manager.go Enable, Disable, StopAll).
THEOREM ManagerAlternates == ASSUME Quiesce PROVE Spec => []InitStopAlternate
<1>1. ManagerInv => InitStopAlternate
  <2> SUFFICES ASSUME ManagerInv, NEW e \in Ext PROVE InitStopAlternate!(e)
    BY DEF InitStopAlternate
  <2>1. inits[e] \in Nat /\ stops[e] \in Nat /\ state[e] \in State
    BY DEF ManagerInv, Typed
  <2>2. Runs(e) \/ Rests(e)
    <3>1. CASE state[e] \in {"initializing", "stopping"}
      BY <3>1 DEF ManagerInv, Claimed, Claims, Busy
    <3>2. CASE state[e] \notin {"initializing", "stopping"}
      BY <2>1, <3>2 DEF ManagerInv, Settled, Stopping, Alone, At, State
    <3> QED  BY <3>1, <3>2
  <2> QED  BY <2>1, <2>2 DEF ManagerInv, Settled, Runs, Rests
<1> QED  BY <1>1, ManagerSafe, PTL

\* Only Disable moves on to the extension's Stop, and only Init and Disable touch handlers.
LEMMA OneCaller ==
    ASSUME Typed, NEW u \in Admin,
           \/ \E e \in Ext, c \in Config : Enable(u, e, c) \/ Reconfigure(u, e, c)
           \/ \E e \in Ext : Disable(u, e) \/ Restart(u, e)
           \/ InitOk(u) \/ InitErr(u) \/ Enabled(u) \/ RestartNext(u) \/ Deregister(u)
           \/ StopErr(u) \/ StopOk(u) \/ Disabled(u) \/ Reconfigured(u)
    PROVE  /\ \A t \in Thread \ {u} : call'[t] = call[t]
           /\ call'[u].pc = "stop" => Deregister(u)
           /\ at' = at
           /\ \/ handlers' = handlers
              \/ /\ call[u].pc \in {"init", "deregister"}
                 /\ \A x \in Ext : x # call[u].ext => handlers'[x] = handlers[x]
<1>1. u \in Thread /\ call \in [Thread -> Call] /\ call[u] \in Call /\ handlers \in [Ext -> Nat]
  BY DEF Typed, Thread
<1>2. Idle \in Call /\ Idle.pc = "idle"
  BY IdleIsCall DEF Idle
<1>3. ASSUME NEW pc \in PC, Goto(u, pc)
      PROVE  (\A t \in Thread \ {u} : call'[t] = call[t]) /\ call'[u].pc = pc
  BY <1>1, <1>3 DEF Goto, Call
<1>4. ASSUME Return(u)
      PROVE  (\A t \in Thread \ {u} : call'[t] = call[t]) /\ call'[u].pc = "idle"
  BY <1>1, <1>2, <1>4 DEF Return
<1>5. ASSUME NEW e, NEW c, EnableOf(u, e, c)
      PROVE  (\A t \in Thread \ {u} : call'[t] = call[t]) /\ call'[u].pc = "init"
  BY <1>1, <1>5 DEF EnableOf, Idle
<1>6. ASSUME NEW e, NEW c, NEW again, DisableOf(u, e, c, again)
      PROVE  (\A t \in Thread \ {u} : call'[t] = call[t]) /\ call'[u].pc = "deregister"
  BY <1>1, <1>6 DEF DisableOf, Idle
<1>7. CASE \E e \in Ext, c \in Config : Enable(u, e, c)
  BY <1>5, <1>7 DEF Enable, routerVars
<1>8. CASE \E e \in Ext, c \in Config : Reconfigure(u, e, c)
  BY <1>1, <1>8 DEF Reconfigure, Idle, routerVars
<1>9. CASE \E e \in Ext : Disable(u, e)
  BY <1>6, <1>9 DEF Disable, routerVars
<1>10. CASE \E e \in Ext : Restart(u, e)
  BY <1>1, <1>10 DEF Restart, Idle, routerVars
<1>11. CASE InitOk(u)
  BY <1>1, <1>3, <1>11 DEF InitOk, At, RegisterHandlers, PC, Busy
<1>12. CASE InitErr(u) \/ Enabled(u) \/ StopErr(u) \/ Reconfigured(u)
  BY <1>4, <1>12 DEF InitErr, Enabled, StopErr, Reconfigured, routerVars
<1>13. CASE RestartNext(u)
  BY <1>4, <1>5, <1>6, <1>13 DEF RestartNext, routerVars
<1>14. CASE Deregister(u)
  BY <1>1, <1>3, <1>14 DEF Deregister, At, DeregisterAllByOwner, PC, Busy
<1>15. CASE StopOk(u)
  BY <1>3, <1>15 DEF StopOk, routerVars, PC, Busy
<1>16. CASE Disabled(u)
  BY <1>3, <1>4, <1>16 DEF Disabled, routerVars, PC
<1> QED  BY <1>7, <1>8, <1>9, <1>10, <1>11, <1>12, <1>13, <1>14, <1>15, <1>16

\* An extension whose Stop runs stays out of the router's hands: only Disable itself
\* gets there, when no message is being routed, and no other request touches the
\* extension's handlers in the meantime.
LEMMA QuietStep ==
    ASSUME Quiesce, CanStop \subseteq Owned, ManagerInv, QuietStop, [Next]_vars
    PROVE  QuietStop'
<1> SUFFICES ASSUME NEW t \in Admin, call'[t].pc = "stop"
             PROVE  handlers'[call'[t].ext] = 0 /\ \A w \in Worker : at'[w] # call'[t].ext
  BY DEF QuietStop, At
<1>1. Typed /\ Claims /\ Exclusive /\ Alone /\ t \in Thread /\ t # Srv
  BY DEF ManagerInv, Thread
<1>2. CASE Deregister(t)
  <2>1. call'[t].ext = call[t].ext /\ call[t].ext \in Ext /\ call[t].ext \in Owned
    BY <1>1, <1>2 DEF Deregister, At, Goto, Typed, Claims, Call
  <2>2. handlers'[call[t].ext] = 0 /\ \A w \in Worker : at'[w] = None
    BY <1>1, <1>2, <2>1 DEF Deregister, DeregisterAllByOwner, Reading, Typed
  <2> QED  BY <2>1, <2>2
<1>3. ASSUME NEW e \in Ext, call'[t] = call[t], call[t].ext = e,
             handlers'[e] = handlers[e], \A w \in Worker : at'[w] # at[w] => at'[w] # e
      PROVE  handlers'[call'[t].ext] = 0 /\ \A w \in Worker : at'[w] # call'[t].ext
  BY <1>3 DEF QuietStop, At
<1>4. call'[t] = call[t] => call[t].ext \in Ext
  BY <1>1 DEF Claims
<1>5. CASE UNCHANGED vars
  BY <1>3, <1>4, <1>5 DEF vars, routerVars
<1>6. ASSUME NEW w \in Worker, RouteDone(w)
      PROVE  handlers'[call'[t].ext] = 0 /\ \A v \in Worker : at'[v] # call'[t].ext
  BY <1>1, <1>3, <1>4, <1>6 DEF RouteDone, Typed
<1>7. ASSUME NEW w \in Worker, NEW e \in Ext, RunHandler(w, e)
      PROVE  handlers'[call'[t].ext] = 0 /\ \A v \in Worker : at'[v] # call'[t].ext
  <2>1. UNCHANGED <<call, handlers>> /\ handlers[e] > 0 /\ \A v \in Worker : at'[v] # at[v] => at'[v] = e
    BY <1>1, <1>7 DEF RunHandler, Typed
  <2>2. handlers[call[t].ext] = 0
    BY <2>1 DEF QuietStop, At
  <2> QED  BY <1>1, <1>3, <1>4, <2>1, <2>2 DEF Typed
<1>8. CASE StopAll \/ StopAllNext \/ StopAllStop \/ StopAllSet
  <2>1. call'[t] = call[t] /\ UNCHANGED <<handlers, at>>
    BY <1>1, <1>8 DEF StopAll, StopAllNext, StopAllStop, StopAllSet, Goto, routerVars, Typed
  <2> QED  BY <1>3, <1>4, <2>1
<1>9. ASSUME NEW u \in Admin,
             \/ \E e \in Ext, c \in Config : Enable(u, e, c) \/ Reconfigure(u, e, c)
             \/ \E e \in Ext : Disable(u, e) \/ Restart(u, e)
             \/ InitOk(u) \/ InitErr(u) \/ Enabled(u) \/ RestartNext(u) \/ Deregister(u)
             \/ StopErr(u) \/ StopOk(u) \/ Disabled(u) \/ Reconfigured(u)
      PROVE  handlers'[call'[t].ext] = 0 /\ \A w \in Worker : at'[w] # call'[t].ext
  <2>1. CASE u = t
    BY <1>1, <1>2, <1>9, <2>1, OneCaller
  <2>2. CASE u # t
    <3>1. /\ call'[t] = call[t] /\ at' = at
          /\ \/ handlers' = handlers
             \/ /\ call[u].pc \in {"init", "deregister"}
                /\ \A x \in Ext : x # call[u].ext => handlers'[x] = handlers[x]
      BY <1>1, <1>9, <2>2, OneCaller
    <3>2. call[u].pc \in {"init", "deregister"} => call[u].ext # call[t].ext
      BY <1>1, <2>2, <3>1 DEF Exclusive, Busy
    <3> QED  BY <1>3, <1>4, <3>1, <3>2
  <2> QED  BY <2>1, <2>2
<1> QED  BY <1>5, <1>6, <1>7, <1>8, <1>9 DEF Next

\* While Disable runs an extension's Stop no message is in its handlers or can get there
\* (manager.go Disable, router.go DeregisterAllByOwner).
THEOREM ManagerQuiet == ASSUME Quiesce, CanStop \subseteq Owned PROVE Spec => []QuietStop
<1>1. Init => QuietStop
  BY DEF Init, QuietStop, At, Idle, Thread
<1> QED  BY <1>1, QuietStep, ManagerSafe, PTL DEF Spec

-----------------------------------------------------------------------------
(* The order of StopAll                                                    *)

\* StopAll is through with an extension or will not stop it.
Passed(e) == ~(state[e] = "active" /\ e \in CanStop)

\* What is active is listed, however many old entries failed Stops have left.
Recorded == \A e \in Ext : state[e] = "active" => In(e, initOrder)

\* StopAll works its way down initOrder: its list is the rest of it, from the end.
Descending ==
    LET n == Len(call[Srv].todo) IN
    call[Srv].pc \in {"all", "allstop", "allset"} =>
        /\ n <= Len(initOrder)
        /\ \A i \in 1 .. n : call[Srv].todo[i] = initOrder[n - i + 1]
        /\ call[Srv].pc = "all" => \A j \in 1 .. Len(initOrder) : j > n => Passed(initOrder[j])
        /\ call[Srv].pc \in {"allstop", "allset"} =>
              /\ n + 1 <= Len(initOrder) /\ call[Srv].ext = initOrder[n + 1]
              /\ \A j \in 1 .. Len(initOrder) : j > n + 1 => Passed(initOrder[j])

AllPassed == call[Srv].pc = "stopped" => \A e \in Ext : Passed(e)

OrderInv == Recorded /\ Descending /\ AllPassed

\* Only the end of Enable activates an extension, and only Enable and Disable list it.
LEMMA ActivatedBy ==
    ASSUME Typed, NEW u \in Admin,
           \/ \E e \in Ext, c \in Config : Enable(u, e, c) \/ Reconfigure(u, e, c)
           \/ \E e \in Ext : Disable(u, e) \/ Restart(u, e)
           \/ InitOk(u) \/ InitErr(u) \/ RestartNext(u) \/ Deregister(u)
           \/ StopErr(u) \/ StopOk(u) \/ Reconfigured(u)
    PROVE  initOrder' = initOrder /\ \A x \in Ext : state'[x] = "active" => state[x] = "active"
<1>1. state \in [Ext -> State]
  BY DEF Typed
<1>2. ASSUME NEW e, NEW v, v # "active", state' = [state EXCEPT ![e] = v]
      PROVE  \A x \in Ext : state'[x] = "active" => state[x] = "active"
  BY <1>1, <1>2
<1>3. CASE \E e \in Ext, c \in Config : Enable(u, e, c)
  BY <1>2, <1>3 DEF Enable, EnableOf
<1>4. CASE \E e \in Ext, c \in Config : Reconfigure(u, e, c)
  BY <1>4 DEF Reconfigure, extVars
<1>5. CASE \E e \in Ext : Disable(u, e)
  BY <1>2, <1>5 DEF Disable, DisableOf
<1>6. CASE \E e \in Ext : Restart(u, e)
  BY <1>6 DEF Restart, extVars
<1>7. CASE InitOk(u) \/ Deregister(u) \/ StopOk(u) \/ Reconfigured(u)
  BY <1>7 DEF InitOk, Deregister, StopOk, Reconfigured, extVars
<1>8. CASE InitErr(u)
  BY <1>2, <1>8 DEF InitErr
<1>9. CASE StopErr(u)
  BY <1>2, <1>9 DEF StopErr
<1>10. CASE RestartNext(u)
  BY <1>2, <1>10 DEF RestartNext, DisableOf, EnableOf
<1> QED  BY <1>3, <1>4, <1>5, <1>6, <1>7, <1>8, <1>9, <1>10

LEMMA OrderAdmin ==
    ASSUME Quiesce, ManagerInv, OrderInv, NEW u \in Admin,
           \/ \E e \in Ext, c \in Config : Enable(u, e, c) \/ Reconfigure(u, e, c)
           \/ \E e \in Ext : Disable(u, e) \/ Restart(u, e)
           \/ InitOk(u) \/ InitErr(u) \/ Enabled(u) \/ RestartNext(u) \/ Deregister(u)
           \/ StopErr(u) \/ StopOk(u) \/ Disabled(u) \/ Reconfigured(u)
    PROVE  OrderInv'
<1>1. Typed /\ Alone /\ Claims /\ Srv \in Thread /\ Srv # u
  BY DEF ManagerInv, Thread
<1>2. ~down
  BY <1>1 DEF Enable, Reconfigure, Disable, Restart, Request, InitOk, InitErr, Enabled, RestartNext,
              Deregister, StopErr, StopOk, Disabled, Reconfigured, At, Alone
<1>3. call'[Srv] = call[Srv]
  BY <1>1, OneCaller
<1>4. call[Srv].pc = "idle"
  BY <1>1, <1>2 DEF Alone
<1>5. Descending' /\ AllPassed'
  BY <1>3, <1>4 DEF Descending, AllPassed
<1>6. Recorded'
  <2>1. CASE Enabled(u)
    <3>1. PICK e \in Ext : e = call[u].ext
      BY <1>1, <2>1 DEF Enabled, At, Claims
    <3>2. initOrder' = Append(initOrder, e) /\ \A x \in Ext \ {e} : state'[x] = state[x]
      BY <1>1, <2>1, <3>1 DEF Enabled, Typed
    <3>3. initOrder \in Seq(Ext) /\ Len(initOrder) \in Nat
      BY <1>1, LenProperties DEF Typed
    <3>4. /\ Len(initOrder') = Len(initOrder) + 1 /\ initOrder'[Len(initOrder) + 1] = e
          /\ \A i \in 1 .. Len(initOrder) : initOrder'[i] = initOrder[i]
      BY <3>2, <3>3, AppendProperties
    <3>5. ASSUME NEW x \in Ext, In(x, initOrder) PROVE In(x, initOrder')
      BY <3>3, <3>4, <3>5 DEF In
    <3>6. In(e, initOrder')
      BY <3>3, <3>4 DEF In
    <3> QED  BY <3>2, <3>5, <3>6 DEF OrderInv, Recorded, In
  <2>2. CASE Disabled(u)
    <3>1. PICK e \in Ext : e = call[u].ext
      BY <1>1, <2>2 DEF Disabled, At, Claims
    <3>2. /\ initOrder' = RemoveFirst(initOrder, e) /\ state'[e] = "stopped"
          /\ \A x \in Ext \ {e} : state'[x] = state[x]
      BY <1>1, <2>2, <3>1 DEF Disabled, Typed
    <3>3. \A x : x # e /\ In(x, initOrder) => In(x, initOrder')
      BY <1>1, <3>2, RemoveFirstKeeps DEF Typed
    <3>4. ASSUME NEW x \in Ext, state'[x] = "active" PROVE In(x, initOrder')
      BY <3>2, <3>3, <3>4 DEF OrderInv, Recorded
    <3> QED  BY <3>4 DEF Recorded, In
  <2>3. CASE ~Enabled(u) /\ ~Disabled(u)
    <3>1. initOrder' = initOrder /\ \A x \in Ext : state'[x] = "active" => state[x] = "active"
      BY <1>1, <2>3, ActivatedBy
    <3> QED  BY <3>1 DEF OrderInv, Recorded, In
  <2> QED  BY <2>1, <2>2, <2>3
<1> QED  BY <1>5, <1>6 DEF OrderInv

LEMMA OrderStopAll ==
    ASSUME ManagerInv, OrderInv, StopAll \/ StopAllNext \/ StopAllStop \/ StopAllSet
    PROVE  OrderInv'
<1>1. Typed /\ Alone /\ Srv \in Thread /\ call[Srv] \in Call
  BY DEF ManagerInv, Typed, Thread
<1>2. PICK k, td : k = Len(initOrder) /\ td = call[Srv].todo
  OBVIOUS
<1>3. k \in Nat /\ initOrder \in Seq(Ext) /\ td \in Seq(Ext) /\ Len(td) \in Nat
  BY <1>1, <1>2, LenProperties DEF Typed, Call
<1>4. initOrder' = initOrder
  BY DEF StopAll, StopAllNext, StopAllStop, StopAllSet, extVars
<1>5. \A x \in Ext : state'[x] = "active" => state[x] = "active"
  BY <1>1 DEF StopAll, StopAllNext, StopAllStop, StopAllSet, extVars, Typed
<1>6. Recorded'
  BY <1>4, <1>5 DEF OrderInv, Recorded, In
<1>7. \A x \in Ext : Passed(x) => Passed(x)'
  BY <1>5 DEF Passed
<1>8. \A j \in 1 .. k : initOrder[j] \in Ext
  BY <1>2, <1>3, ElementOfSeq
<1>9. \A j \in 1 .. k : Passed(initOrder[j]) => Passed(initOrder[j])'
  BY <1>4, <1>7, <1>8 DEF Passed
<1>10. CASE StopAll
  <2>1. call'[Srv] = [Idle EXCEPT !.pc = "all", !.todo = Reverse(initOrder)]
    BY <1>1, <1>10 DEF StopAll, StopOrder, Typed
  <2>2. call'[Srv].pc = "all" /\ call'[Srv].todo = Reverse(initOrder)
    BY <2>1 DEF Idle
  <2>3. Len(Reverse(initOrder)) = k /\ \A i \in 1 .. k : Reverse(initOrder)[i] = initOrder[k - i + 1]
    BY <1>2, <1>3, LenProperties DEF Reverse
  <2>4. Descending'
    BY <1>2, <1>3, <1>4, <2>2, <2>3 DEF Descending
  <2>5. AllPassed'
    BY <2>2 DEF AllPassed
  <2> QED  BY <1>6, <2>4, <2>5 DEF OrderInv
<1>11. CASE StopAllNext
  <2>1. /\ Len(td) <= k /\ \A i \in 1 .. Len(td) : td[i] = initOrder[Len(td) - i + 1]
        /\ \A j \in 1 .. k : j > Len(td) => Passed(initOrder[j])
    BY <1>2, <1>11 DEF StopAllNext, At, OrderInv, Descending
  <2>2. state' = state
    BY <1>11 DEF StopAllNext, extVars
  <2>3. CASE td = <<>>
    <3>1. call'[Srv].pc = "stopped" /\ Len(td) = 0
      BY <1>1, <1>2, <1>11, <2>3 DEF StopAllNext, Goto, Typed, Call
    <3>2. \A j \in 1 .. k : Passed(initOrder[j])
      BY <1>3, <2>1, <3>1
    <3>3. ASSUME NEW e \in Ext PROVE Passed(e)
      BY <1>2, <3>2 DEF OrderInv, Recorded, In, Passed
    <3>4. AllPassed'
      BY <1>7, <3>3 DEF AllPassed
    <3>5. Descending'
      BY <3>1 DEF Descending
    <3> QED  BY <1>6, <3>4, <3>5 DEF OrderInv
  <2>4. CASE td # <<>>
    <3>1. PICK e \in Ext, tl \in Seq(Ext) : e = Head(td) /\ tl = Tail(td)
      BY <1>3, <2>4, HeadTailProperties
    <3>2. Len(tl) = Len(td) - 1 /\ \A i \in 1 .. Len(tl) : tl[i] = td[i + 1]
      BY <1>3, <2>4, <3>1, HeadTailProperties
    <3>3. PICK n : n = Len(tl)
      OBVIOUS
    <3>4. n \in Nat /\ n + 1 = Len(td) /\ n + 1 <= k /\ n <= k
      BY <1>3, <2>1, <3>1, <3>2, <3>3, LenProperties
    <3>5. e = initOrder[n + 1]
      <4>1. e = td[1]
        BY <1>3, <2>4, <3>1
      <4>2. 1 \in 1 .. Len(td) /\ Len(td) - 1 + 1 = n + 1
        BY <3>4
      <4> QED  BY <2>1, <4>1, <4>2
    <3>6. \A i \in 1 .. n : tl[i] = initOrder[n - i + 1]
      <4> SUFFICES ASSUME NEW i \in 1 .. n PROVE tl[i] = initOrder[n - i + 1]
        OBVIOUS
      <4>1. i + 1 \in 1 .. Len(td) /\ Len(td) - (i + 1) + 1 = n - i + 1
        BY <3>4
      <4> QED  BY <2>1, <3>2, <3>3, <4>1
    <3>7. /\ call'[Srv].todo = tl /\ call'[Srv].ext = e
          /\ call'[Srv].pc = IF state[e] = "active" /\ e \in CanStop THEN "allstop" ELSE "all"
      <4> DEFINE d == [call[Srv] EXCEPT !.todo = Tail(@), !.ext = e,
                         !.pc = IF state[e] = "active" /\ e \in CanStop THEN "allstop" ELSE "all"]
      <4>1. call'[Srv] = d
        BY <1>1, <1>2, <1>11, <2>4, <3>1 DEF StopAllNext, Typed
      <4>2. /\ d.todo = tl /\ d.ext = e
            /\ d.pc = IF state[e] = "active" /\ e \in CanStop THEN "allstop" ELSE "all"
        BY <1>1, <1>2, <3>1 DEF Call
      <4> HIDE DEF d
      <4> QED  BY <4>1, <4>2
    <3>8. \A j \in 1 .. k : j > n + 1 => Passed(initOrder[j])'
      BY <1>9, <2>1, <3>4
    <3>9. call'[Srv].pc = "all" => \A j \in 1 .. k : j > n => Passed(initOrder[j])'
      <4> SUFFICES ASSUME call'[Srv].pc = "all", NEW j \in 1 .. k, j > n PROVE Passed(initOrder[j])'
        OBVIOUS
      <4>1. CASE j > n + 1
        BY <3>8, <4>1
      <4>2. CASE j = n + 1
        BY <1>4, <2>2, <3>5, <3>7, <4>2 DEF Passed
      <4> QED  BY <1>3, <3>4, <4>1, <4>2
    <3>10. Descending'
      BY <1>2, <1>4, <3>3, <3>4, <3>5, <3>6, <3>7, <3>8, <3>9 DEF Descending
    <3>11. AllPassed'
      BY <3>7 DEF AllPassed
    <3> QED  BY <1>6, <3>10, <3>11 DEF OrderInv
  <2> QED  BY <2>3, <2>4
<1>12. CASE StopAllStop
  <2>1. call[Srv].pc = "allstop" /\ call'[Srv].pc = "allset" /\ call'[Srv].ext = call[Srv].ext /\ call'[Srv].todo = td
    BY <1>1, <1>2, <1>12 DEF StopAllStop, At, Goto, Typed, Call
  <2>2. Descending'
    BY <1>2, <1>4, <1>9, <2>1 DEF OrderInv, Descending
  <2> QED  BY <1>6, <2>1, <2>2 DEF OrderInv, AllPassed
<1>13. CASE StopAllSet
  <2>1. call[Srv].pc = "allset" /\ call'[Srv].pc = "all" /\ call'[Srv].todo = td
    BY <1>1, <1>2, <1>13 DEF StopAllSet, At, Goto, Typed, Call
  <2>2. PICK e \in Ext : e = call[Srv].ext
    BY <1>1, <2>1 DEF Alone
  <2>3. state'[e] = "stopped"
    BY <1>1, <1>13, <2>2 DEF StopAllSet, Typed
  <2>4. /\ Len(td) <= k /\ \A i \in 1 .. Len(td) : td[i] = initOrder[Len(td) - i + 1]
        /\ e = initOrder[Len(td) + 1] /\ \A j \in 1 .. k : j > Len(td) + 1 => Passed(initOrder[j])
    BY <1>2, <2>1, <2>2 DEF OrderInv, Descending
  <2>5. ASSUME NEW j \in 1 .. k, j > Len(td) PROVE Passed(initOrder[j])'
    <3>1. CASE j > Len(td) + 1
      BY <1>9, <2>4, <3>1
    <3>2. CASE j = Len(td) + 1
      BY <1>4, <2>3, <2>4, <3>2 DEF Passed
    <3> QED  BY <1>3, <2>5, <3>1, <3>2
  <2>6. Descending'
    BY <1>2, <1>4, <2>1, <2>4, <2>5 DEF Descending
  <2> QED  BY <1>6, <2>1, <2>6 DEF OrderInv, AllPassed
<1> QED  BY <1>10, <1>11, <1>12, <1>13

LEMMA OrderStep ==
    ASSUME Quiesce, ManagerInv, OrderInv, [Next]_vars PROVE OrderInv'
<1>1. ASSUME UNCHANGED <<state, initOrder, call>> PROVE OrderInv'
  BY <1>1 DEF OrderInv, Recorded, In, Descending, AllPassed, Passed
<1>2. CASE UNCHANGED vars
  BY <1>1, <1>2 DEF vars, extVars
<1>3. ASSUME NEW w \in Worker, RouteDone(w) \/ \E e \in Ext : RunHandler(w, e) PROVE OrderInv'
  BY <1>1, <1>3 DEF RouteDone, RunHandler, extVars
<1>4. CASE StopAll \/ StopAllNext \/ StopAllStop \/ StopAllSet
  BY <1>4, OrderStopAll
<1>5. ASSUME NEW t \in Admin,
             \/ \E e \in Ext, c \in Config : Enable(t, e, c) \/ Reconfigure(t, e, c)
             \/ \E e \in Ext : Disable(t, e) \/ Restart(t, e)
             \/ InitOk(t) \/ InitErr(t) \/ Enabled(t) \/ RestartNext(t) \/ Deregister(t)
             \/ StopErr(t) \/ StopOk(t) \/ Disabled(t) \/ Reconfigured(t)
      PROVE  OrderInv'
  BY <1>5, OrderAdmin
<1> QED  BY <1>2, <1>3, <1>4, <1>5 DEF Next

\* The extension that is being stopped is the last one listed that is still to stop.
LEMMA OrderMeans ==
    ASSUME ManagerInv, OrderInv PROVE ReverseOrder
<1> DEFINE I(e) == {i \in 1 .. Len(initOrder) : initOrder[i] = e}
<1>1. Len(initOrder) \in Nat
  BY LenProperties DEF ManagerInv, Typed
<1> SUFFICES ASSUME NEW e \in CanStop, state[e] = "active"
             PROVE  /\ call[Srv].pc # "stopped"
                    /\ call[Srv].pc = "allstop" =>
                          (IF I(e) # {} THEN Max(I(e)) ELSE 0)
                             <= (IF I(call[Srv].ext) # {} THEN Max(I(call[Srv].ext)) ELSE 0)
  BY DEF ReverseOrder, At, SelectLastInSeq
<1>2. e \in Ext
  OBVIOUS
<1>3. call[Srv].pc # "stopped"
  BY <1>2 DEF OrderInv, AllPassed, Passed
<1>4. ASSUME call[Srv].pc = "allstop"
      PROVE  (IF I(e) # {} THEN Max(I(e)) ELSE 0)
                <= (IF I(call[Srv].ext) # {} THEN Max(I(call[Srv].ext)) ELSE 0)
  <2>1. PICK n, x : n = Len(call[Srv].todo) + 1 /\ x = call[Srv].ext
    OBVIOUS
  <2>2. n \in Nat /\ n > 0
    <3>1. call[Srv].todo \in Seq(Ext)
      BY DEF ManagerInv, Typed, Thread, Call
    <3> QED  BY <2>1, <3>1, LenProperties
  <2>3. /\ n <= Len(initOrder) /\ x = initOrder[n]
        /\ \A j \in 1 .. Len(initOrder) : j > n => Passed(initOrder[j])
    BY <1>4, <2>1 DEF OrderInv, Descending
  <2>4. n \in I(x)
    BY <1>1, <2>2, <2>3
  <2>5. \A i \in I(e) : i <= n /\ i \in Nat
    BY <1>1, <2>2, <2>3 DEF Passed
  <2>6. I(e) \subseteq 1 .. Len(initOrder) /\ I(x) \subseteq 1 .. Len(initOrder)
    OBVIOUS
  <2> HIDE DEF I
  <2>7. n <= Max(I(x)) /\ Max(I(x)) \in Nat
    BY <1>1, <2>4, <2>6, GreatestOf
  <2>8. I(e) # {} => Max(I(e)) \in I(e)
    BY <1>1, <2>6, GreatestOf
  <2>9. I(x) # {}
    BY <2>4
  <2>10. CASE I(e) # {}
    <3>1. Max(I(e)) <= n /\ Max(I(e)) \in Nat
      BY <2>5, <2>8, <2>10
    <3>2. Max(I(e)) <= Max(I(x))
      BY <2>2, <2>7, <3>1
    <3> QED  BY <2>1, <2>9, <2>10, <3>2
  <2>11. CASE I(e) = {}
    <3>1. 0 <= Max(I(x))
      BY <2>7
    <3> QED  BY <2>1, <2>9, <2>11, <3>1
  <2> QED  BY <2>10, <2>11
<1> QED  BY <1>3, <1>4

\* StopAll stops in reverse initialization order and leaves nothing active that can be
\* stopped (manager.go StopAll), with any number of extensions, also when failed Stops
\* have left old entries in initOrder.
THEOREM ManagerStopsInOrder == ASSUME Quiesce PROVE Spec => []ReverseOrder
<1>1. Init => OrderInv
  BY DEF Init, OrderInv, Recorded, Descending, AllPassed, Idle, Thread
<1> QED  BY <1>1, OrderStep, OrderMeans, ManagerSafe, PTL DEF Spec
=============================================================================
