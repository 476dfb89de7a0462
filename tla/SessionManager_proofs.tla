------------------------ MODULE SessionManager_proofs ------------------------
(* Theorems about the session manager, for any number of sessions, Session-IDs *)
(* and callers.                                                            *)
EXTENDS SessionManager, TLAPS, FiniteSetTheorems, SequenceTheorems

USE SessionAssumption, NoSessionAssumption, ThreadAssumption

\* The values of what Register, Remove and Terminate read and write.
PC   == {"idle", "create", "calls", "close"}
Call == [pc : PC, sess : Session \cup {NoSession}, todo : SUBSET Session, calls : Seq({"remove", "user"})]

\* The type invariant of the manager and its callers.
Typed ==
    /\ sessions \in [SessionID -> Session \cup {NoSession}]
    /\ byAppID \in [App -> [SessionID -> Session \cup {NoSession}]]
    /\ call \in [Thread -> Call] /\ onTerminate \in [Session -> Seq({"remove", "user"})]
    /\ regs \in [Session -> Nat] /\ closes \in [Session -> Nat]

\* A caller that has a callback to run, or an end to report, knows of which session.
Known == \A t \in Thread : call[t].pc = "close" \/ call[t].calls # <<>> => call[t].sess \in Session

\* A session is entered under its own Session-ID and application, in both indexes.
Indexed ==
    /\ \A i \in SessionID : sessions[i] # NoSession => IdOf[sessions[i]] = i
    /\ \A i \in SessionID, a \in App, s \in Session :
          byAppID[a][i] = s <=> sessions[i] = s /\ AppOf[s] = a

\* The callers about to report the end of s.
Reporters(s) == {t \in Thread : call[t].pc = "close" /\ call[t].sess = s}

\* Every registration is still there, about to be reported, or reported.
Counted == \A s \in Session : regs[s] = Registered(s) + Cardinality(Reporters(s)) + closes[s]

\* The inductive invariant.
SessionInv == Typed /\ Known /\ Indexed /\ Counted

\* A caller may be between calls.
LEMMA IdleIsCall == Idle \in Call /\ Idle.pc = "idle" /\ Idle.calls = <<>>
  BY EmptySeq DEF Idle, Call, PC

\* Nothing is registered and nobody calls.
LEMMA SessionInit == SmInit => SessionInv
<1> SUFFICES ASSUME SmInit PROVE SessionInv
  OBVIOUS
<1>1. Typed /\ Known
  BY IdleIsCall, EmptySeq DEF SmInit, Typed, Known
<1>2. Indexed
  BY DEF SmInit, Indexed
<1>3. \A s \in Session : Cardinality(Reporters(s)) = 0 /\ Registered(s) = 0
  BY IdleIsCall, FS_EmptySet DEF SmInit, Reporters, Registered
<1>4. Counted
  BY <1>3 DEF Counted, SmInit
<1> QED  BY <1>1, <1>2, <1>4 DEF SessionInv

\* Callers can be counted.
LEMMA ReportersFinite == \A s \in Session : IsFiniteSet(Reporters(s)) /\ Cardinality(Reporters(s)) \in Nat
<1> SUFFICES ASSUME NEW s \in Session PROVE IsFiniteSet(Reporters(s))
  BY FS_CardinalityType
<1>1. Reporters(s) \subseteq Thread
  BY DEF Reporters
<1> QED  BY <1>1, FS_Subset

\* A step that leaves the indexes alone, and in which no caller starts or ends a report.
LEMMA CallStep ==
    ASSUME SessionInv, NEW t \in Thread, NEW c \in Call, call' = [call EXCEPT ![t] = c],
           call[t].pc # "close", c.pc # "close", c.calls # <<>> => c.sess \in Session,
           UNCHANGED <<managerVars, closes>>, onTerminate' \in [Session -> Seq({"remove", "user"})]
    PROVE  SessionInv'
<1> USE DEF SessionInv, managerVars
<1>1. Typed'
  BY DEF Typed
<1>2. call'[t] = c /\ \A u \in Thread \ {t} : call'[u] = call[u]
  BY DEF Typed
<1>3. Known'
  BY <1>2 DEF Known
<1>4. Indexed'
  BY DEF Indexed
<1>5. \A s \in Session : Reporters(s)' = Reporters(s) /\ Registered(s)' = Registered(s)
  BY <1>2 DEF Reporters, Registered
<1>6. Counted'
  BY <1>5 DEF Counted
<1> QED  BY <1>1, <1>3, <1>4, <1>6

\* Remove of an ID that is in use: its session leaves the indexes, and t has to report it.
LEMMA DeleteStep ==
    ASSUME SessionInv, NEW t \in Thread, NEW i \in SessionID, NEW c \in Call,
           call[t].pc # "close", c.pc = "calls", c.calls # <<>> => c.sess \in Session,
           Delete(t, i, c), UNCHANGED <<onTerminate, regs, closes>>
    PROVE  SessionInv'
<1> USE DEF SessionInv
<1>1. CASE sessions[i] = NoSession
  <2>1. call' = [call EXCEPT ![t] = c] /\ UNCHANGED <<managerVars, closes>>
    BY <1>1 DEF Delete, managerVars
  <2> QED  BY <2>1, CallStep DEF Typed
<1>2. CASE sessions[i] # NoSession
  <2>1. PICK s \in Session : s = sessions[i]
    BY <1>2 DEF Typed
  <2>2. IdOf[s] = i /\ AppOf[s] \in App
    BY <1>2, <2>1 DEF Indexed
  <2> DEFINE d == [c EXCEPT !.pc = "close", !.sess = s]
  <2>3. d \in Call /\ d.pc = "close" /\ d.sess = s
    BY DEF Call, PC
  <2>4. /\ sessions' = [sessions EXCEPT ![i] = NoSession]
        /\ byAppID' = [byAppID EXCEPT ![AppOf[s]][i] = NoSession]
        /\ call' = [call EXCEPT ![t] = d]
    BY <1>2, <2>1 DEF Delete
  <2> HIDE DEF d
  <2>5. Typed'
    BY <2>3, <2>4 DEF Typed
  <2>6. call'[t] = d /\ \A u \in Thread \ {t} : call'[u] = call[u]
    BY <2>4 DEF Typed
  <2>7. Known'
    BY <2>3, <2>6 DEF Known
  <2>8. Indexed'
    <3>1. \A j \in SessionID : sessions'[j] = IF j = i THEN NoSession ELSE sessions[j]
      BY <2>4 DEF Typed
    <3>2. \A a \in App, j \in SessionID :
            byAppID'[a][j] = IF a = AppOf[s] /\ j = i THEN NoSession ELSE byAppID[a][j]
      BY <2>4 DEF Typed
    <3> QED  BY <2>1, <2>2, <3>1, <3>2 DEF Indexed
  <2>9. ASSUME NEW x \in Session, x # s
        PROVE  Reporters(x)' = Reporters(x) /\ Registered(x)' = Registered(x)
    BY <2>1, <2>2, <2>3, <2>4, <2>6, <2>9 DEF Reporters, Registered, Typed
  <2>10. Reporters(s)' = Reporters(s) \cup {t} /\ t \notin Reporters(s)
    BY <2>3, <2>6 DEF Reporters
  <2>11. Registered(s) = 1 /\ Registered(s)' = 0
    BY <2>1, <2>2, <2>4 DEF Registered, Typed
  <2>12. Cardinality(Reporters(s)') = Cardinality(Reporters(s)) + 1
    BY <2>10, ReportersFinite, FS_AddElement
  <2>13. Counted'
    <3>1. regs[s] = Registered(s)' + Cardinality(Reporters(s)') + closes[s]
      BY <2>11, <2>12, ReportersFinite DEF Counted, Typed
    <3> QED  BY <2>9, <3>1 DEF Counted
  <2> QED  BY <2>5, <2>7, <2>8, <2>13
<1> QED  BY <1>1, <1>2

\* Register enters a session that is in neither index.
LEMMA RegisterStep ==
    ASSUME SessionInv, NEW t \in Thread, NEW s \in Session, Register(t, s) PROVE SessionInv'
<1> USE DEF SessionInv
<1> DEFINE c == [call[t] EXCEPT !.pc = "create"]
<1>1. /\ call[t].pc = "idle" /\ sessions[IdOf[s]] = NoSession /\ closes' = closes
      /\ sessions' = [sessions EXCEPT ![IdOf[s]] = s]
      /\ byAppID' = [byAppID EXCEPT ![AppOf[s]][IdOf[s]] = s]
      /\ onTerminate' = [onTerminate EXCEPT ![s] = <<"remove">> \o @]
      /\ regs' = [regs EXCEPT ![s] = @ + 1] /\ call' = [call EXCEPT ![t] = c]
  BY DEF Register, At, Goto, Typed
<1>2. c \in Call /\ c.pc = "create" /\ c.calls = call[t].calls /\ c.sess = call[t].sess
  <2>1. call[t] \in Call
    BY DEF Typed
  <2> QED  BY <2>1 DEF Call, PC
<1>3. <<"remove">> \o onTerminate[s] \in Seq({"remove", "user"})
  BY ConcatProperties DEF Typed
<1> HIDE DEF c
<1>4. Typed'
  BY <1>1, <1>2, <1>3 DEF Typed
<1>5. call'[t] = c /\ \A u \in Thread \ {t} : call'[u] = call[u]
  BY <1>1 DEF Typed
<1>6. Known'
  BY <1>1, <1>2, <1>5 DEF Known
<1>7. Indexed'
  <2>1. \A j \in SessionID : sessions'[j] = IF j = IdOf[s] THEN s ELSE sessions[j]
    BY <1>1 DEF Typed
  <2>2. \A a \in App, j \in SessionID :
          byAppID'[a][j] = IF a = AppOf[s] /\ j = IdOf[s] THEN s ELSE byAppID[a][j]
    BY <1>1 DEF Typed
  <2>3. IdOf[s] \in SessionID /\ AppOf[s] \in App
    OBVIOUS
  <2>4. \A a \in App, x \in Session : byAppID[a][IdOf[s]] # x
    BY <1>1, <2>3 DEF Indexed
  <2>5. (\A i \in SessionID : sessions[i] # NoSession => IdOf[sessions[i]] = i)'
    BY <2>1, <2>3 DEF Indexed
  <2>6. ASSUME NEW i \in SessionID, NEW a \in App, NEW x \in Session
        PROVE  byAppID'[a][i] = x <=> sessions'[i] = x /\ AppOf[x] = a
    BY <1>1, <2>1, <2>2, <2>3, <2>4 DEF Indexed
  <2> QED  BY <2>5, <2>6 DEF Indexed
<1>8. \A x \in Session : Reporters(x)' = Reporters(x)
  BY <1>1, <1>2, <1>5 DEF Reporters
<1>9. Counted'
  <2>1. \A x \in Session \ {s} : Registered(x)' = Registered(x) /\ regs'[x] = regs[x]
    BY <1>1 DEF Registered, Typed
  <2>2. Registered(s) = 0 /\ Registered(s)' = 1 /\ regs'[s] = regs[s] + 1
    BY <1>1 DEF Registered, Typed
  <2> QED  BY <1>1, <1>8, <2>1, <2>2, ReportersFinite DEF Counted, Typed
<1> QED  BY <1>4, <1>6, <1>7, <1>9

\* The report of an end takes the reporter away and counts once.
LEMMA ClosedStep ==
    ASSUME SessionInv, NEW t \in Thread, Closed(t) PROVE SessionInv'
<1> USE DEF SessionInv
<1> DEFINE c == [call[t] EXCEPT !.pc = "calls"]
<1>1. /\ call[t].pc = "close" /\ call' = [call EXCEPT ![t] = c]
      /\ UNCHANGED <<sessions, byAppID, regs, onTerminate>>
  BY DEF Closed, At, Goto, managerVars, Typed
<1>2. PICK s \in Session : s = call[t].sess
  BY <1>1 DEF Known
<1>3. c \in Call /\ c.pc = "calls" /\ c.sess = s
  <2>1. call[t] \in Call
    BY DEF Typed
  <2> QED  BY <1>2, <2>1 DEF Call, PC
<1>4. closes' = [closes EXCEPT ![s] = @ + 1]
  BY <1>2 DEF Closed
<1> HIDE DEF c
<1>5. Typed' /\ Indexed'
  BY <1>1, <1>3, <1>4 DEF Typed, Indexed
<1>6. call'[t] = c /\ \A u \in Thread \ {t} : call'[u] = call[u]
  BY <1>1 DEF Typed
<1>7. Known'
  BY <1>3, <1>6 DEF Known
<1>8. Reporters(s)' = Reporters(s) \ {t} /\ t \in Reporters(s)
  BY <1>1, <1>2, <1>3, <1>6 DEF Reporters
<1>9. Cardinality(Reporters(s)') = Cardinality(Reporters(s)) - 1
  BY <1>8, ReportersFinite, FS_RemoveElement
<1>10. \A x \in Session \ {s} : Reporters(x)' = Reporters(x)
  BY <1>1, <1>2, <1>3, <1>6 DEF Reporters
<1>11. \A x \in Session : Registered(x)' = Registered(x) /\ Registered(x) \in Nat
  BY <1>1 DEF Registered
<1>12. Counted'
  BY <1>1, <1>4, <1>9, <1>10, <1>11, ReportersFinite DEF Counted, Typed
<1> QED  BY <1>5, <1>7, <1>12

\* Terminate, or the next session of CloseAll: what it has to call is still to come.
LEMMA TerminateStep ==
    ASSUME SessionInv, NEW t \in Thread, NEW s \in Session, NEW rest \in SUBSET Session,
           call[t].pc # "close", TerminateOf(t, s, rest)
    PROVE  SessionInv'
<1> DEFINE c == [pc |-> "calls", sess |-> s, todo |-> rest, calls |-> onTerminate[s]]
<1>1. c \in Call /\ c.pc = "calls" /\ c.sess = s /\ Typed
  BY DEF SessionInv, Typed, Call, PC
<1>2. call' = [call EXCEPT ![t] = c] /\ UNCHANGED <<managerVars, closes, onTerminate>>
  BY DEF TerminateOf
<1> HIDE DEF c
<1> QED  BY <1>1, <1>2, CallStep DEF Typed

\* The callbacks of a terminated session run one by one; "remove" takes it out of the indexes.
LEMMA CallbackStep ==
    ASSUME SessionInv, NEW t \in Thread, RunCallback(t) PROVE SessionInv'
<1>1. /\ Typed /\ call[t] \in Call /\ call[t].pc = "calls"
      /\ call[t].calls # <<>> => call[t].sess \in Session
      /\ onTerminate \in [Session -> Seq({"remove", "user"})]
  BY DEF SessionInv, Typed, Known, RunCallback, At
<1>2. ASSUME call[t].calls # <<>>
      PROVE  LET c == [call[t] EXCEPT !.calls = Tail(@)]
             IN  c \in Call /\ c.pc = "calls" /\ c.sess = call[t].sess
  BY <1>1, <1>2, HeadTailProperties DEF Call
<1>3. CASE /\ call[t].calls # <<>> /\ Delete(t, IdOf[call[t].sess], [call[t] EXCEPT !.calls = Tail(@)])
           /\ UNCHANGED <<onTerminate, regs, closes>>
  <2>1. call[t].sess \in Session /\ IdOf[call[t].sess] \in SessionID
    BY <1>1, <1>3
  <2> QED  BY <1>1, <1>2, <1>3, <2>1, DeleteStep
<1>4. CASE /\ call[t].calls # <<>> /\ call' = [call EXCEPT ![t].calls = Tail(@)]
           /\ UNCHANGED <<managerVars, onTerminate, closes>>
  <2>1. call' = [call EXCEPT ![t] = [call[t] EXCEPT !.calls = Tail(@)]]
    BY <1>1, <1>4 DEF Typed
  <2> QED  BY <1>1, <1>2, <1>4, <2>1, CallStep
<1>5. CASE \E s \in call[t].todo : TerminateOf(t, s, call[t].todo \ {s})
  BY <1>1, <1>5, TerminateStep DEF Call
<1>6. CASE call' = [call EXCEPT ![t] = Idle] /\ UNCHANGED <<managerVars, onTerminate, closes>>
  BY <1>1, <1>6, IdleIsCall, CallStep
<1> QED  BY <1>3, <1>4, <1>5, <1>6 DEF RunCallback

\* Steps of the sessions themselves, which leave the manager and its callers alone.
LEMMA AsideStep ==
    ASSUME SessionInv, UNCHANGED <<managerVars, call, closes>>,
           onTerminate' \in [Session -> Seq({"remove", "user"})]
    PROVE  SessionInv'
<1>1. Typed' /\ Known' /\ Indexed'
  BY DEF SessionInv, Typed, Known, Indexed, managerVars
<1>2. \A s \in Session : Reporters(s)' = Reporters(s) /\ Registered(s)' = Registered(s)
  BY DEF Reporters, Registered, managerVars
<1>3. Counted'
  BY <1>2 DEF SessionInv, Counted, managerVars
<1> QED  BY <1>1, <1>3 DEF SessionInv

\* Every step of the manager keeps the invariant.
LEMMA SessionStep == SessionInv /\ [SmNext]_smVars => SessionInv'
<1> SUFFICES ASSUME SessionInv, [SmNext]_smVars PROVE SessionInv'
  OBVIOUS
<1>1. Typed /\ \A t \in Thread : call[t] \in Call
  BY DEF SessionInv, Typed
<1>2. CASE UNCHANGED smVars
  BY <1>1, <1>2, AsideStep DEF smVars, Typed
<1>3. ASSUME NEW t \in Thread, Created(t) PROVE SessionInv'
  <2> DEFINE c == [call[t] EXCEPT !.pc = "idle"]
  <2>1. c \in Call /\ c.pc = "idle" /\ c.calls = call[t].calls /\ c.sess = call[t].sess
    BY <1>1 DEF Call, PC
  <2>2. /\ call[t].pc = "create" /\ call' = [call EXCEPT ![t] = c]
        /\ UNCHANGED <<managerVars, closes, onTerminate>>
    BY <1>1, <1>3 DEF Created, At, Goto, Typed
  <2> HIDE DEF c
  <2>3. c.calls # <<>> => c.sess \in Session
    BY <2>1 DEF SessionInv, Known
  <2> QED  BY <1>1, <2>1, <2>2, <2>3, CallStep DEF Typed
<1>4. ASSUME NEW t \in Thread, CloseAll(t) PROVE SessionInv'
  <2> DEFINE c == [Idle EXCEPT !.pc = "calls", !.todo = {sessions[i] : i \in SessionID} \ {NoSession}]
  <2>1. c \in Call /\ c.pc = "calls" /\ c.calls = <<>>
    <3>1. {sessions[i] : i \in SessionID} \ {NoSession} \in SUBSET Session
      BY <1>1 DEF Typed
    <3> QED  BY <3>1, IdleIsCall DEF Call, PC
  <2>2. /\ call[t].pc = "idle" /\ call' = [call EXCEPT ![t] = c]
        /\ UNCHANGED <<managerVars, closes, onTerminate>>
    BY <1>4 DEF CloseAll, At
  <2> HIDE DEF c
  <2> QED  BY <1>1, <2>1, <2>2, CallStep DEF Typed
<1>5. ASSUME NEW t \in Thread, NEW i \in SessionID, Remove(t, i) PROVE SessionInv'
  <2> DEFINE c == [Idle EXCEPT !.pc = "calls"]
  <2>1. c \in Call /\ c.pc = "calls" /\ c.calls = <<>>
    BY IdleIsCall DEF Call, PC
  <2>2. call[t].pc = "idle" /\ Delete(t, i, c) /\ UNCHANGED <<onTerminate, regs, closes>>
    BY <1>5 DEF Remove, At
  <2> HIDE DEF c
  <2> QED  BY <2>1, <2>2, DeleteStep
<1>6. ASSUME NEW t \in Thread, NEW s \in Session, Terminate(t, s) PROVE SessionInv'
  BY <1>6, TerminateStep DEF Terminate, At
<1>7. ASSUME NEW s \in Handled,
             \/ Close(s) \/ Open(s) \/ SetOnTerminate(s) \/ SetTimeout(s)
             \/ RefreshTimeout(s) \/ Expire(s) \/ HandleTimeout(s)
      PROVE  SessionInv'
  <2>1. <<"user">> \in Seq({"remove", "user"})
    OBVIOUS
  <2>2. onTerminate' \in [Session -> Seq({"remove", "user"})]
    BY <1>1, <1>7, <2>1 DEF Close, Open, SetOnTerminate, SetTimeout, RefreshTimeout, Expire, HandleTimeout, Typed
  <2>3. UNCHANGED <<managerVars, call, closes>>
    BY <1>7 DEF Close, Open, SetOnTerminate, SetTimeout, RefreshTimeout, Expire, HandleTimeout
  <2> QED  BY <2>2, <2>3, AsideStep
<1> QED  BY <1>2, <1>3, <1>4, <1>5, <1>6, <1>7, RegisterStep, ClosedStep, CallbackStep DEF SmNext, Step

\* The indexes and the count of ends hold in every state (manager.go Register, Remove, CloseAll).
THEOREM SessionSafe == SmSpec => []SessionInv
  BY SessionInit, SessionStep, PTL DEF SmSpec

\* Every registration that has ended was reported to onSessionClose exactly once, and the
\* two indexes agree (manager.go Register, Remove).
THEOREM SessionsCloseOnce == SmSpec => []CloseOnce
<1>1. SessionInv => CloseOnce
  <2> SUFFICES ASSUME SessionInv, NEW s \in Session PROVE CloseOnce!(s)
    BY DEF CloseOnce
  <2>1. Reporting(s) = Cardinality(Reporters(s))
    BY DEF Reporting, Reporters, At
  <2> QED  BY <2>1 DEF SessionInv, Counted, Indexed
<1> QED  BY <1>1, SessionSafe, PTL
=============================================================================
