----------------------------- MODULE MCServer ------------------------------
(* The server for TLC: its table of peers, and the session manager of its     *)
(* applications.  They share no state, so a behaviour exercises one of them   *)
(* and leaves the other as it is, where fairness asks nothing of it.          *)
EXTENDS PeerTable, SessionManager, TLC

VARIABLE exercised

allVars == <<exercised, vars, smVars>>

ServerInit == exercised \in {"table", "sessions"} /\ Init /\ SmInit

ServerNext ==
    /\ UNCHANGED exercised
    /\ \/ exercised = "table" /\ Next /\ UNCHANGED smVars
       \/ exercised = "sessions" /\ SmNext /\ UNCHANGED vars

ServerSpec == ServerInit /\ [][ServerNext]_allVars /\ Fairness /\ SmFairness

CONSTANTS s1, s2, id1, a1, a2

\* Two session objects share an ID; the first is registered twice.
MCIdOf  == [s \in Session |-> id1]
MCAppOf == [s \in Session |-> IF s = s1 THEN a1 ELSE a2]
MCMaxRegs == [s \in Session |-> IF s = s1 THEN 2 ELSE 1]
=============================================================================
