--------------------------- MODULE MCRelayRouter ----------------------------
(* Instances of RelayRouter for TLC.                                       *)
EXTENDS RelayRouter, TLC

CONSTANTS c, s, t, self, home, far, a1, a2, a0, oc, os, ot

\* By application a1 a request goes to s or t, by its realm to c or t; t is never connected.
MCHostRoutes  == [i \in Identity |-> None]
MCRealmRoutes == SetupRealmRoutes([r \in Realm |-> IF r = far THEN {t} ELSE {}], {c})
MCAppRoutes   == [x \in App |-> IF x = a1 THEN <<s, t>> ELSE <<>>]
MCRealmOf     == [i \in Identity |-> IF i = self THEN home ELSE far]

\* Request 1 comes from c, request 2, for c, from s and request 3, for this node, from c.
MCDest        == [q \in Req |-> [host  |-> CASE q = 1 -> None [] q = 2 -> c [] q = 3 -> self,
                                 realm |-> IF q = 2 THEN far ELSE home,
                                 app   |-> IF q = 1 THEN a1 ELSE a2]]
MCFrom        == [q \in Req |-> IF q = 2 THEN {os} ELSE {oc}]
MCAnswerDest  == [host |-> None, realm |-> None, app |-> a1]
MCIdOf        == [o \in Obj |-> IF o = oc THEN c ELSE s]
\* None of the routing extensions, or all; a rule of rt_ereg makes s and t equal for request 1.
MCLoads       == {{}, {"rt_ignore_dh", "rt_ereg", "rt_load_balance", "rt_randomize"}}
MCEregRules   == {[reqs |-> {1}, server |-> t, score |-> 1]}
=============================================================================
