---------------------------- MODULE MCExtensions ----------------------------
(* The extension layer for TLC: the extension manager, and the stores three of *)
(* the extensions keep.  They share nothing but the clock the stores read, so a *)
(* behaviour exercises one of them and leaves the others alone.            *)
EXTENDS ExtensionManager, PseudonymStore, RateLimiter, SessionBind, TLC

VARIABLE exercised

allVars == <<exercised, now, vars, psVars, rlVars, sbVars>>

LayerInit ==
    /\ exercised \in {"manager", "pseudonyms", "buckets", "bindings"}
    /\ ClockInit /\ Init /\ PsInit /\ RlInit /\ SbInit

LayerNext ==
    /\ UNCHANGED exercised
    /\ \/ exercised = "manager" /\ Next /\ UNCHANGED <<now, psVars, rlVars, sbVars>>
       \/ exercised = "pseudonyms" /\ PsNext /\ UNCHANGED <<vars, rlVars, sbVars>>
       \/ exercised = "buckets" /\ RlNext /\ UNCHANGED <<vars, psVars, sbVars>>
       \/ exercised = "bindings" /\ SbNext /\ UNCHANGED <<vars, psVars, rlVars>>

LayerSpec == LayerInit /\ [][LayerNext]_allVars

CONSTANTS e1, e2, e3, p1, p2, q1, q2, g1, g2, a1, a2, k1, k2, k3
\* Goroutines, whether administrators or routing, and keys are interchangeable.
MCSymmetry == Permutations({g1, g2}) \cup Permutations({k1, k2, k3})
MCMaxEntriesOf == [p \in Partner |-> IF p = p1 THEN 2 ELSE -1]
MCScore == [p \in Peer |-> IF p = q1 THEN 1 ELSE 2]
\* Command 1 has a rule of its own; command 2, whose rule has no rate, falls through to
\* the rule of the partner.
MCRules == [command     |-> [c \in {1, 2} |-> [rate |-> IF c = 1 THEN 2 ELSE 0, burst |-> 1]],
            application |-> [a \in {1} |-> [rate |-> 2, burst |-> 0]],
            peer        |-> [rate |-> 0, burst |-> 0],
            partner     |-> [rate |-> 4, burst |-> 0]]
MCArrival == {[peer |-> q1, app |-> 1, cmd |-> 1], [peer |-> q2, app |-> 2, cmd |-> 2]}
\* The precondition of RateBound.
ASSUME BucketsRefill == Refills
=============================================================================
