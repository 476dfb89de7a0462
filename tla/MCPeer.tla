------------------------------- MODULE MCPeer -------------------------------
(* A peer for TLC: its state machine, and the ring its senders share.  They    *)
(* share no state, so a behaviour exercises one of them and leaves the other   *)
(* as it is.                                                                   *)
EXTENDS PeerFSM, WriterQueue, TLC

VARIABLE exercised

allVars == <<exercised, vars, wqVars>>

PeerInit ==
    /\ exercised \in {"machine", "ring"} /\ Init /\ WqInit
    /\ exercised = "ring" => queue = <<Ev("Start")>>

PeerNext ==
    /\ UNCHANGED exercised
    /\ \/ exercised = "machine" /\ Next /\ UNCHANGED wqVars
       \/ exercised = "ring" /\ WqNext /\ UNCHANGED vars

PeerSpec == PeerInit /\ [][PeerNext]_allVars

MCSymmetry == Permutations(Conn) \cup Permutations(Producer)
=============================================================================
