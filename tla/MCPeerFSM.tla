----------------------------- MODULE MCPeerFSM -----------------------------
(* Instances of PeerFSM for TLC.                                           *)
EXTENDS PeerFSM, TLC

ConnSymmetry == Permutations(Conn)
=============================================================================
